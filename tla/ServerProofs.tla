----------------------------- MODULE ServerProofs -----------------------------
(***************************************************************************)
(* The server for any number of tasks, descriptors and requests: its type, *)
(* and what clients may rely on, under the premises that each theorem      *)
(* names.                                                                  *)
(***************************************************************************)
EXTENDS Server, StdListProofs, SequenceTheorems

------------------------------------------------------------------------------
(* Parts, and what the operators make of sequences of them. *)

\* AllParts holds the parts of the requests, and a part says where it is from.
LEMMA PartOf ==
  ASSUME NEW c \in Clients, NEW n \in 1..MaxRequests, NEW j \in 1..Parts[n]
  PROVE  <<c, n, j>> \in AllParts
BY DEF AllParts

LEMMA PartIs ==
  ASSUME NEW r \in AllParts
  PROVE  /\ r[1] \in Clients /\ r[2] \in 1..MaxRequests /\ r[3] \in 1..Parts[r[2]]
         /\ r = <<r[1], r[2], r[3]>>
BY DEF AllParts

\* A request is a sequence of its parts.
LEMMA RequestIs ==
  ASSUME NEW c \in Clients, NEW n \in 1..MaxRequests
  PROVE  /\ Request(c, n) \in Seq(AllParts) /\ Len(Request(c, n)) = Parts[n]
         /\ \A j \in 1..Parts[n] : Request(c, n)[j] = <<c, n, j>>
<1>1. Parts[n] \in Nat
  BY ServerAssumption
<1>2. \A j \in 1..Parts[n] : <<c, n, j>> \in AllParts
  BY PartOf
<1>3. Request(c, n) \in [1..Parts[n] -> AllParts]
  BY <1>2 DEF Request
<1> QED BY <1>1, <1>3 DEF Request

\* The first n entries, and those after them.
LEMMA SplitSeq ==
  ASSUME NEW S, NEW s \in Seq(S), NEW n \in 0..Len(s)
  PROVE  /\ SubSeq(s, 1, n) \in Seq(S) /\ SubSeq(s, n + 1, Len(s)) \in Seq(S)
         /\ Len(SubSeq(s, 1, n)) = n /\ Len(SubSeq(s, n + 1, Len(s))) = Len(s) - n
         /\ \A j \in 1..n : SubSeq(s, 1, n)[j] = s[j]
         /\ \A j \in 1..(Len(s) - n) : SubSeq(s, n + 1, Len(s))[j] = s[n + j]
<1>1. Len(s) \in Nat /\ n \in Nat /\ \A j \in 1..Len(s) : s[j] \in S
  OBVIOUS
<1>2. /\ SubSeq(s, 1, n) \in Seq(S)
      /\ Len(SubSeq(s, 1, n)) = IF 1 <= n THEN n - 1 + 1 ELSE 0
      /\ \A j \in 1..(n - 1 + 1) : SubSeq(s, 1, n)[j] = s[1 + j - 1]
  <2>1. \A j \in 1..n : s[j] \in S
    BY <1>1
  <2> QED BY <1>1, <2>1, SubSeqProperties
<1>3. /\ SubSeq(s, n + 1, Len(s)) \in Seq(S)
      /\ Len(SubSeq(s, n + 1, Len(s))) = IF n + 1 <= Len(s) THEN Len(s) - (n + 1) + 1 ELSE 0
      /\ \A j \in 1..(Len(s) - (n + 1) + 1) : SubSeq(s, n + 1, Len(s))[j] = s[n + 1 + j - 1]
  <2>1. \A j \in (n + 1)..Len(s) : s[j] \in S
    BY <1>1
  <2> QED BY <1>1, <2>1, SubSeqProperties
<1>4. \A j \in 1..n : 1 + j - 1 = j
  OBVIOUS
<1>5. \A j \in 1..(Len(s) - n) : n + 1 + j - 1 = n + j /\ j \in 1..(Len(s) - (n + 1) + 1)
  BY <1>1
<1> QED BY <1>1, <1>2, <1>3, <1>4, <1>5

\* What a sequence that is joined of two holds,
LEMMA ConcatElements ==
  ASSUME NEW S, NEW s \in Seq(S), NEW t \in Seq(S)
  PROVE  /\ Elements(s \o t) = Elements(s) \cup Elements(t)
         /\ Distinct(s) /\ Distinct(t) /\ Elements(s) \cap Elements(t) = {} => Distinct(s \o t)
<1>1. /\ Len(s) \in Nat /\ Len(t) \in Nat /\ Len(s \o t) = Len(s) + Len(t)
      /\ \A j \in 1..(Len(s) + Len(t)) :
           (s \o t)[j] = IF j <= Len(s) THEN s[j] ELSE t[j - Len(s)]
  BY ConcatProperties
<1>2. \A j \in 1..Len(s) : j \in 1..Len(s \o t) /\ (s \o t)[j] = s[j]
  BY <1>1
<1>3. \A j \in 1..Len(t) : /\ Len(s) + j \in 1..Len(s \o t) /\ ~(Len(s) + j <= Len(s))
                           /\ Len(s) + j - Len(s) = j
  BY <1>1
<1>4. \A j \in 1..Len(t) : (s \o t)[Len(s) + j] = t[j]
  BY <1>1, <1>3
<1>5. \A j \in 1..Len(s \o t) :
        \/ j \in 1..Len(s)
        \/ j - Len(s) \in 1..Len(t) /\ (s \o t)[j] = t[j - Len(s)] /\ Len(s) + (j - Len(s)) = j
  BY <1>1
<1>6. Elements(s) \cup Elements(t) \subseteq Elements(s \o t)
  <2>1. \A j \in 1..Len(s) : s[j] \in Elements(s \o t)
    BY <1>2 DEF Elements
  <2>2. \A j \in 1..Len(t) : t[j] \in Elements(s \o t)
    BY <1>3, <1>4 DEF Elements
  <2> QED BY <2>1, <2>2 DEF Elements
<1>7. Elements(s \o t) \subseteq Elements(s) \cup Elements(t)
  BY <1>2, <1>5 DEF Elements
<1>8. ASSUME Distinct(s), Distinct(t), Elements(s) \cap Elements(t) = {},
             NEW i \in 1..Len(s \o t), NEW j \in 1..Len(s \o t), (s \o t)[i] = (s \o t)[j]
      PROVE  i = j
  <2>1. CASE i \in 1..Len(s) /\ j \in 1..Len(s)
    BY <1>2, <1>8, <2>1 DEF Distinct
  <2>2. CASE i \in 1..Len(s) /\ j \notin 1..Len(s)
    <3>1. s[i] = t[j - Len(s)] /\ j - Len(s) \in 1..Len(t)
      BY <1>2, <1>5, <1>8, <2>2
    <3> QED BY <1>8, <2>2, <3>1 DEF Elements
  <2>3. CASE i \notin 1..Len(s) /\ j \in 1..Len(s)
    <3>1. s[j] = t[i - Len(s)] /\ i - Len(s) \in 1..Len(t)
      BY <1>2, <1>5, <1>8, <2>3
    <3> QED BY <1>8, <2>3, <3>1 DEF Elements
  <2>4. CASE i \notin 1..Len(s) /\ j \notin 1..Len(s)
    <3>1. /\ i - Len(s) \in 1..Len(t) /\ j - Len(s) \in 1..Len(t)
          /\ t[i - Len(s)] = t[j - Len(s)]
      BY <1>5, <1>8, <2>4
    <3>2. i - Len(s) = j - Len(s)
      BY <1>8, <3>1 DEF Distinct
    <3> QED BY <1>1, <3>2
  <2> QED BY <2>1, <2>2, <2>3, <2>4
<1> QED BY <1>6, <1>7, <1>8 DEF Distinct

\* and what the two hold that it is cut in.
LEMMA SplitElements ==
  ASSUME NEW S, NEW s \in Seq(S), NEW n \in 0..Len(s)
  PROVE  LET head == SubSeq(s, 1, n)
             rest == SubSeq(s, n + 1, Len(s)) IN
         /\ Elements(head) \cup Elements(rest) \subseteq Elements(s)
         /\ Distinct(s) => Distinct(rest) /\ Elements(head) \cap Elements(rest) = {}
<1> DEFINE head == SubSeq(s, 1, n)
           rest == SubSeq(s, n + 1, Len(s))
<1>1. /\ Len(head) = n /\ Len(rest) = Len(s) - n
      /\ \A j \in 1..n : head[j] = s[j]
      /\ \A j \in 1..(Len(s) - n) : rest[j] = s[n + j]
  BY SplitSeq
<1> HIDE DEF head, rest
<1>2. Len(s) \in Nat /\ n \in Nat /\ n <= Len(s)
  OBVIOUS
<1>3. /\ \A j \in 1..n : j \in 1..Len(s)
      /\ \A j \in 1..(Len(s) - n) : n + j \in 1..Len(s)
      /\ \A i \in 1..n : \A j \in 1..(Len(s) - n) : i # n + j
      /\ \A i, j \in 1..(Len(s) - n) : n + i = n + j => i = j
  BY <1>2
<1>4. Elements(head) \cup Elements(rest) \subseteq Elements(s)
  BY <1>1, <1>3 DEF Elements
<1>5. ASSUME Distinct(s) PROVE Distinct(rest) /\ Elements(head) \cap Elements(rest) = {}
  <2>1. \A i, j \in 1..(Len(s) - n) : rest[i] = rest[j] => i = j
    BY <1>1, <1>3, <1>5 DEF Distinct
  <2>2. \A i \in 1..n : \A j \in 1..(Len(s) - n) : head[i] # rest[j]
    BY <1>1, <1>3, <1>5 DEF Distinct
  <2> QED BY <1>1, <2>1, <2>2 DEF Distinct, Elements
<1> QED BY <1>4, <1>5 DEF head, rest

\* What is left of a sequence after n entries, if it has so many.
LEMMA RestOf ==
  ASSUME NEW S, NEW s \in Seq(S), NEW n \in Nat
  PROVE  /\ SubSeq(s, n + 1, Len(s)) \in Seq(S)
         /\ Elements(SubSeq(s, n + 1, Len(s))) \subseteq Elements(s)
<1>1. CASE n <= Len(s)
  <2>1. n \in 0..Len(s)
    BY <1>1
  <2>2. /\ SubSeq(s, n + 1, Len(s)) \in Seq(S)
        /\ Len(SubSeq(s, n + 1, Len(s))) = Len(s) - n
        /\ \A j \in 1..(Len(s) - n) : SubSeq(s, n + 1, Len(s))[j] = s[n + j]
    BY <2>1, SplitSeq
  <2>3. \A j \in 1..(Len(s) - n) : n + j \in 1..Len(s)
    BY <1>1
  <2> QED BY <2>2, <2>3 DEF Elements
<1>2. CASE ~(n <= Len(s))
  <2>1. SubSeq(s, n + 1, Len(s)) = <<>>
    BY <1>2, SubSeqEmpty
  <2> QED BY <2>1 DEF Elements
<1> QED BY <1>1, <1>2

\* What is written anywhere in a file of parts leaves one.
LEMMA OverwriteSeq ==
  ASSUME NEW S, NEW old \in Seq(S), NEW pos \in Nat, NEW new \in Seq(S)
  PROVE  Overwrite(old, pos, new) \in Seq(S)
<1> DEFINE before == IF pos <= Len(old) THEN SubSeq(old, 1, pos) ELSE old
           after == SubSeq(old, pos + Len(new) + 1, Len(old))
<1>1. before \in Seq(S)
  <2>1. CASE pos <= Len(old)
    <3>1. pos \in 0..Len(old)
      BY <2>1
    <3> QED BY <2>1, <3>1, SplitSeq
  <2>2. CASE ~(pos <= Len(old))
    BY <2>2
  <2> QED BY <2>1, <2>2
<1>2. after \in Seq(S)
  <2>1. pos + Len(new) \in Nat
    OBVIOUS
  <2> QED BY <2>1, RestOf
<1> HIDE DEF before, after
<1>3. before \o new \in Seq(S)
  BY <1>1, ConcatProperties
<1>4. before \o new \o after \in Seq(S)
  BY <1>2, <1>3, ConcatProperties
<1> QED BY <1>4 DEF Overwrite, before, after

\* What is written at the beginning mixes nothing else in, and an empty file takes just it.
LEMMA OverwriteIs ==
  ASSUME NEW S, NEW old \in Seq(S), NEW new \in Seq(S)
  PROVE  /\ Overwrite(old, 0, new) \in Seq(S)
         /\ Elements(Overwrite(old, 0, new)) \subseteq Elements(old) \cup Elements(new)
         /\ old = <<>> => Overwrite(old, 0, new) = new
<1> DEFINE rest == SubSeq(old, Len(new) + 1, Len(old))
<1>0. Len(old) \in Nat /\ Len(new) \in Nat
  OBVIOUS
<1>1. Overwrite(old, 0, new) = new \o rest
  <2>1. 0 <= Len(old) /\ 0 + Len(new) + 1 = Len(new) + 1
    BY <1>0
  <2>2. SubSeq(old, 1, 0) = <<>>
    BY SubSeqEmpty
  <2>3. <<>> \o new = new
    BY ConcatEmptySeq
  <2> QED BY <2>1, <2>2, <2>3 DEF Overwrite
<1>2. rest \in Seq(S) /\ Elements(rest) \subseteq Elements(old)
  BY <1>0, RestOf
<1>3. old = <<>> => rest = <<>>
  BY <1>0, SubSeqEmpty
<1> HIDE DEF rest
<1>4. new \o rest \in Seq(S)
  BY <1>2, ConcatProperties
<1>5. old = <<>> => new \o rest = new
  BY <1>3, ConcatEmptySeq
<1>6. Elements(new \o rest) \subseteq Elements(new) \cup Elements(old)
  BY <1>2, ConcatElements
<1> QED BY <1>1, <1>4, <1>5, <1>6

\* An entry of a sequence is of its kind.
LEMMA SeqEntry ==
  ASSUME NEW S, NEW s \in Seq(S), NEW i \in DOMAIN s
  PROVE  s[i] \in S
OBVIOUS

\* A set whose members are all the same has at most one.
LEMMA AtMostOne ==
  ASSUME NEW S, \A x, y \in S : x = y
  PROVE  Cardinality(S) <= 1
<1>1. CASE S = {}
  BY <1>1, FS_EmptySet
<1>2. CASE S # {}
  <2>1. PICK x \in S : TRUE
    BY <1>2
  <2>2. S = {x}
    BY <2>1
  <2> QED BY <2>2, FS_Singleton
<1> QED BY <1>1, <1>2

------------------------------------------------------------------------------
(* Types, and the steps at which a task has what. *)

\* The types of what TaskService declares.
ServiceOK ==
  /\ submitted \in 0..MaxTasks
  /\ queue \in Seq(Tasks)
  /\ running \in SUBSET Tasks
  /\ finished \in SUBSET Tasks

\* Where a task has a part of a request to answer.
Busy == {"create", "save", "open", "parse", "readback", "write"}

\* Where the queue and the steps of deal_fun tie other variables: the queue holds
\* the newest tasks, which have not begun, and a task has a connection, a name and
\* parts between the steps that give it these and those that take them away.
PhaseInv ==
  /\ Len(queue) <= submitted
  /\ \A j \in 1..Len(queue) : queue[j] = submitted - Len(queue) + j
  /\ \A k \in Tasks :
       /\ step[k] = "queued" <=> k > submitted - Len(queue)
       /\ k \in running <=> step[k] \notin {"queued", "returned"}
       /\ step[k] = "reading" => conn[k] \in Clients
       /\ step[k] \in Busy => name[k] \in Names
       /\ step[k] \notin Busy => buf[k] = <<>>
       /\ step[k] \notin {"parse", "readback", "write"} => parsed[k] = <<>>

TypeInv == TypeOK /\ ServiceOK /\ PhaseInv

\* A number does not name a connection and a file.
FilesInv == \A f \in Fds : IsFile(f) => fdTable[f] = None

\* f is a descriptor of file n that stands at pos.
Stands(f, n, mode, pos) ==
  f \in Fds /\ fileTable[f].file = n /\ fileTable[f].mode = mode /\ fileTable[f].pos = pos

\* The streams of a task are on its own files, and it has none between two uses of them.
Own(k) ==
  /\ step[k] = "save" => Stands(writer[k], name[k], "w", 0)
  /\ step[k] = "parse" => /\ Stands(reader[k], name[k], "r", Len(parsed[k]))
                          /\ Stands(writer[k], OutName[name[k]], "w", 0)
  /\ step[k] = "write" => Stands(reader[k], OutName[name[k]], "rw", Len(buf[k]))
  /\ step[k] \notin {"save", "parse"} => writer[k] = -1
  /\ step[k] \notin {"parse", "write"} => reader[k] = -1

\* The descriptors that the streams of a task remember.
Held(k) == {reader[k], writer[k]} \ {-1}

\* No two streams have one descriptor, and every open file is in a stream.
HeldInv ==
  /\ \A k \in Tasks : reader[k] = writer[k] => reader[k] = -1
  /\ \A k, l \in Tasks : k # l => Held(k) \cap Held(l) = {}
  /\ \A f \in Fds : IsFile(f) => \E k \in Tasks : f \in Held(k)

\* What a task has still to read of the text.
Unread(k) == SubSeq(files[name[k]], Len(parsed[k]) + 1, Len(files[name[k]]))

\* The streams are the tasks' own until one of them has gone astray.
StreamsInv == FilesInv /\ (~strayed => HeldInv /\ \A k \in Tasks : Own(k))

\* A file has a name, and so has its html.
LEMMA NamesIn ==
  /\ \A r \in AllParts : FileName[r] \in Names
  /\ \A n \in Names : n \in AllNames /\ OutName[n] \in AllNames
BY DEF Names, AllNames

\* A set of descriptors that is not empty has a least one.
LEMMA LeastIn ==
  ASSUME NEW S \in SUBSET Fds, S # {}
  PROVE  Least(S) \in S
<1> DEFINE R == {ss \in Nat \X Nat : ss[1] < ss[2]}
<1>1. IsWellFoundedOn(R, Nat)
  BY NatLessThanWellFounded DEF OpToRel
<1>2. S \in SUBSET Nat
  BY ServerAssumption
<1>3. PICK f \in S : \A g \in S : <<g, f>> \notin R
  <2> HIDE DEF R
  <2> QED BY <1>1, <1>2, WFMin
<1>4. \A g \in S : f <= g
  <2>1. \A g \in S : g < f => <<g, f>> \in R
    BY <1>2
  <2>2. f \in Nat /\ \A g \in S : g \in Nat /\ ~(g < f)
    <3> HIDE DEF R
    <3> QED BY <1>2, <1>3, <2>1
  <2> QED BY <2>2
<1> QED BY <1>4 DEF Least

\* So accept and open get numbers that are free, and two opens in turn get two.
LEMMA LowestIn ==
  /\ Free # {} => LowestFree \in Free /\ LowestFree \in Fds
  /\ Free \ {LowestFree} # {} =>
       LET f == LowestFree
           g == Least(Free \ {LowestFree}) IN
       f \in Free /\ f \in Fds /\ g \in Free /\ g \in Fds /\ f # g
<1>1. Free \in SUBSET Fds
  BY DEF Free
<1> HIDE DEF Free
<1>2. Free # {} => LowestFree \in Free
  BY <1>1, LeastIn DEF LowestFree
<1> DEFINE S == Free \ {LowestFree}
<1>3. S \in SUBSET Fds
  BY <1>1
<1>4. S # {} => Least(S) \in S
  <2> HIDE DEF S
  <2> QED BY <1>3, LeastIn
<1> HIDE DEF LowestFree
<1> QED BY <1>1, <1>2, <1>4

\* A file has an entry that says so.
LEMMA FileEntry ==
  ASSUME fileTable \in FileTables, NEW f, IsFile(f)
  PROVE  /\ f \in Fds /\ fileTable[f].file \in AllNames /\ fileTable[f].pos \in Nat
         /\ fileTable[f] \in [file : AllNames, mode : {"r", "w", "rw"}, pos : Nat]
BY DEF FileTables, IsFile, NoFile

\* Opening a file and moving in it keep the table's type.
LEMMA OpenedType ==
  ASSUME NEW n \in AllNames, NEW mode \in {"r", "w", "rw"}, NEW pos \in Nat
  PROVE  /\ Opened(n, mode) \in [file : AllNames, mode : {"r", "w", "rw"}, pos : Nat]
         /\ [Opened(n, mode) EXCEPT !.pos = pos] = [file |-> n, mode |-> mode, pos |-> pos]
BY DEF Opened

LEMMA MovedType ==
  ASSUME fileTable \in FileTables, NEW f, NEW pos \in Nat
  PROVE  /\ Moved(f, pos) \in FileTables
         /\ \A g \in Fds : g # f => Moved(f, pos)[g] = fileTable[g]
         /\ IsFile(f) => Moved(f, pos)[f] = [fileTable[f] EXCEPT !.pos = pos]
<1>1. CASE IsFile(f)
  <2> DEFINE r == [fileTable[f] EXCEPT !.pos = pos]
  <2>1. r \in [file : AllNames, mode : {"r", "w", "rw"}, pos : Nat] /\ r.mode = fileTable[f].mode
    BY <1>1, FileEntry
  <2> HIDE DEF r
  <2>2. Moved(f, pos) = [fileTable EXCEPT ![f] = r]
    BY <1>1 DEF Moved, r
  <2>3. f \in Fds
    BY <1>1 DEF IsFile
  <2> QED BY <2>1, <2>2, <2>3 DEF FileTables, r
<1>2. CASE ~IsFile(f)
  BY <1>2 DEF Moved
<1> QED BY <1>1, <1>2

LEMMA MovedModes ==
  ASSUME fileTable \in FileTables, NEW f, NEW pos, NEW g \in Fds
  PROVE  Moved(f, pos)[g].mode = fileTable[g].mode
<1>1. CASE IsFile(f)
  <2> DEFINE r == [fileTable[f] EXCEPT !.pos = pos]
  <2>1. r.mode = fileTable[f].mode
    BY <1>1, FileEntry
  <2> HIDE DEF r
  <2>2. Moved(f, pos) = [fileTable EXCEPT ![f] = r]
    BY <1>1 DEF Moved, r
  <2> QED BY <2>1, <2>2 DEF FileTables
<1>2. CASE ~IsFile(f)
  BY <1>2 DEF Moved
<1> QED BY <1>1, <1>2

\* So do a write and a close, whatever they reach.
LEMMA WriteType ==
  ASSUME TypeOK, NEW f, NEW reply \in [name : AllNames \cup {None}, of : Seq(AllParts)],
         WriteTo(f, reply)
  PROVE  /\ replies' \in [Clients -> Seq([name : AllNames \cup {None}, of : Seq(AllParts)])]
         /\ files' \in [AllNames -> Seq(AllParts)]
<1> USE DEF TypeOK
<1>1. replies' \in [Clients -> Seq([name : AllNames \cup {None}, of : Seq(AllParts)])]
  <2>1. CASE Valid(f)
    <3>1. fdTable[f] \in Clients
      BY <2>1 DEF Valid
    <3>2. Append(replies[fdTable[f]], reply)
            \in Seq([name : AllNames \cup {None}, of : Seq(AllParts)])
      BY <3>1, AppendProperties
    <3> QED BY <2>1, <3>1, <3>2 DEF WriteTo
  <2>2. CASE ~Valid(f)
    BY <2>2 DEF WriteTo
  <2> QED BY <2>1, <2>2
<1>2. files' \in [AllNames -> Seq(AllParts)]
  <2>1. CASE CanWrite(f)
    <3> DEFINE n == fileTable[f].file
               v == Overwrite(files[n], fileTable[f].pos, reply.of)
    <3>1. n \in AllNames /\ fileTable[f].pos \in Nat
      BY <2>1, FileEntry DEF CanWrite, IsFile, FileTables
    <3>2. v \in Seq(AllParts)
      BY <3>1, OverwriteSeq
    <3>3. files' = [files EXCEPT ![n] = v]
      BY <2>1 DEF WriteTo
    <3> HIDE DEF n, v
    <3> QED BY <3>1, <3>2, <3>3
  <2>2. CASE ~CanWrite(f)
    BY <2>2 DEF WriteTo
  <2> QED BY <2>1, <2>2
<1> QED BY <1>1, <1>2

LEMMA ShutType ==
  ASSUME TypeOK, NEW S, NEW table \in FileTables, Shut(S, table)
  PROVE  /\ link' \in [Clients -> {"none", "backlog", "open", "closed"}]
         /\ fdTable' \in [Fds -> Clients \cup {None}]
         /\ fileTable' \in FileTables
<1>1. fdTable' \in [Fds -> Clients \cup {None}]
  BY DEF Shut, TypeOK
<1>2. link' \in [Clients -> {"none", "backlog", "open", "closed"}]
  BY DEF Shut, TypeOK
<1>3. fileTable' \in FileTables
  BY DEF Shut, FileTables
<1> QED BY <1>1, <1>2, <1>3

\* What waits to be read is a sequence of parts.
LEMMA WaitingType ==
  ASSUME TypeOK, NEW f
  PROVE  Waiting(f) \in Seq(AllParts)
<1> USE DEF TypeOK
<1>1. CASE Valid(f)
  BY <1>1 DEF Waiting, Valid
<1>2. CASE ~Valid(f) /\ CanRead(f)
  <2> DEFINE t == Text(f)
             p == fileTable[f].pos
  <2>1. t \in Seq(AllParts) /\ p \in Nat
    BY <1>2, FileEntry DEF CanRead, IsFile, FileTables, Text
  <2>2. Waiting(f) = SubSeq(t, p + 1, Len(t))
    BY <1>2 DEF Waiting
  <2> HIDE DEF t, p
  <2> QED BY <2>1, <2>2, RestOf
<1>3. CASE ~Valid(f) /\ ~CanRead(f)
  BY <1>3 DEF Waiting
<1> QED BY <1>1, <1>2, <1>3

\* A family of sequences stays one if one of them is emptied.
LEMMA PutEmpty ==
  ASSUME NEW D, NEW S, NEW F \in [D -> Seq(S)], NEW d
  PROVE  [F EXCEPT ![d] = <<>>] \in [D -> Seq(S)]
<1>1. PICK e : e = <<>>
  OBVIOUS
<1>2. e \in Seq(S)
  BY <1>1
<1>3. [F EXCEPT ![d] = e] \in [D -> Seq(S)]
  BY <1>2
<1> QED BY <1>1, <1>3

\* They hold before the first client connects.
LEMMA TypeInit == Init => TypeInv
<1> SUFFICES ASSUME Init PROVE TypeInv
  OBVIOUS
<1> USE ServerAssumption DEF Init, ServiceInit
<1>0. fileTable \in FileTables
  BY DEF FileTables
<1>1. TypeOK
  <2>1. /\ conn \in [Tasks -> Clients \cup {None}] /\ name \in [Tasks -> Names \cup {None}]
        /\ buf \in [Tasks -> Seq(AllParts)] /\ parsed \in [Tasks -> Seq(AllParts)]
        /\ reader \in [Tasks -> Fds \cup {-1}] /\ writer \in [Tasks -> Fds \cup {-1}]
        /\ files \in [AllNames -> Seq(AllParts)]
    OBVIOUS
  <2>2. /\ inbox \in [Clients -> Seq(AllParts)] /\ fdTable \in [Fds -> Clients \cup {None}]
        /\ replies \in [Clients -> Seq([name : AllNames \cup {None}, of : Seq(AllParts)])]
    OBVIOUS
  <2>3. /\ link \in [Clients -> {"none", "backlog", "open", "closed"}]
        /\ sent \in [Clients -> 0..MaxRequests] /\ ended \in [Clients -> BOOLEAN]
        /\ strayed \in BOOLEAN /\ main = "epoll_wait" /\ events = {} /\ rfd = -1
        /\ step \in [Tasks -> {"queued", "read", "reading", "close", "clear", "create", "save",
                               "open", "parse", "readback", "write", "returned"}]
    <3>1. link \in [Clients -> {"none", "backlog", "open", "closed"}]
      OBVIOUS
    <3>2. sent \in [Clients -> 0..MaxRequests] /\ ended \in [Clients -> BOOLEAN]
      OBVIOUS
    <3>3. step \in [Tasks -> {"queued", "read", "reading", "close", "clear", "create", "save",
                             "open", "parse", "readback", "write", "returned"}]
      OBVIOUS
    <3>4. strayed \in BOOLEAN /\ main = "epoll_wait" /\ events = {} /\ rfd = -1
      OBVIOUS
    <3> HIDE DEF Init
    <3> QED BY <3>1, <3>2, <3>3, <3>4
  <2> HIDE DEF Init
  <2> QED BY <1>0, <2>1, <2>2, <2>3 DEF TypeOK
<1>2. ServiceOK
  BY DEF ServiceOK
<1>3. PhaseInv
  BY DEF PhaseInv, Busy, Tasks
<1> QED BY <1>1, <1>2, <1>3 DEF TypeInv

\* Every action keeps them.
LEMMA TypeNext == TypeInv /\ [Next]_vars => TypeInv'
<1> SUFFICES ASSUME TypeInv, [Next]_vars PROVE TypeInv'
  OBVIOUS
<1> USE ServerAssumption DEF TypeInv, TypeOK, ServiceOK, PhaseInv, Busy, Goto, Tasks, serviceVars,
     clientVars, fdVars, mainVars, localVars, taskVars
<1>1. ASSUME NEW c \in Clients, Connect(c) PROVE TypeInv'
  BY <1>1 DEF Connect
<1>2. ASSUME NEW c \in Clients, Send(c) PROVE TypeInv'
  <2>1. sent[c] + 1 \in 1..MaxRequests /\ sent' = [sent EXCEPT ![c] = sent[c] + 1]
    BY <1>2 DEF Send
  <2>2. sent' \in [Clients -> 0..MaxRequests] /\ sent'[c] = sent[c] + 1
    BY <2>1
  <2>3. inbox[c] \o Request(c, sent'[c]) \in Seq(AllParts)
    BY <2>1, <2>2, RequestIs, ConcatProperties
  <2>4. inbox' \in [Clients -> Seq(AllParts)]
    BY <1>2, <2>3 DEF Send
  <2> QED BY <1>2, <2>2, <2>4 DEF Send
<1>3. ASSUME NEW c \in Clients, Shutdown(c) PROVE TypeInv'
  BY <1>3 DEF Shutdown
<1>4. CASE EpollWait
  <2>1. Ready \subseteq Fds \cup {Listen}
    BY DEF Ready
  <2> QED BY <1>4, <2>1 DEF EpollWait
<1>5. CASE Accept
  <2>1. PICK c \in Clients : /\ link' = [link EXCEPT ![c] = "open"]
                            /\ fdTable' = [fdTable EXCEPT ![LowestFree] = c]
    BY <1>5 DEF Accept
  <2>2. link' \in [Clients -> {"none", "backlog", "open", "closed"}]
    BY <2>1
  <2>3. fdTable' \in [Fds -> Clients \cup {None}]
    BY <2>1
  <2>4. events' \subseteq Fds \cup {Listen}
    BY <1>5 DEF Accept
  <2>5. UNCHANGED <<serviceVars, sent, ended, inbox, replies, fileTable, strayed, main, rfd,
                    taskVars, files>>
    BY <1>5 DEF Accept
  <2> HIDE DEF FileTables
  <2> QED BY <2>2, <2>3, <2>4, <2>5
<1>6. CASE AcceptFails
  BY SMTT(30), ZenonT(40), <1>6 DEF AcceptFails
<1>7. CASE DataToRead
  BY <1>7 DEF DataToRead, SetSlot
<1>8. CASE AddTask
  <2>1. /\ submitted' = submitted + 1 /\ submitted' \in 1..MaxTasks /\ submitted \in Nat
        /\ queue' = Append(queue, submitted + 1) /\ UNCHANGED <<running, finished, taskVars>>
    BY <1>8 DEF AddTask, Submit
  <2>2. /\ queue' \in Seq(Tasks) /\ Len(queue') = Len(queue) + 1 /\ Len(queue) \in Nat
        /\ \A j \in 1..Len(queue) : queue'[j] = queue[j]
        /\ queue'[Len(queue) + 1] = submitted + 1
    BY <2>1, AppendProperties
  <2>3. Len(queue') <= submitted' /\ submitted' - Len(queue') = submitted - Len(queue)
    BY <2>1, <2>2
  <2>4. ASSUME NEW j \in 1..Len(queue')
        PROVE  queue'[j] = submitted' - Len(queue') + j
    <3>1. CASE j = Len(queue) + 1
      BY <3>1, <2>1, <2>2
    <3>2. CASE j # Len(queue) + 1
      <4>1. j \in 1..Len(queue)
        BY <3>2, <2>2
      <4> QED BY <4>1, <2>2, <2>3
    <3> QED BY <3>1, <3>2
  <2>5. PhaseInv'
    BY <2>1, <2>3, <2>4
  <2>6. TypeOK'
    BY <1>8 DEF AddTask, Submit
  <2>7. ServiceOK'
    BY <2>1, <2>2
  <2> QED BY <2>5, <2>6, <2>7
<1>9. CASE LastEvent
  BY <1>9 DEF LastEvent
<1>10. CASE RunTask
  <2> DEFINE h == Head(queue)
  <2>1. /\ queue # <<>> /\ queue' = Tail(queue) /\ running' = running \cup {h}
        /\ step' = [step EXCEPT ![h] = "read"]
        /\ UNCHANGED <<submitted, finished, conn, name, buf, parsed>>
    BY <1>10 DEF RunTask, Start
  <2>2. /\ h \in Tasks /\ h = queue[1] /\ queue' \in Seq(Tasks)
        /\ Len(queue) \in Nat /\ Len(queue) >= 1 /\ Len(queue') = Len(queue) - 1
        /\ \A j \in 1..Len(queue') : queue'[j] = queue[j + 1]
    BY <2>1, HeadTailProperties
  <2> HIDE DEF h
  <2>3. submitted \in Nat /\ h = submitted - Len(queue) + 1 /\ submitted' - Len(queue') = h
    BY <2>1, <2>2
  <2>4. ASSUME NEW j \in 1..Len(queue')
        PROVE  queue'[j] = submitted' - Len(queue') + j
    <3>1. j + 1 \in 1..Len(queue)
      BY <2>2
    <3> QED BY <2>1, <2>2, <2>3, <3>1
  <2>5. step[h] = "queued"
    BY <2>2, <2>3
  <2>6. \A k \in Tasks : step'[k] = IF k = h THEN "read" ELSE step[k]
    BY <2>1, <2>2
  <2>7. \A k \in Tasks : step'[k] = "queued" <=> k > submitted' - Len(queue')
    <3>1. submitted' - Len(queue') = h /\ submitted - Len(queue) = h - 1 /\ h \in Nat
      BY <2>1, <2>2, <2>3
    <3>2. \A m \in Nat : m # h => (m > h - 1 <=> m > h)
      BY <3>1
    <3>3. \A k \in Tasks : step[k] = "queued" <=> k > h - 1
      BY <3>1
    <3>4. \A k \in Tasks : k \in Nat
      OBVIOUS
    <3> HIDE DEF TypeInv, PhaseInv, TypeOK
    <3>5. ASSUME NEW k \in Tasks
          PROVE  step'[k] = "queued" <=> k > h
      <4>1. CASE k = h
        BY <2>6, <3>1, <4>1
      <4>2. CASE k # h
        BY <2>6, <3>2, <3>3, <3>4, <4>2
      <4> QED BY <4>1, <4>2
    <3> QED BY <3>1, <3>5
  <2>8. Len(queue') <= submitted'
    BY <2>1, <2>2, <2>3
  <2>9. PhaseInv'
    <3>1. ASSUME NEW k \in Tasks
          PROVE  /\ k \in running' <=> step'[k] \notin {"queued", "returned"}
                 /\ step'[k] = "reading" => conn[k] \in Clients
                 /\ step'[k] \in Busy => name[k] \in Names
                 /\ step'[k] \notin Busy => buf[k] = <<>>
                 /\ step'[k] \notin {"parse", "readback", "write"} => parsed[k] = <<>>
      BY <2>1, <2>5, <2>6
    <3> HIDE DEF Busy
    <3> QED BY <2>1, <2>4, <2>7, <2>8, <3>1
  <2>10. ServiceOK'
    BY <2>1, <2>2
  <2>11. TypeOK'
    <3>1. step' \in [Tasks -> {"queued", "read", "reading", "close", "clear", "create", "save",
                               "open", "parse", "readback", "write", "returned"}]
      BY <2>1, <2>2
    <3> QED BY <1>10, <3>1 DEF RunTask, Start
  <2> QED BY <2>9, <2>10, <2>11
<1>11. ASSUME NEW k \in Tasks, Read(k) PROVE TypeInv'
  <2>1. fdTable[rfd] \in Clients /\ conn' = [conn EXCEPT ![k] = fdTable[rfd]]
    BY <1>11 DEF Read, Valid
  <2>2. conn' \in [Tasks -> Clients \cup {None}] /\ conn'[k] \in Clients
    BY <2>1
  <2> QED BY SMTT(30), ZenonT(40), <1>11, <2>1, <2>2 DEF Read, At
<1>12. ASSUME NEW k \in Tasks, ReadFails(k) PROVE TypeInv'
  BY <1>12 DEF ReadFails, At
<1>13. ASSUME NEW k \in Tasks, ReadData(k) PROVE TypeInv'
  <2> DEFINE c == conn[k]
  <2>1. PICK n \in 1..Len(inbox[c]) :
          /\ buf' = [buf EXCEPT ![k] = SubSeq(inbox[c], 1, n)]
          /\ name' = [name EXCEPT ![k] = FileName[Head(inbox[c])]]
          /\ inbox' = [inbox EXCEPT ![c] = SubSeq(inbox[c], n + 1, Len(inbox[c]))]
    BY <1>13 DEF ReadData
  <2>2. c \in Clients /\ inbox[c] \in Seq(AllParts)
    BY <1>13 DEF ReadData, At
  <2>3. /\ SubSeq(inbox[c], 1, n) \in Seq(AllParts)
        /\ SubSeq(inbox[c], n + 1, Len(inbox[c])) \in Seq(AllParts)
    BY SMTT(30), ZenonT(40), <2>2, SplitSeq
  <2>4. Head(inbox[c]) \in AllParts
    BY <2>2
  <2>5. FileName[Head(inbox[c])] \in Names
    BY <2>4 DEF Names
  <2>6. /\ buf' \in [Tasks -> Seq(AllParts)] /\ inbox' \in [Clients -> Seq(AllParts)]
        /\ name' \in [Tasks -> Names \cup {None}] /\ name'[k] \in Names
        /\ \A l \in Tasks : l # k => buf'[l] = buf[l] /\ name'[l] = name[l]
    BY <2>1, <2>2, <2>3, <2>5
  <2> HIDE DEF c
  <2> QED BY SMTT(30), ZenonT(40), <1>13, <2>6 DEF ReadData, At
<1>14. ASSUME NEW k \in Tasks, ReadEnd(k) PROVE TypeInv'
  BY <1>14 DEF ReadEnd, At
<1>15. ASSUME NEW k \in Tasks, Close(k) PROVE TypeInv'
  <2>1. Shut({rfd}, fileTable) /\ fileTable \in FileTables
    BY <1>15 DEF Close, CloseFd, FileTables
  <2>2. /\ link' \in [Clients -> {"none", "backlog", "open", "closed"}]
        /\ fdTable' \in [Fds -> Clients \cup {None}] /\ fileTable' \in FileTables
    BY <2>1, ShutType
  <2>3. strayed' \in BOOLEAN
    BY <1>15 DEF Close, Strays
  <2> QED BY <1>15, <2>2, <2>3 DEF Close, At
<1>16. ASSUME NEW k \in Tasks, Clear(k) PROVE TypeInv'
  BY SMTT(30), ZenonT(40), <1>16 DEF Clear, At, ClearSlot, Return, Finish
<1>17. ASSUME NEW k \in Tasks, Create(k) PROVE TypeInv'
  <2>1. LowestFree \in Fds /\ name[k] \in AllNames
    BY <1>17, LowestIn, NamesIn DEF Create, At
  <2>2. Opened(name[k], "w") \in [file : AllNames, mode : {"r", "w", "rw"}, pos : Nat]
    BY <2>1, OpenedType
  <2>3. fileTable' \in FileTables
    BY <1>17, <2>1, <2>2 DEF Create, FileTables
  <2>4. files' \in [AllNames -> Seq(AllParts)]
    <3>1. files' = [files EXCEPT ![name[k]] = <<>>] /\ files \in [AllNames -> Seq(AllParts)]
      BY <1>17 DEF Create, Truncate
    <3> QED BY <3>1, PutEmpty
  <2>5. writer' \in [Tasks -> Fds \cup {-1}]
    BY <1>17, <2>1 DEF Create
  <2> QED BY <1>17, <2>3, <2>4, <2>5 DEF Create, At
<1>18. ASSUME NEW k \in Tasks, Save(k) PROVE TypeInv'
  <2>1. Bare(buf[k]) \in [name : AllNames \cup {None}, of : Seq(AllParts)]
    BY DEF Bare
  <2>2. /\ replies' \in [Clients -> Seq([name : AllNames \cup {None}, of : Seq(AllParts)])]
        /\ files' \in [AllNames -> Seq(AllParts)]
    BY <1>18, <2>1, WriteType DEF Save
  <2>3. /\ link' \in [Clients -> {"none", "backlog", "open", "closed"}]
        /\ fdTable' \in [Fds -> Clients \cup {None}] /\ fileTable' \in FileTables
    BY <1>18, ShutType DEF Save, FileTables
  <2>4. writer' \in [Tasks -> Fds \cup {-1}]
    BY <1>18 DEF Save
  <2> QED BY <1>18, <2>2, <2>3, <2>4 DEF Save, At
<1>19. ASSUME NEW k \in Tasks, Open(k) PROVE TypeInv'
  <2> DEFINE f == LowestFree
             g == Least(Free \ {LowestFree})
             n == OutName[name[k]]
  <2>1. f \in Fds /\ g \in Fds
    BY <1>19, LowestIn DEF Open
  <2>2. name[k] \in AllNames /\ n \in AllNames
    BY <1>19, NamesIn DEF Open, At
  <2>3. /\ Opened(name[k], "r") \in [file : AllNames, mode : {"r", "w", "rw"}, pos : Nat]
        /\ Opened(n, "w") \in [file : AllNames, mode : {"r", "w", "rw"}, pos : Nat]
    BY <2>2, OpenedType
  <2>4. /\ fileTable' = [fileTable EXCEPT ![f] = Opened(name[k], "r"), ![g] = Opened(n, "w")]
        /\ reader' = [reader EXCEPT ![k] = f] /\ writer' = [writer EXCEPT ![k] = g]
        /\ files' = [files EXCEPT ![n] = <<>>]
    BY <1>19 DEF Open, Truncate, OutFile
  <2> HIDE DEF f, g, n
  <2>5. fileTable' \in FileTables
    BY <2>1, <2>3, <2>4 DEF FileTables
  <2>6. reader' \in [Tasks -> Fds \cup {-1}] /\ writer' \in [Tasks -> Fds \cup {-1}]
    BY <2>1, <2>4
  <2>7. files' \in [AllNames -> Seq(AllParts)]
    <3>1. files' = [files EXCEPT ![n] = <<>>] /\ files \in [AllNames -> Seq(AllParts)]
      BY <2>4
    <3> QED BY <3>1, PutEmpty
  <2> QED BY <1>19, <2>5, <2>6, <2>7 DEF Open, At
<1>20. ASSUME NEW k \in Tasks, GetLines(k) PROVE TypeInv'
  <2> DEFINE f == reader[k]
             w == Waiting(f)
  <2>1. parsed[k] \o w \in Seq(AllParts)
    BY WaitingType, ConcatProperties
  <2>2. parsed' \in [Tasks -> Seq(AllParts)] /\ \A l \in Tasks : l # k => parsed'[l] = parsed[l]
    BY <1>20, <2>1 DEF GetLines
  <2>3. inbox' \in [Clients -> Seq(AllParts)] /\ fileTable' \in FileTables
    <3>1. CASE Valid(f)
      <4>1. inbox' = [inbox EXCEPT ![fdTable[f]] = <<>>] /\ fileTable' = fileTable
        BY <1>20, <3>1 DEF GetLines
      <4>2. inbox \in [Clients -> Seq(AllParts)] /\ fileTable \in FileTables
        OBVIOUS
      <4>3. inbox' \in [Clients -> Seq(AllParts)]
        BY <4>1, <4>2, PutEmpty
      <4> QED BY <4>1, <4>2, <4>3
    <3>2. CASE ~Valid(f)
      <4>1. CanRead(f)
        BY <1>20, <3>2 DEF GetLines, Waiting
      <4>2. Text(f) \in Seq(AllParts)
        BY <4>1, FileEntry DEF CanRead, IsFile, FileTables, Text
      <4>3. Len(Text(f)) \in Nat
        BY <4>2
      <4>4. Moved(f, Len(Text(f))) \in FileTables
        BY <4>3, MovedType DEF FileTables
      <4> QED BY <1>20, <3>2, <4>4 DEF GetLines
    <3> QED BY <3>1, <3>2
  <2> QED BY <1>20, <2>2, <2>3 DEF GetLines, At
<1>21. ASSUME NEW k \in Tasks, CloseStreams(k) PROVE TypeInv'
  <2>1. Bare(parsed[k]) \in [name : AllNames \cup {None}, of : Seq(AllParts)]
    BY DEF Bare
  <2>2. /\ replies' \in [Clients -> Seq([name : AllNames \cup {None}, of : Seq(AllParts)])]
        /\ files' \in [AllNames -> Seq(AllParts)]
    BY <1>21, <2>1, WriteType DEF CloseStreams
  <2>3. /\ link' \in [Clients -> {"none", "backlog", "open", "closed"}]
        /\ fdTable' \in [Fds -> Clients \cup {None}] /\ fileTable' \in FileTables
    BY <1>21, ShutType DEF CloseStreams, FileTables
  <2>4. reader' \in [Tasks -> Fds \cup {-1}] /\ writer' \in [Tasks -> Fds \cup {-1}]
    BY <1>21 DEF CloseStreams
  <2>5. /\ k \in running /\ step[k] = "parse" /\ step' = [step EXCEPT ![k] = "readback"]
        /\ UNCHANGED <<serviceVars, sent, ended, inbox, strayed, main, events, rfd, conn, name,
                       buf, parsed>>
    BY <1>21 DEF CloseStreams, At
  <2>6. TypeOK'
    BY <2>2, <2>3, <2>4, <2>5
  <2>7. PhaseInv'
    BY <2>5
  <2> QED BY <2>5, <2>6, <2>7
<1>22. ASSUME NEW k \in Tasks, ReadBack(k) PROVE TypeInv'
  <2> DEFINE n == OutName[name[k]]
             f == LowestFree
  <2>1. n \in AllNames /\ f \in Fds
    BY <1>22, NamesIn, LowestIn DEF ReadBack, At
  <2>2. files[n] \in Seq(AllParts) /\ Len(files[n]) \in Nat
    BY <2>1
  <2>3. [Opened(n, "rw") EXCEPT !.pos = Len(files[n])]
          = [file |-> n, mode |-> "rw", pos |-> Len(files[n])]
    BY <2>1, <2>2, OpenedType
  <2>4. /\ buf' = [buf EXCEPT ![k] = files[n]]
        /\ fileTable' = [fileTable EXCEPT ![f] = [Opened(n, "rw") EXCEPT !.pos = Len(files[n])]]
        /\ reader' = [reader EXCEPT ![k] = f]
    BY <1>22 DEF ReadBack, OutFile
  <2> HIDE DEF n, f
  <2>5. buf' \in [Tasks -> Seq(AllParts)] /\ \A l \in Tasks : l # k => buf'[l] = buf[l]
    BY <2>2, <2>4
  <2>6. fileTable' \in FileTables
    BY <2>1, <2>2, <2>3, <2>4 DEF FileTables
  <2>7. reader' \in [Tasks -> Fds \cup {-1}]
    BY <2>1, <2>4
  <2> QED BY <1>22, <2>5, <2>6, <2>7 DEF ReadBack, At
<1>23. ASSUME NEW k \in Tasks, Write(k) PROVE TypeInv'
  <2>1. OutName[name[k]] \in AllNames
    BY <1>23, NamesIn DEF Write, At
  <2>2. Reply(k) \in [name : AllNames \cup {None}, of : Seq(AllParts)]
    BY <2>1 DEF Reply, OutFile
  <2>3. /\ replies' \in [Clients -> Seq([name : AllNames \cup {None}, of : Seq(AllParts)])]
        /\ files' \in [AllNames -> Seq(AllParts)]
    BY <1>23, <2>2, WriteType DEF Write
  <2>s. /\ link' \in [Clients -> {"none", "backlog", "open", "closed"}]
        /\ fdTable' \in [Fds -> Clients \cup {None}] /\ fileTable' \in FileTables
    <3> DEFINE table == IF CanWrite(rfd) THEN Moved(rfd, fileTable[rfd].pos + Len(buf[k]))
                                         ELSE fileTable
    <3>1. fileTable \in FileTables
      BY DEF FileTables
    <3>2. CanWrite(rfd) => fileTable[rfd].pos + Len(buf[k]) \in Nat
      <4>1. CanWrite(rfd) => IsFile(rfd)
        BY DEF CanWrite, IsFile
      <4>2. CanWrite(rfd) => fileTable[rfd].pos \in Nat
        BY <3>1, <4>1, FileEntry
      <4>3. Len(buf[k]) \in Nat
        OBVIOUS
      <4> QED BY <4>2, <4>3
    <3>3. table \in FileTables
      BY <3>1, <3>2, MovedType
    <3>4. Shut({reader[k]}, table)
      BY <1>23 DEF Write
    <3> HIDE DEF table
    <3> QED BY <3>3, <3>4, ShutType
  <2>4. /\ k \in running /\ running' = running \ {k} /\ finished' = finished \cup {k}
        /\ step' = [step EXCEPT ![k] = "returned"] /\ conn' = [conn EXCEPT ![k] = None]
        /\ name' = [name EXCEPT ![k] = None] /\ buf' = [buf EXCEPT ![k] = <<>>]
        /\ parsed' = [parsed EXCEPT ![k] = <<>>] /\ UNCHANGED <<submitted, queue>>
        /\ reader' = [reader EXCEPT ![k] = -1] /\ writer' = [writer EXCEPT ![k] = -1]
    BY <1>23 DEF Write, At, Return, Finish
  <2>5. ServiceOK'
    BY <2>4
  <2>6. PhaseInv'
    BY <2>4
  <2>7. TypeOK'
    <3>1. step' \in [Tasks -> {"queued", "read", "reading", "close", "clear", "create", "save",
                               "open", "parse", "readback", "write", "returned"}]
      BY <2>4
    <3>2. conn' \in [Tasks -> Clients \cup {None}] /\ name' \in [Tasks -> Names \cup {None}]
      BY <2>4
    <3>3. buf' \in [Tasks -> Seq(AllParts)] /\ parsed' \in [Tasks -> Seq(AllParts)]
      BY <2>4
    <3>4. reader' \in [Tasks -> Fds \cup {-1}] /\ writer' \in [Tasks -> Fds \cup {-1}]
      BY <2>4
    <3>5. UNCHANGED <<sent, ended, inbox, main, events, rfd>> /\ strayed' \in BOOLEAN
      BY <1>23 DEF Write, Strays
    <3> QED BY <2>3, <2>s, <3>1, <3>2, <3>3, <3>4, <3>5 DEF FileTables
  <2> QED BY <2>5, <2>6, <2>7
<1>25. ASSUME NEW k \in Tasks, ReadFile(k) PROVE TypeInv'
  <2>1. buf' = [buf EXCEPT ![k] = Waiting(rfd)] /\ Waiting(rfd) \in Seq(AllParts)
    BY <1>25, WaitingType DEF ReadFile
  <2>2. buf' \in [Tasks -> Seq(AllParts)] /\ \A l \in Tasks : l # k => buf'[l] = buf[l]
    BY <2>1
  <2>3. PICK n \in Names : name' = [name EXCEPT ![k] = n]
    BY <1>25 DEF ReadFile
  <2>4. /\ name' \in [Tasks -> Names \cup {None}] /\ name'[k] \in Names
        /\ \A l \in Tasks : l # k => name'[l] = name[l]
    BY <2>3
  <2>5. fileTable' \in FileTables
    <3>1. Text(rfd) \in Seq(AllParts)
      BY <1>25, FileEntry DEF ReadFile, ReadsFile, CanRead, IsFile, FileTables, Text
    <3>2. Len(Text(rfd)) \in Nat
      BY <3>1
    <3> QED BY <1>25, <3>2, MovedType DEF ReadFile, FileTables
  <2>6. strayed' \in BOOLEAN
    BY <1>25 DEF ReadFile, Strays
  <2> QED BY SMTT(30), ZenonT(40), <1>25, <2>2, <2>4, <2>5, <2>6
          DEF ReadFile, ReadsFile, At
<1>24. CASE UNCHANGED vars
  BY <1>24 DEF vars
<1> QED
  BY <1>1, <1>2, <1>3, <1>4, <1>5, <1>6, <1>7, <1>8, <1>9, <1>10, <1>11, <1>12, <1>13, <1>14,
     <1>15, <1>16, <1>17, <1>18, <1>19, <1>20, <1>21, <1>22, <1>23, <1>24, <1>25
     DEF Next, Main, deal_fun

\* The server's variables keep their types, and tasks what their steps give them.
THEOREM ServerTypeCorrect == Spec => []TypeInv
<1>1. Init => TypeInv
  BY TypeInit
<1>2. TypeInv /\ [Next]_vars => TypeInv'
  BY TypeNext
<1> QED BY <1>1, <1>2, PTL DEF Spec

------------------------------------------------------------------------------
(* Connections, files and streams share descriptors: what holds of them.     *)

\* What a number that is closed named no longer has one; if it was a file, no connection ends.
LEMMA ShutFiles ==
  ASSUME TypeInv, FilesInv, NEW S, NEW table, Shut(S, table),
         \A f \in S : f \in Fds => IsFile(f)
  PROVE  UNCHANGED <<link, fdTable>>
<1> USE DEF TypeInv, TypeOK
<1>1. \A f \in S : ~Valid(f)
  BY DEF FilesInv, Valid
<1>2. link' = link
  BY <1>1 DEF Shut
<1>3. fdTable' = fdTable
  BY <1>1 DEF Shut, Valid
<1> QED BY <1>2, <1>3

\* A number that stands somewhere in a file is one that can be used so, and no connection.
LEMMA StandsIs ==
  ASSUME FilesInv, NEW f, NEW n, NEW mode \in {"r", "w", "rw"}, NEW pos, Stands(f, n, mode, pos)
  PROVE  /\ f \in Fds /\ IsFile(f) /\ ~Valid(f)
         /\ CanRead(f) <=> mode # "w"
         /\ CanWrite(f) <=> mode # "r"
         /\ Text(f) = files[n] /\ fileTable[f].file = n /\ fileTable[f].pos = pos
BY DEF Stands, IsFile, FilesInv, Valid, CanRead, CanWrite, Text

\* What a stream remembers is the number of a file.
LEMMA HeldFiles ==
  ASSUME FilesInv, NEW k \in Tasks, Own(k)
  PROVE  \A f \in Held(k) : f \in Fds /\ IsFile(f)
<1>1. ASSUME reader[k] # -1 PROVE IsFile(reader[k])
  BY <1>1 DEF Own, Stands, IsFile
<1>2. ASSUME writer[k] # -1 PROVE IsFile(writer[k])
  BY <1>2 DEF Own, Stands, IsFile
<1> QED BY <1>1, <1>2 DEF Held, IsFile

\* The text that a task saves goes into its file, from the beginning on.
LEMMA SaveIs ==
  ASSUME TypeInv, FilesInv, NEW k \in Tasks, Own(k), Save(k)
  PROVE  /\ UNCHANGED <<link, fdTable, replies>>
         /\ files' = [files EXCEPT ![name[k]] = Overwrite(files[name[k]], 0, buf[k])]
<1>1. Stands(writer[k], name[k], "w", 0)
  BY DEF Save, At, Own
<1>2. /\ IsFile(writer[k]) /\ ~Valid(writer[k]) /\ CanWrite(writer[k])
      /\ fileTable[writer[k]].file = name[k] /\ fileTable[writer[k]].pos = 0
  BY <1>1, StandsIs
<1>3. WriteTo(writer[k], Bare(buf[k])) /\ Shut({writer[k]}, fileTable)
  BY DEF Save
<1>4. UNCHANGED <<link, fdTable>>
  BY <1>2, <1>3, ShutFiles
<1>5. Bare(buf[k]).of = buf[k]
  BY DEF Bare
<1>6. replies' = replies
  BY <1>2, <1>3 DEF WriteTo
<1>7. files' = [files EXCEPT ![name[k]] = Overwrite(files[name[k]], 0, buf[k])]
  BY <1>2, <1>3, <1>5 DEF WriteTo
<1> QED BY <1>4, <1>6, <1>7

\* The parser reads the text of its file from where it was,
LEMMA GetLinesIs ==
  ASSUME TypeInv, FilesInv, NEW k \in Tasks, Own(k), GetLines(k)
  PROVE  /\ Waiting(reader[k]) = Unread(k) /\ Unread(k) # <<>> /\ inbox' = inbox
         /\ parsed' = [parsed EXCEPT ![k] = parsed[k] \o Unread(k)]
         /\ fileTable' = Moved(reader[k], Len(files[name[k]]))
<1>1. Stands(reader[k], name[k], "r", Len(parsed[k]))
  BY DEF GetLines, At, Own
<1>2. /\ IsFile(reader[k]) /\ ~Valid(reader[k]) /\ CanRead(reader[k])
      /\ Text(reader[k]) = files[name[k]] /\ fileTable[reader[k]].pos = Len(parsed[k])
  BY <1>1, StandsIs
<1>3. Waiting(reader[k]) = Unread(k)
  BY <1>2 DEF Waiting, Unread
<1>4. parsed' = [parsed EXCEPT ![k] = parsed[k] \o Unread(k)]
  BY <1>3 DEF GetLines
<1>5. inbox' = inbox /\ fileTable' = Moved(reader[k], Len(files[name[k]]))
  BY <1>2 DEF GetLines
<1>6. Unread(k) # <<>>
  BY <1>3 DEF GetLines
<1> QED BY <1>3, <1>4, <1>5, <1>6

\* and when it has read all, the html goes into the other.
LEMMA CloseStreamsIs ==
  ASSUME TypeInv, FilesInv, NEW k \in Tasks, Own(k), CloseStreams(k)
  PROVE  /\ Unread(k) = <<>>
         /\ UNCHANGED <<link, fdTable, replies>>
         /\ files' = [files EXCEPT ![OutName[name[k]]] =
                        Overwrite(files[OutName[name[k]]], 0, parsed[k])]
<1>1. Stands(reader[k], name[k], "r", Len(parsed[k])) /\ Stands(writer[k], OutName[name[k]], "w", 0)
  BY DEF CloseStreams, At, Own
<1>2. /\ IsFile(reader[k]) /\ ~Valid(reader[k]) /\ CanRead(reader[k])
      /\ Text(reader[k]) = files[name[k]] /\ fileTable[reader[k]].pos = Len(parsed[k])
  BY <1>1, StandsIs
<1>3. /\ IsFile(writer[k]) /\ ~Valid(writer[k]) /\ CanWrite(writer[k])
      /\ fileTable[writer[k]].file = OutName[name[k]] /\ fileTable[writer[k]].pos = 0
  BY <1>1, StandsIs
<1>4. Waiting(reader[k]) = Unread(k)
  BY <1>2 DEF Waiting, Unread
<1>5. /\ WriteTo(writer[k], Bare(parsed[k])) /\ Shut({reader[k], writer[k]}, fileTable)
      /\ Waiting(reader[k]) = <<>>
  BY DEF CloseStreams
<1>6. UNCHANGED <<link, fdTable>>
  BY <1>2, <1>3, <1>5, ShutFiles
<1>7. Bare(parsed[k]).of = parsed[k]
  BY DEF Bare
<1>8. replies' = replies
  BY <1>3, <1>5 DEF WriteTo
<1>9. files' = [files EXCEPT ![OutName[name[k]]] =
                  Overwrite(files[OutName[name[k]]], 0, parsed[k])]
  BY <1>3, <1>5, <1>7 DEF WriteTo
<1> QED BY <1>4, <1>5, <1>6, <1>8, <1>9

\* A task that does not go astray writes its reply to a connection or to nothing,
LEMMA WriteIs ==
  ASSUME TypeInv, FilesInv, NEW k \in Tasks, Own(k), Write(k), ~strayed'
  PROVE  /\ UNCHANGED <<link, fdTable, files>>
         /\ replies' = IF Valid(rfd)
                         THEN [replies EXCEPT ![fdTable[rfd]] =
                                 Append(replies[fdTable[rfd]], Reply(k))]
                         ELSE replies
         /\ Shut({reader[k]}, fileTable)
<1>1. Stands(reader[k], OutName[name[k]], "rw", Len(buf[k]))
  BY DEF Write, At, Own
<1>2. IsFile(reader[k]) /\ ~Valid(reader[k])
  BY <1>1, StandsIs
<1>3. ~CanWrite(rfd) /\ WriteTo(rfd, Reply(k))
  BY DEF Write, Strays
<1>4. Shut({reader[k]}, fileTable)
  BY <1>3 DEF Write
<1>5. UNCHANGED <<link, fdTable>>
  BY <1>2, <1>4, ShutFiles
<1> QED BY <1>3, <1>4, <1>5 DEF WriteTo

\* and closes a connection or nothing.
LEMMA CloseIs ==
  ASSUME TypeInv, FilesInv, NEW k \in Tasks, Close(k), ~strayed'
  PROVE  /\ UNCHANGED fileTable
         /\ link' = IF Valid(rfd) THEN [link EXCEPT ![fdTable[rfd]] = "closed"] ELSE link
         /\ fdTable' = IF Valid(rfd) THEN [fdTable EXCEPT ![rfd] = None] ELSE fdTable
<1>1. ~IsFile(rfd) /\ Shut({rfd}, fileTable)
  BY DEF Close, CloseFd, Strays
<1>2. fileTable \in FileTables /\ fdTable \in [Fds -> Clients \cup {None}]
  BY DEF TypeInv, TypeOK
<1>3. rfd \in Fds => fileTable[rfd] = NoFile
  BY <1>1, <1>2 DEF FileTables, IsFile
<1>4. fileTable' = fileTable
  BY <1>1, <1>2, <1>3 DEF Shut, FileTables
<1>5. link \in [Clients -> {"none", "backlog", "open", "closed"}]
  BY DEF TypeInv, TypeOK
<1>6. link' = IF Valid(rfd) THEN [link EXCEPT ![fdTable[rfd]] = "closed"] ELSE link
  BY <1>1, <1>2, <1>5 DEF Shut, Valid
<1>7. fdTable' = IF Valid(rfd) THEN [fdTable EXCEPT ![rfd] = None] ELSE fdTable
  BY <1>1, <1>2 DEF Shut, Valid
<1> QED BY <1>4, <1>6, <1>7

\* What the streams hold until a task has gone astray.
StreamsFacts == HeldInv /\ \A k \in Tasks : Own(k)

\* Steps that open, move and close nothing leave the streams as they are, whoever they serve.
LEMMA StreamsSame ==
  ASSUME StreamsFacts, UNCHANGED <<fileTable, reader, writer>>,
         \A k \in Tasks :
           \/ step'[k] = step[k] /\ name'[k] = name[k] /\ buf'[k] = buf[k] /\ parsed'[k] = parsed[k]
           \/ {step[k], step'[k]} \cap {"save", "parse", "write"} = {}
  PROVE  StreamsFacts'
<1>1. \A k \in Tasks : Held(k)' = Held(k)
  BY DEF Held
<1>2. \A f \in Fds : IsFile(f)' <=> IsFile(f)
  BY DEF IsFile
<1>3. HeldInv'
  BY <1>1, <1>2 DEF StreamsFacts, HeldInv
<1>4. ASSUME NEW k \in Tasks PROVE Own(k)'
  <2>1. Own(k)
    BY DEF StreamsFacts
  <2>2. CASE /\ step'[k] = step[k] /\ name'[k] = name[k]
             /\ buf'[k] = buf[k] /\ parsed'[k] = parsed[k]
    BY <2>1, <2>2 DEF Own, Stands
  <2>3. CASE {step[k], step'[k]} \cap {"save", "parse", "write"} = {}
    BY <2>1, <2>3 DEF Own
  <2> QED BY <2>2, <2>3
<1> QED BY <1>3, <1>4 DEF StreamsFacts

\* A task that opens free numbers, moves in its own files and closes them leaves those of
\* the others alone.
LEMMA StreamsStep ==
  ASSUME FilesInv, StreamsFacts, NEW k \in Tasks,
         \A l \in Tasks : l # k => /\ step'[l] = step[l] /\ name'[l] = name[l]
                                   /\ buf'[l] = buf[l] /\ parsed'[l] = parsed[l]
                                   /\ reader'[l] = reader[l] /\ writer'[l] = writer[l],
         \A f \in Fds : f \notin Held(k) /\ f \notin Held(k)' => fileTable'[f] = fileTable[f],
         \A f \in Held(k)' : f \in Held(k) \/ f \in Free,
         \A f \in Held(k) : f \notin Held(k)' => ~IsFile(f)',
         reader'[k] = writer'[k] => reader'[k] = -1,
         Own(k)'
  PROVE  StreamsFacts'
<1>1. \A l \in Tasks : \A f \in Held(l) : f \in Fds /\ IsFile(f)
  BY HeldFiles DEF StreamsFacts
<1>2. \A l \in Tasks : l # k => Held(l)' = Held(l)
  BY DEF Held
<1>3. \A l \in Tasks : l # k => Held(k) \cap Held(l) = {}
  BY DEF StreamsFacts, HeldInv
<1>4. \A l \in Tasks : l # k => Held(k)' \cap Held(l) = {}
  BY <1>1, <1>3 DEF Free
<1>5. \A l \in Tasks : l # k => \A f \in Held(l) : fileTable'[f] = fileTable[f]
  BY <1>1, <1>3, <1>4
<1>6. ASSUME NEW l \in Tasks, l # k PROVE Own(l)'
  <2>1. /\ step'[l] = step[l] /\ name'[l] = name[l] /\ buf'[l] = buf[l] /\ parsed'[l] = parsed[l]
        /\ reader'[l] = reader[l] /\ writer'[l] = writer[l]
    BY <1>6
  <2>2. Own(l)
    BY DEF StreamsFacts
  <2>3. \A n, mode, pos :
          Stands(reader[l], n, mode, pos) /\ reader[l] # -1 => Stands(reader[l], n, mode, pos)'
    <3>1. reader[l] # -1 => reader[l] \in Held(l)
      BY DEF Held
    <3> QED BY <1>5, <1>6, <2>1, <3>1 DEF Stands
  <2>4. \A n, mode, pos :
          Stands(writer[l], n, mode, pos) /\ writer[l] # -1 => Stands(writer[l], n, mode, pos)'
    <3>1. writer[l] # -1 => writer[l] \in Held(l)
      BY DEF Held
    <3> QED BY <1>5, <1>6, <2>1, <3>1 DEF Stands
  <2>5. \A f \in Fds : f # -1
    BY ServerAssumption
  <2> QED BY <1>5, <1>6, <2>1, <2>2, <2>5 DEF Own, Stands, Held
<1>7. ASSUME NEW l \in Tasks, NEW m \in Tasks, l # m PROVE (Held(l) \cap Held(m))' = {}
  <2>1. CASE l # k /\ m # k
    BY <1>2, <1>7, <2>1 DEF StreamsFacts, HeldInv
  <2>2. CASE l = k
    BY <1>2, <1>4, <1>7, <2>2
  <2>3. CASE m = k
    BY <1>2, <1>4, <1>7, <2>3
  <2> QED BY <2>1, <2>2, <2>3
<1>8. ASSUME NEW f \in Fds, IsFile(f)' PROVE \E l \in Tasks : f \in Held(l)'
  <2>1. CASE f \in Held(k)'
    BY <2>1
  <2>2. CASE f \notin Held(k)'
    <3>1. f \notin Held(k)
      BY <1>8, <2>2
    <3>2. IsFile(f)
      BY <1>8, <2>2, <3>1 DEF IsFile
    <3>3. PICK l \in Tasks : f \in Held(l)
      BY <3>2 DEF StreamsFacts, HeldInv
    <3>4. l # k
      BY <3>1, <3>3
    <3> QED BY <1>2, <3>3, <3>4
  <2> QED BY <2>1, <2>2
<1>9. \A l \in Tasks : (reader[l] = writer[l] => reader[l] = -1)'
  BY DEF StreamsFacts, HeldInv
<1>10. HeldInv'
  BY <1>7, <1>8, <1>9 DEF HeldInv
<1> QED BY <1>6, <1>10 DEF StreamsFacts

\* Every action keeps FilesInv: only free numbers are given out.
LEMMA FilesNext == TypeInv /\ FilesInv /\ [Next]_vars => FilesInv'
<1> SUFFICES ASSUME TypeInv, FilesInv, [Next]_vars, NEW f \in Fds, IsFile(f)'
             PROVE  fdTable'[f] = None
  BY DEF FilesInv
<1>0. /\ IsFile(f) => fdTable[f] = None
      /\ fdTable \in [Fds -> Clients \cup {None}] /\ fileTable \in FileTables
  BY DEF FilesInv, TypeInv, TypeOK
<1> DEFINE same == UNCHANGED <<fdTable, fileTable>>
<1>s. ASSUME same PROVE fdTable'[f] = None
  BY <1>0, <1>s DEF IsFile
<1>t. ASSUME NEW S, NEW table, Shut(S, table), \A g \in Fds : table[g].mode = fileTable[g].mode
      PROVE  fdTable'[f] = None
  <2>1. fdTable'[f] = IF f \in S THEN None ELSE fdTable[f]
    BY <1>t DEF Shut
  <2>2. fileTable'[f] = IF f \in S THEN NoFile ELSE table[f]
    BY <1>t DEF Shut
  <2>3. f \notin S => IsFile(f)
    BY <1>t, <2>2 DEF IsFile
  <2> QED BY <1>0, <2>1, <2>3
<1>q. ASSUME [Next]_vars, ~same
      PROVE  \/ Accept
             \/ \E k \in Tasks : \/ ReadFile(k) \/ Close(k) \/ Create(k) \/ Save(k) \/ Open(k)
                                 \/ GetLines(k) \/ CloseStreams(k) \/ ReadBack(k) \/ Write(k)
  <2> USE <1>q
  <2>1. ~UNCHANGED vars
    BY DEF vars, fdVars
  <2>2. ASSUME NEW c \in Clients PROVE ~Connect(c) /\ ~Send(c) /\ ~Shutdown(c)
    BY DEF Connect, Send, Shutdown, fdVars
  <2>3. ~EpollWait /\ ~AcceptFails /\ ~DataToRead /\ ~AddTask /\ ~LastEvent /\ ~RunTask
    BY DEF EpollWait, AcceptFails, DataToRead, AddTask, LastEvent, RunTask, fdVars
  <2>4. ASSUME NEW k \in Tasks
        PROVE  ~Read(k) /\ ~ReadFails(k) /\ ~ReadData(k) /\ ~ReadEnd(k) /\ ~Clear(k)
    BY DEF Read, ReadFails, ReadData, ReadEnd, Clear, fdVars
  <2> HIDE DEF same
  <2> QED BY <2>1, <2>2, <2>3, <2>4 DEF Next, Main, deal_fun
<1> HIDE DEF same
<1>1. CASE Accept
  <2>1. Free # {} /\ fileTable' = fileTable /\ \E c : fdTable' = [fdTable EXCEPT ![LowestFree] = c]
    BY <1>1 DEF Accept
  <2>2. LowestFree \in Free
    BY <2>1, LowestIn
  <2>3. IsFile(f) /\ f # LowestFree
    BY <2>1, <2>2 DEF IsFile, Free
  <2> QED BY <1>0, <2>1, <2>3
<1>2. ASSUME NEW k \in Tasks, ReadFile(k) PROVE fdTable'[f] = None
  <2>1. CanRead(rfd) /\ fileTable' = Moved(rfd, Len(Text(rfd))) /\ fdTable' = fdTable
    BY <1>2 DEF ReadFile, ReadsFile
  <2>2. fileTable'[f].mode = fileTable[f].mode
    BY <1>0, <2>1, MovedModes
  <2> QED BY <1>0, <2>1, <2>2 DEF IsFile
<1>3. ASSUME NEW k \in Tasks, Close(k) PROVE fdTable'[f] = None
  BY <1>3, <1>t DEF Close, CloseFd
<1>4. ASSUME NEW k \in Tasks, Create(k) PROVE fdTable'[f] = None
  <2>1. Free # {} /\ fdTable' = fdTable
        /\ fileTable' = [fileTable EXCEPT ![LowestFree] = Opened(name[k], "w")]
    BY <1>4 DEF Create
  <2>2. LowestFree \in Free
    BY <2>1, LowestIn
  <2> QED BY <1>0, <2>1, <2>2 DEF IsFile, Free, FileTables
<1>5. ASSUME NEW k \in Tasks, Save(k) PROVE fdTable'[f] = None
  BY <1>5, <1>t DEF Save
<1>6. ASSUME NEW k \in Tasks, Open(k) PROVE fdTable'[f] = None
  <2> DEFINE g == LowestFree
             h == Least(Free \ {LowestFree})
  <2>1. /\ Free \ {LowestFree} # {} /\ fdTable' = fdTable
        /\ fileTable' = [fileTable EXCEPT ![g] = Opened(name[k], "r"),
                                          ![h] = Opened(OutFile(name[k]), "w")]
    BY <1>6 DEF Open
  <2>2. g \in Free /\ h \in Free
    BY <2>1, LowestIn
  <2> HIDE DEF g, h
  <2>3. f # g /\ f # h => IsFile(f)
    BY <1>0, <2>1 DEF IsFile, FileTables
  <2> QED BY <1>0, <2>1, <2>2, <2>3 DEF Free
<1>7. ASSUME NEW k \in Tasks, GetLines(k) PROVE fdTable'[f] = None
  <2>1. CASE Valid(reader[k])
    <3>1. same
      BY <1>7, <2>1 DEF GetLines, same
    <3> QED BY <1>s, <3>1
  <2>2. CASE ~Valid(reader[k])
    <3>1. /\ CanRead(reader[k]) /\ fdTable' = fdTable
          /\ fileTable' = Moved(reader[k], Len(Text(reader[k])))
      BY <1>7, <2>2 DEF GetLines, Waiting
    <3>2. fileTable'[f].mode = fileTable[f].mode
      BY <1>0, <3>1, MovedModes
    <3> QED BY <1>0, <3>1, <3>2 DEF IsFile
  <2> QED BY <2>1, <2>2
<1>8. ASSUME NEW k \in Tasks, CloseStreams(k) PROVE fdTable'[f] = None
  BY <1>8, <1>t DEF CloseStreams
<1>9. ASSUME NEW k \in Tasks, ReadBack(k) PROVE fdTable'[f] = None
  <2>1. /\ Free # {} /\ fdTable' = fdTable
        /\ fileTable' = [fileTable EXCEPT ![LowestFree] =
             [Opened(OutFile(name[k]), "rw") EXCEPT !.pos = Len(files[OutFile(name[k])])]]
    BY <1>9 DEF ReadBack
  <2>2. LowestFree \in Free
    BY <2>1, LowestIn
  <2> QED BY <1>0, <2>1, <2>2 DEF IsFile, Free, FileTables
<1>10. ASSUME NEW k \in Tasks, Write(k) PROVE fdTable'[f] = None
  <2> DEFINE table == IF CanWrite(rfd) THEN Moved(rfd, fileTable[rfd].pos + Len(buf[k]))
                                       ELSE fileTable
  <2>1. Shut({reader[k]}, table)
    BY <1>10 DEF Write
  <2>2. \A g \in Fds : table[g].mode = fileTable[g].mode
    BY <1>0, MovedModes
  <2> HIDE DEF table
  <2> QED BY <2>1, <2>2, <1>t
<1> QED
  BY <1>1, <1>2, <1>3, <1>4, <1>5, <1>6, <1>7, <1>8, <1>9, <1>10, <1>q, <1>s

\* A task that went astray did so for good.
LEMMA StrayedStays == [Next]_vars /\ strayed => strayed'
<1> SUFFICES ASSUME [Next]_vars, strayed PROVE strayed'
  OBVIOUS
<1>1. ASSUME NEW c \in Clients, Connect(c) \/ Send(c) \/ Shutdown(c) PROVE strayed'
  BY <1>1 DEF Connect, Send, Shutdown, fdVars
<1>2. CASE Main
  BY <1>2 DEF Main, EpollWait, Accept, AcceptFails, DataToRead, AddTask, LastEvent, fdVars
<1>3. CASE RunTask
  BY <1>3 DEF RunTask, fdVars
<1>4. ASSUME NEW k \in Tasks, deal_fun(k) PROVE strayed'
  <2>1. CASE ReadFile(k) \/ Close(k) \/ Write(k)
    BY <2>1 DEF ReadFile, Close, Write, Strays
  <2>2. CASE Read(k) \/ ReadFails(k) \/ ReadData(k) \/ ReadEnd(k) \/ Clear(k)
    BY <2>2 DEF Read, ReadFails, ReadData, ReadEnd, Clear, fdVars
  <2>3. CASE Create(k) \/ Save(k) \/ Open(k) \/ GetLines(k) \/ CloseStreams(k) \/ ReadBack(k)
    BY <2>3 DEF Create, Save, Open, GetLines, CloseStreams, ReadBack
  <2> QED BY <1>4, <2>1, <2>2, <2>3 DEF deal_fun
<1>5. CASE UNCHANGED vars
  BY <1>5 DEF vars, fdVars
<1> QED BY <1>1, <1>2, <1>3, <1>4, <1>5 DEF Next

\* Every action keeps the streams the tasks' own, unless it leads one astray.
LEMMA StreamsNext == TypeInv /\ StreamsInv /\ [Next]_vars => StreamsInv'
<1> SUFFICES ASSUME TypeInv, StreamsInv, [Next]_vars, ~strayed' PROVE StreamsFacts'
  BY FilesNext DEF StreamsInv, StreamsFacts
<1>0. ~strayed /\ FilesInv /\ StreamsFacts
  BY StrayedStays DEF StreamsInv, StreamsFacts
<1>o. \A k \in Tasks : Own(k)
  BY <1>0 DEF StreamsFacts
<1>t. /\ step \in [Tasks -> {"queued", "read", "reading", "close", "clear", "create", "save",
                             "open", "parse", "readback", "write", "returned"}]
      /\ reader \in [Tasks -> Fds \cup {-1}] /\ writer \in [Tasks -> Fds \cup {-1}]
      /\ fileTable \in FileTables /\ fdTable \in [Fds -> Clients \cup {None}]
      /\ name \in [Tasks -> Names \cup {None}] /\ buf \in [Tasks -> Seq(AllParts)]
      /\ parsed \in [Tasks -> Seq(AllParts)] /\ files \in [AllNames -> Seq(AllParts)]
  BY DEF TypeInv, TypeOK
<1>m. \A f \in Fds : f # -1 /\ f \in Nat
  BY ServerAssumption
<1>1. ASSUME NEW c \in Clients, Connect(c) \/ Send(c) \/ Shutdown(c) PROVE StreamsFacts'
  BY <1>0, <1>1, StreamsSame DEF Connect, Send, Shutdown, fdVars, taskVars, localVars
<1>2. CASE Main
  BY <1>0, <1>2, StreamsSame DEF Main, EpollWait, Accept, AcceptFails, DataToRead, AddTask,
     LastEvent, fdVars, taskVars, localVars
<1>3. CASE RunTask
  <2>1. Head(queue) \in Tasks /\ step[Head(queue)] = "queued"
    <3>1. /\ queue \in Seq(Tasks) /\ queue # <<>> /\ submitted \in Nat /\ Len(queue) <= submitted
          /\ queue[1] = submitted - Len(queue) + 1
      BY <1>3 DEF RunTask, Start, TypeInv, ServiceOK, PhaseInv
    <3>2. Head(queue) = queue[1] /\ queue[1] \in Tasks /\ Len(queue) \in Nat
      BY <3>1
    <3>3. queue[1] > submitted - Len(queue)
      BY <3>1, <3>2
    <3> QED BY <3>2, <3>3 DEF TypeInv, PhaseInv
  <2>2. PICK h \in Tasks : step[h] = "queued" /\ step' = [step EXCEPT ![h] = "read"]
    BY <1>3, <2>1 DEF RunTask, Goto
  <2>3. \A k \in Tasks : step'[k] = step[k] \/ {step[k], step'[k]} = {"queued", "read"}
    BY <1>t, <2>2
  <2> QED BY <1>0, <1>3, <2>3, StreamsSame DEF RunTask, fdVars, localVars
<1>4. ASSUME NEW k \in Tasks, Read(k) \/ ReadFails(k) \/ ReadData(k) \/ ReadEnd(k)
      PROVE  StreamsFacts'
  <2>1. /\ UNCHANGED <<fileTable, reader, writer, parsed>>
        /\ {step[k], step'[k]} \cap {"save", "parse", "write"} = {}
        /\ \A l \in Tasks : l # k => step'[l] = step[l] /\ name'[l] = name[l] /\ buf'[l] = buf[l]
    BY <1>4, <1>t DEF Read, ReadFails, ReadData, ReadEnd, At, Goto, fdVars, localVars
  <2> QED BY <1>0, <2>1, StreamsSame
<1>5. ASSUME NEW k \in Tasks, ReadFile(k) PROVE StreamsFacts'
  BY <1>5 DEF ReadFile, Strays
<1>6. ASSUME NEW k \in Tasks, Close(k) PROVE StreamsFacts'
  <2>1. UNCHANGED fileTable
    BY <1>0, <1>6, CloseIs
  <2>2. /\ UNCHANGED <<reader, writer, parsed, name, buf>>
        /\ {step[k], step'[k]} \cap {"save", "parse", "write"} = {}
        /\ \A l \in Tasks : l # k => step'[l] = step[l]
    BY <1>6, <1>t DEF Close, At, Goto, localVars
  <2> QED BY <1>0, <2>1, <2>2, StreamsSame
<1>7. ASSUME NEW k \in Tasks, Clear(k) PROVE StreamsFacts'
  <2>1. /\ UNCHANGED fileTable /\ reader[k] = -1 /\ writer[k] = -1
        /\ {step[k], step'[k]} \cap {"save", "parse", "write"} = {}
        /\ reader' = [reader EXCEPT ![k] = -1] /\ writer' = [writer EXCEPT ![k] = -1]
        /\ \A l \in Tasks : l # k => /\ step'[l] = step[l] /\ name'[l] = name[l]
                                     /\ buf'[l] = buf[l] /\ parsed'[l] = parsed[l]
    BY <1>7, <1>t, <1>o DEF Clear, At, Return, Goto, Own, fdVars
  <2>2. UNCHANGED <<reader, writer>>
    BY <1>t, <2>1
  <2> QED BY <1>0, <2>1, <2>2, StreamsSame
<1>8. ASSUME NEW k \in Tasks, Create(k) PROVE StreamsFacts'
  <2>1. LowestFree \in Fds /\ LowestFree \in Free
    BY <1>8, LowestIn DEF Create
  <2>2. PICK f \in Fds : f \in Free /\ f = LowestFree
    BY <2>1
  <2>3. /\ step[k] = "create" /\ step' = [step EXCEPT ![k] = "save"]
        /\ fileTable' = [fileTable EXCEPT ![f] = Opened(name[k], "w")]
        /\ writer' = [writer EXCEPT ![k] = f] /\ UNCHANGED <<reader, name, buf, parsed>>
    BY <1>8, <2>2 DEF Create, At, Goto
  <2>4. reader[k] = -1 /\ writer[k] = -1
    BY <1>o, <2>3 DEF Own
  <2>5. Held(k) = {} /\ Held(k)' = {f}
    BY <1>m, <1>t, <2>3, <2>4 DEF Held
  <2>6. Own(k)'
    BY <1>m, <1>t, <2>3, <2>4 DEF Own, Stands, Opened, FileTables
  <2>7. \A g \in Fds : g # f => fileTable'[g] = fileTable[g]
    BY <1>t, <2>3 DEF FileTables
  <2>8. \A l \in Tasks : l # k => step'[l] = step[l] /\ writer'[l] = writer[l]
    BY <1>t, <2>3
  <2>9. reader'[k] = writer'[k] => reader'[k] = -1
    BY <2>3, <2>4
  <2> QED BY <1>0, <2>2, <2>3, <2>5, <2>6, <2>7, <2>8, <2>9, StreamsStep
<1>9. ASSUME NEW k \in Tasks, Save(k) PROVE StreamsFacts'
  <2>1. /\ step[k] = "save" /\ step' = [step EXCEPT ![k] = "open"]
        /\ writer' = [writer EXCEPT ![k] = -1] /\ UNCHANGED <<reader, name, buf, parsed>>
        /\ \A f \in Fds : fileTable'[f] = IF f = writer[k] THEN NoFile ELSE fileTable[f]
    BY <1>9 DEF Save, At, Goto, Shut
  <2>2. reader[k] = -1
    BY <1>o, <2>1 DEF Own
  <2>3. Held(k) \subseteq {writer[k]} /\ Held(k)' = {}
    BY <1>t, <2>1, <2>2 DEF Held
  <2>4. \A f \in Held(k) : ~IsFile(f)'
    BY <2>1, <2>3 DEF IsFile, NoFile
  <2>5. Own(k)'
    BY <1>t, <2>1, <2>2 DEF Own
  <2>6. \A l \in Tasks : l # k => step'[l] = step[l] /\ writer'[l] = writer[l]
    BY <1>t, <2>1
  <2>7. \A f \in Fds : f \notin Held(k) => fileTable'[f] = fileTable[f]
    BY <1>m, <2>1 DEF Held
  <2>8. reader'[k] = -1
    BY <2>1, <2>2
  <2> QED BY <1>0, <2>1, <2>3, <2>4, <2>5, <2>6, <2>7, <2>8, StreamsStep
<1>10. ASSUME NEW k \in Tasks, Open(k) PROVE StreamsFacts'
  <2>1. Free \ {LowestFree} # {}
    BY <1>10 DEF Open
  <2>2. PICK f \in Fds, g \in Fds : /\ f \in Free /\ g \in Free /\ f # g
                                    /\ f = LowestFree /\ g = Least(Free \ {LowestFree})
    BY <2>1, LowestIn
  <2>3. /\ step[k] = "open" /\ step' = [step EXCEPT ![k] = "parse"]
        /\ fileTable' = [fileTable EXCEPT ![f] = Opened(name[k], "r"),
                                          ![g] = Opened(OutName[name[k]], "w")]
        /\ reader' = [reader EXCEPT ![k] = f] /\ writer' = [writer EXCEPT ![k] = g]
        /\ UNCHANGED <<name, buf, parsed>>
    BY <1>10, <2>2 DEF Open, At, Goto, OutFile
  <2>4. reader[k] = -1 /\ writer[k] = -1 /\ parsed[k] = <<>>
    BY <1>o, <2>3 DEF Own, TypeInv, PhaseInv
  <2>5. Held(k) = {} /\ Held(k)' = {f, g}
    BY <1>m, <1>t, <2>3, <2>4 DEF Held
  <2>6. /\ fileTable'[f] = Opened(name[k], "r") /\ fileTable'[g] = Opened(OutName[name[k]], "w")
        /\ step'[k] = "parse" /\ reader'[k] = f /\ writer'[k] = g /\ Len(parsed[k]) = 0
    BY <1>t, <2>2, <2>3, <2>4 DEF FileTables
  <2>7. Own(k)'
    BY <2>3, <2>6 DEF Own, Stands, Opened
  <2>8. \A h \in Fds : h # f /\ h # g => fileTable'[h] = fileTable[h]
    BY <1>t, <2>3 DEF FileTables
  <2>9. \A l \in Tasks : l # k => /\ step'[l] = step[l] /\ reader'[l] = reader[l]
                                  /\ writer'[l] = writer[l]
    BY <1>t, <2>3
  <2> QED BY <1>0, <2>2, <2>3, <2>5, <2>6, <2>7, <2>8, <2>9, StreamsStep
<1>11. ASSUME NEW k \in Tasks, GetLines(k) PROVE StreamsFacts'
  <2>1. /\ Unread(k) # <<>> /\ parsed' = [parsed EXCEPT ![k] = parsed[k] \o Unread(k)]
        /\ fileTable' = Moved(reader[k], Len(files[name[k]]))
    BY <1>0, <1>11, <1>o, GetLinesIs
  <2>2. step[k] = "parse" /\ UNCHANGED <<step, reader, writer, name, buf>>
    BY <1>11 DEF GetLines, At
  <2>3. /\ Stands(reader[k], name[k], "r", Len(parsed[k]))
        /\ Stands(writer[k], OutName[name[k]], "w", 0)
    BY <1>o, <2>2 DEF Own
  <2>4. /\ IsFile(reader[k]) /\ reader[k] \in Fds /\ writer[k] \in Fds
        /\ reader[k] # writer[k]
    BY <1>0, <1>m, <2>3 DEF Stands, IsFile, StreamsFacts, HeldInv
  <2>5. PICK s \in Seq(AllParts), p \in Seq(AllParts) : s = files[name[k]] /\ p = parsed[k]
    <3>1. name[k] \in AllNames
      BY <2>2, NamesIn DEF TypeInv, PhaseInv, Busy
    <3> QED BY <1>t, <3>1
  <2>6. Len(p \o Unread(k)) = Len(s)
    <3>1. SubSeq(s, Len(p) + 1, Len(s)) # <<>>
      BY <2>1, <2>5 DEF Unread
    <3>2. Len(p) \in 0..Len(s)
      <4>1. ASSUME Len(p) > Len(s) PROVE FALSE
        <5>1. Len(s) < Len(p) + 1
          BY <4>1
        <5> QED BY <3>1, <5>1, SubSeqEmpty
      <4> QED BY <4>1
    <3>3. /\ SubSeq(s, Len(p) + 1, Len(s)) \in Seq(AllParts)
          /\ Len(SubSeq(s, Len(p) + 1, Len(s))) = Len(s) - Len(p)
      BY <3>2, SplitSeq
    <3>4. Unread(k) = SubSeq(s, Len(p) + 1, Len(s))
      BY <2>5 DEF Unread
    <3>5. Len(p \o Unread(k)) = Len(p) + (Len(s) - Len(p))
      BY <3>3, <3>4, ConcatProperties
    <3> QED BY <3>5
  <2>7. PICK n \in Nat : n = Len(s)
    OBVIOUS
  <2>8. fileTable' = [fileTable EXCEPT ![reader[k]] = [fileTable[reader[k]] EXCEPT !.pos = n]]
    BY <2>1, <2>4, <2>5, <2>7 DEF Moved
  <2>9. /\ \A g \in Fds : g # reader[k] => fileTable'[g] = fileTable[g]
        /\ fileTable'[reader[k]] = [fileTable[reader[k]] EXCEPT !.pos = n]
    BY <1>t, <2>4, <2>8 DEF FileTables
  <2>10. Stands(reader[k], name[k], "r", n)'
    <3>1. fileTable[reader[k]] \in [file : AllNames, mode : {"r", "w", "rw"}, pos : Nat]
      BY <1>t, <2>4, FileEntry
    <3> QED BY <2>2, <2>3, <2>9, <3>1 DEF Stands
  <2>11. Stands(writer[k], OutName[name[k]], "w", 0)'
    BY <2>2, <2>3, <2>4, <2>9 DEF Stands
  <2>12. Len(parsed'[k]) = n
    BY <1>t, <2>1, <2>5, <2>6, <2>7
  <2>13. Own(k)'
    BY <2>2, <2>10, <2>11, <2>12 DEF Own
  <2>14. Held(k)' = Held(k) /\ reader[k] \in Held(k)
    BY <1>m, <2>2, <2>4 DEF Held
  <2>15. \A l \in Tasks : l # k => parsed'[l] = parsed[l]
    BY <1>t, <2>1
  <2> QED BY <1>0, <2>2, <2>4, <2>9, <2>13, <2>14, <2>15, StreamsStep
<1>12. ASSUME NEW k \in Tasks, CloseStreams(k) PROVE StreamsFacts'
  <2>1. /\ step[k] = "parse" /\ step' = [step EXCEPT ![k] = "readback"]
        /\ reader' = [reader EXCEPT ![k] = -1] /\ writer' = [writer EXCEPT ![k] = -1]
        /\ UNCHANGED <<name, buf, parsed>>
        /\ \A f \in Fds : fileTable'[f] = IF f \in {reader[k], writer[k]} THEN NoFile
                                                                       ELSE fileTable[f]
    BY <1>12 DEF CloseStreams, At, Goto, Shut
  <2>2. Held(k)' = {} /\ reader'[k] = -1
    BY <1>t, <2>1 DEF Held
  <2>3. \A f \in Held(k) : ~IsFile(f)'
    BY <2>1 DEF IsFile, NoFile, Held
  <2>4. Own(k)'
    BY <1>t, <2>1 DEF Own
  <2>5. \A l \in Tasks : l # k => /\ step'[l] = step[l] /\ reader'[l] = reader[l]
                                  /\ writer'[l] = writer[l]
    BY <1>t, <2>1
  <2>6. \A f \in Fds : f \notin Held(k) => fileTable'[f] = fileTable[f]
    BY <1>m, <2>1 DEF Held
  <2> QED BY <1>0, <2>1, <2>2, <2>3, <2>4, <2>5, <2>6, StreamsStep
<1>13. ASSUME NEW k \in Tasks, ReadBack(k) PROVE StreamsFacts'
  <2>1. LowestFree \in Fds /\ LowestFree \in Free
    BY <1>13, LowestIn DEF ReadBack
  <2>2. PICK f \in Fds : f \in Free /\ f = LowestFree
    BY <2>1
  <2> DEFINE n == OutName[name[k]]
             entry == [Opened(n, "rw") EXCEPT !.pos = Len(files[n])]
  <2>3. /\ step[k] = "readback" /\ step' = [step EXCEPT ![k] = "write"]
        /\ fileTable' = [fileTable EXCEPT ![f] = entry]
        /\ reader' = [reader EXCEPT ![k] = f] /\ buf' = [buf EXCEPT ![k] = files[n]]
        /\ UNCHANGED <<writer, name, parsed>>
    BY <1>13, <2>2 DEF ReadBack, At, Goto, OutFile
  <2>4. reader[k] = -1 /\ writer[k] = -1
    BY <1>o, <2>3 DEF Own
  <2>5. Held(k) = {} /\ Held(k)' = {f}
    BY <1>m, <1>t, <2>3, <2>4 DEF Held
  <2>6. entry.file = n /\ entry.mode = "rw" /\ entry.pos = Len(files[n])
    BY DEF Opened
  <2> HIDE DEF entry
  <2>7. fileTable'[f] = entry /\ buf'[k] = files[n] /\ step'[k] = "write" /\ reader'[k] = f
    BY <1>t, <2>3 DEF FileTables
  <2>8. Own(k)'
    BY <2>3, <2>4, <2>6, <2>7 DEF Own, Stands
  <2>9. \A g \in Fds : g # f => fileTable'[g] = fileTable[g]
    BY <1>t, <2>3 DEF FileTables
  <2>10. \A l \in Tasks : l # k => /\ step'[l] = step[l] /\ reader'[l] = reader[l]
                                   /\ buf'[l] = buf[l]
    BY <1>t, <2>3
  <2>11. reader'[k] = writer'[k] => reader'[k] = -1
    BY <2>3, <2>4
  <2> QED BY <1>0, <2>2, <2>3, <2>5, <2>8, <2>9, <2>10, <2>11, StreamsStep
<1>14. ASSUME NEW k \in Tasks, Write(k) PROVE StreamsFacts'
  <2>1. Shut({reader[k]}, fileTable)
    BY <1>0, <1>14, <1>o, WriteIs
  <2>2. /\ step[k] = "write" /\ step' = [step EXCEPT ![k] = "returned"]
        /\ name' = [name EXCEPT ![k] = None] /\ buf' = [buf EXCEPT ![k] = <<>>]
        /\ parsed' = [parsed EXCEPT ![k] = <<>>]
        /\ reader' = [reader EXCEPT ![k] = -1] /\ writer' = [writer EXCEPT ![k] = -1]
    BY <1>14 DEF Write, At, Return, Goto
  <2>3. \A f \in Fds : fileTable'[f] = IF f = reader[k] THEN NoFile ELSE fileTable[f]
    BY <2>1 DEF Shut
  <2>4. writer[k] = -1
    BY <1>o, <2>2 DEF Own
  <2>5. Held(k) \subseteq {reader[k]} /\ Held(k)' = {} /\ reader'[k] = -1
    BY <1>t, <2>2, <2>4 DEF Held
  <2>6. \A f \in Held(k) : ~IsFile(f)'
    BY <2>3, <2>5 DEF IsFile, NoFile
  <2>7. Own(k)'
    BY <1>t, <2>2 DEF Own
  <2>8. \A l \in Tasks : l # k => /\ step'[l] = step[l] /\ name'[l] = name[l] /\ buf'[l] = buf[l]
                                  /\ parsed'[l] = parsed[l] /\ reader'[l] = reader[l]
                                  /\ writer'[l] = writer[l]
    BY <1>t, <2>2
  <2>9. \A f \in Fds : f \notin Held(k) => fileTable'[f] = fileTable[f]
    BY <1>m, <2>3 DEF Held
  <2> QED BY <1>0, <2>5, <2>6, <2>7, <2>8, <2>9, StreamsStep
<1>15. CASE UNCHANGED vars
  BY <1>0, <1>15, StreamsSame DEF vars, fdVars, taskVars, localVars
<1> QED
  BY <1>1, <1>2, <1>3, <1>4, <1>5, <1>6, <1>7, <1>8, <1>9, <1>10, <1>11, <1>12, <1>13, <1>14,
     <1>15 DEF Next, deal_fun

\* Before the first client connects there is no stream.
LEMMA StreamsInit == Init => TypeInv /\ StreamsInv
<1> SUFFICES ASSUME Init PROVE StreamsInv
  BY TypeInit
<1>1. /\ \A k \in Tasks : reader[k] = -1 /\ writer[k] = -1 /\ step[k] = "queued"
      /\ \A f \in Fds : fileTable[f] = NoFile
  BY DEF Init
<1>2. \A k \in Tasks : Held(k) = {} /\ Own(k)
  BY <1>1 DEF Held, Own
<1>3. \A f \in Fds : ~IsFile(f)
  BY <1>1 DEF IsFile, NoFile
<1> QED BY <1>1, <1>2, <1>3 DEF StreamsInv, FilesInv, HeldInv

\* StreamsInv: until rfd has led a task to a file that some task opened, no number is in two
\* streams, and each task reads and writes the files of its own name, where it left off.
THEOREM ServerKeepsStreams == Spec => []StreamsInv
<1>1. Init => TypeInv /\ StreamsInv
  BY StreamsInit
<1>2. TypeInv /\ StreamsInv /\ [Next]_vars => (TypeInv /\ StreamsInv)'
  BY TypeNext, StreamsNext
<1> QED BY <1>1, <1>2, PTL DEF Spec

------------------------------------------------------------------------------
(* The server closes a connection only after some client ended its side:     *)
(* what a task reads rfd for stays valid until then, though the slot changes *)
(* between its uses.                                                         *)

AnyEnded == \E c \in Clients : ended[c]

\* Until then no task is to close, none has cleared the slot or gone astray, and from the
\* first event on the slot names an open connection, as does every event to be handled.
SlotInv ==
  ~AnyEnded =>
    /\ ~strayed
    /\ \A k \in Tasks : step[k] \notin {"close", "clear"}
    /\ submitted > 0 \/ main = "addTask" => Valid(rfd)
    /\ \A f \in events \ {Listen} : Valid(f)

\* Nor is a connection closed, where accept does not fail.
OpenInv == SlotInv /\ (~AnyEnded => \A c \in Clients : link[c] # "closed")

\* A client that ended its side does not take that back.
LEMMA EndedStays == TypeInv /\ [Next]_vars /\ AnyEnded => AnyEnded'
<1> SUFFICES ASSUME TypeInv, [Next]_vars, AnyEnded PROVE AnyEnded'
  OBVIOUS
<1>0. ASSUME UNCHANGED ended PROVE AnyEnded'
  BY <1>0 DEF AnyEnded
<1>1. ASSUME NEW c \in Clients, Connect(c) \/ Send(c) PROVE AnyEnded'
  BY <1>0, <1>1 DEF Connect, Send
<1>2. ASSUME NEW c \in Clients, Shutdown(c) PROVE AnyEnded'
  BY <1>2 DEF Shutdown, AnyEnded, TypeInv, TypeOK
<1>3. CASE Main
  BY <1>0, <1>3 DEF Main, EpollWait, Accept, AcceptFails, DataToRead, AddTask, LastEvent, clientVars
<1>4. CASE RunTask
  BY <1>0, <1>4 DEF RunTask, clientVars
<1>5. ASSUME NEW k \in Tasks, deal_fun(k) PROVE AnyEnded'
  <2>1. CASE \/ Read(k) \/ ReadFile(k) \/ ReadFails(k) \/ ReadData(k) \/ ReadEnd(k)
             \/ Close(k) \/ Clear(k)
    BY <1>0, <2>1 DEF Read, ReadFile, ReadFails, ReadData, ReadEnd, Close, Clear, clientVars
  <2>2. CASE \/ Create(k) \/ Save(k) \/ Open(k) \/ GetLines(k) \/ CloseStreams(k)
             \/ ReadBack(k) \/ Write(k)
    BY <1>0, <2>2 DEF Create, Save, Open, GetLines, CloseStreams, ReadBack, Write, clientVars
  <2> QED BY <1>5, <2>1, <2>2 DEF deal_fun
<1>6. CASE UNCHANGED vars
  BY <1>0, <1>6 DEF vars, clientVars
<1> QED BY <1>1, <1>2, <1>3, <1>4, <1>5, <1>6 DEF Next

\* A task runs only after main has stored a descriptor for it.
LEMMA RunsLater ==
  ASSUME TypeInv, NEW k \in Tasks, step[k] # "queued"
  PROVE  submitted > 0
<1>1. k \in Nat /\ k >= 1 /\ ~(k > submitted - Len(queue))
  BY DEF TypeInv, PhaseInv, Tasks
<1>2. Len(queue) \in Nat /\ submitted \in Nat
  BY ServerAssumption DEF TypeInv, ServiceOK
<1> QED BY <1>1, <1>2

\* Every action keeps SlotInv, and OpenInv where accept does not fail.
LEMMA SlotNext ==
  ASSUME TypeInv, StreamsInv, SlotInv, [Next]_vars
  PROVE  /\ SlotInv'
         /\ ~AcceptMayFail /\ OpenInv => OpenInv'
<1> DEFINE NoneClosed == \A c \in Clients : link[c] # "closed"
<1> SUFFICES ASSUME ~AnyEnded' PROVE SlotInv' /\ (~AcceptMayFail /\ NoneClosed => NoneClosed')
  BY EndedStays DEF SlotInv, OpenInv
<1>0. ~AnyEnded
  BY EndedStays
<1>s. /\ ~strayed /\ FilesInv /\ (\A k \in Tasks : Own(k))
      /\ \A k \in Tasks : step[k] \notin {"close", "clear"}
      /\ submitted > 0 \/ main = "addTask" => Valid(rfd)
      /\ \A f \in events \ {Listen} : Valid(f)
  BY <1>0 DEF SlotInv, StreamsInv
<1>t. /\ step \in [Tasks -> {"queued", "read", "reading", "close", "clear", "create", "save",
                             "open", "parse", "readback", "write", "returned"}]
      /\ link \in [Clients -> {"none", "backlog", "open", "closed"}]
      /\ fdTable \in [Fds -> Clients \cup {None}] /\ submitted \in Nat
      /\ \A c \in Clients : c # None
  BY ServerAssumption DEF TypeInv, TypeOK, ServiceOK
<1>f. ASSUME IsFile(rfd), submitted > 0 PROVE FALSE
  BY <1>s, <1>f DEF FilesInv, IsFile, Valid
<1>k. ASSUME NEW k \in Tasks, step[k] # "queued" PROVE submitted > 0 /\ Valid(rfd)
  BY <1>k, <1>s, RunsLater
\* A step that keeps the table and the slot,
<1>q. ASSUME UNCHANGED <<strayed, fdTable, rfd, submitted, main, events>>,
             \A k \in Tasks : step'[k] = step[k] \/ step'[k] \notin {"close", "clear"}
      PROVE  SlotInv'
  BY <1>q, <1>s DEF SlotInv, Valid
<1>l. ASSUME UNCHANGED link PROVE NoneClosed => NoneClosed'
  BY <1>l
<1> DEFINE Goal == SlotInv' /\ (~AcceptMayFail /\ NoneClosed => NoneClosed')
<1> HIDE DEF AnyEnded
<1>1. ASSUME NEW c \in Clients, Connect(c) \/ Send(c) \/ Shutdown(c) PROVE Goal
  <2>1. SlotInv'
    BY <1>1, <1>q DEF Connect, Send, Shutdown, serviceVars, fdVars, mainVars, taskVars
  <2>2. NoneClosed => NoneClosed'
    BY <1>1, <1>t DEF Connect, Send, Shutdown
  <2> QED BY <2>1, <2>2
<1>2. CASE EpollWait
  <2>1. \A f \in Ready \ {Listen} : Valid(f)
    BY DEF Ready, Valid
  <2> QED BY <1>2, <1>s, <2>1 DEF EpollWait, SlotInv, Valid, serviceVars, clientVars, fdVars,
             taskVars
<1>3. CASE Accept
  <2>1. PICK c \in Clients : /\ link' = [link EXCEPT ![c] = "open"]
                            /\ fdTable' = [fdTable EXCEPT ![LowestFree] = c]
    BY <1>3 DEF Accept
  <2>2. \A f \in Fds : fdTable[f] # None => fdTable'[f] # None
    BY <1>t, <2>1
  <2>3. NoneClosed => NoneClosed'
    BY <1>t, <2>1
  <2>4. /\ UNCHANGED <<strayed, rfd, step, submitted, main>> /\ events' \subseteq events
    BY <1>3 DEF Accept, serviceVars, taskVars
  <2>5. SlotInv'
    BY <1>s, <2>2, <2>4 DEF SlotInv, Valid
  <2> QED BY <2>3, <2>5
<1>4. CASE AcceptFails
  <2>1. SlotInv'
    BY <1>4, <1>s DEF AcceptFails, SlotInv, Valid, serviceVars, fdVars, taskVars
  <2> QED BY <1>4, <2>1 DEF AcceptFails
<1>5. CASE DataToRead
  <2>1. SlotInv'
    BY <1>5, <1>s DEF DataToRead, SetSlot, SlotInv, Valid, serviceVars, fdVars, taskVars
  <2> QED BY <1>5, <2>1 DEF DataToRead, clientVars
<1>6. CASE AddTask
  <2>1. SlotInv'
    BY <1>6, <1>s DEF AddTask, SlotInv, Valid, fdVars, taskVars
  <2> QED BY <1>6, <2>1 DEF AddTask, clientVars
<1>7. CASE LastEvent
  <2>1. SlotInv'
    BY <1>7, <1>s DEF LastEvent, SlotInv, Valid, serviceVars, fdVars, taskVars
  <2> QED BY <1>7, <2>1 DEF LastEvent, clientVars
<1>8. CASE RunTask
  <2>1. \A k \in Tasks : step'[k] = step[k] \/ step'[k] = "read"
    BY <1>8, <1>t DEF RunTask, Goto
  <2>2. SlotInv'
    BY <1>8, <1>q, <2>1 DEF RunTask, Start, fdVars, mainVars
  <2> QED BY <1>8, <2>2 DEF RunTask, clientVars
<1>9. ASSUME NEW k \in Tasks, Read(k) \/ ReadData(k) PROVE Goal
  <2>1. \A l \in Tasks : step'[l] = step[l] \/ step'[l] \in {"reading", "create"}
    BY <1>9, <1>t DEF Read, ReadData, Goto
  <2>2. UNCHANGED <<strayed, fdTable, rfd, submitted, main, events, link>>
    BY <1>9 DEF Read, ReadData, serviceVars, clientVars, fdVars, mainVars
  <2> QED BY <1>q, <2>1, <2>2
<1>10. ASSUME NEW k \in Tasks, ReadFails(k) PROVE Goal
  BY <1>10, <1>k DEF ReadFails, At
<1>11. ASSUME NEW k \in Tasks, ReadFile(k) PROVE Goal
  <2>1. step[k] = "read" /\ IsFile(rfd)
    BY <1>11 DEF ReadFile, ReadsFile, At, CanRead, IsFile
  <2> QED BY <1>f, <1>k, <2>1
<1>12. ASSUME NEW k \in Tasks, ReadEnd(k) PROVE Goal
  <2>1. conn[k] \in Clients /\ ended[conn[k]]
    BY <1>12 DEF ReadEnd, At, PhaseInv, TypeInv
  <2> QED BY <1>0, <2>1 DEF AnyEnded
<1>13. ASSUME NEW k \in Tasks, Close(k) \/ Clear(k) PROVE Goal
  BY <1>13, <1>s DEF Close, Clear, At
<1>14. ASSUME NEW k \in Tasks, Create(k) \/ Open(k) \/ ReadBack(k) PROVE Goal
  <2>1. \A l \in Tasks : step'[l] = step[l] \/ step'[l] \in {"save", "parse", "write"}
    BY <1>14, <1>t DEF Create, Open, ReadBack, Goto
  <2>2. UNCHANGED <<strayed, fdTable, rfd, submitted, main, events, link>>
    BY <1>14 DEF Create, Open, ReadBack, serviceVars, clientVars, mainVars
  <2> QED BY <1>q, <2>1, <2>2
<1>15. ASSUME NEW k \in Tasks, Save(k) PROVE Goal
  <2>1. UNCHANGED <<link, fdTable>>
    BY <1>15, <1>s, SaveIs
  <2>2. \A l \in Tasks : step'[l] = step[l] \/ step'[l] = "open"
    BY <1>15, <1>t DEF Save, Goto
  <2>3. UNCHANGED <<strayed, rfd, submitted, main, events>>
    BY <1>15 DEF Save, serviceVars, mainVars
  <2> QED BY <1>q, <2>1, <2>2, <2>3
<1>16. ASSUME NEW k \in Tasks, GetLines(k) PROVE Goal
  <2>1. UNCHANGED <<strayed, rfd, submitted, main, events, link, fdTable, step>>
    BY <1>16 DEF GetLines, serviceVars, mainVars
  <2> QED BY <1>q, <2>1
<1>17. ASSUME NEW k \in Tasks, CloseStreams(k) PROVE Goal
  <2>1. UNCHANGED <<link, fdTable>>
    BY <1>17, <1>s, CloseStreamsIs
  <2>2. \A l \in Tasks : step'[l] = step[l] \/ step'[l] = "readback"
    BY <1>17, <1>t DEF CloseStreams, Goto
  <2>3. UNCHANGED <<strayed, rfd, submitted, main, events>>
    BY <1>17 DEF CloseStreams, serviceVars, mainVars
  <2> QED BY <1>q, <2>1, <2>2, <2>3
<1>18. ASSUME NEW k \in Tasks, Write(k) PROVE Goal
  <2>1. ~CanWrite(rfd)
    BY <1>18, <1>f, <1>k DEF Write, At, CanWrite, IsFile
  <2>2. ~strayed'
    BY <1>18, <1>s, <2>1 DEF Write, Strays
  <2>3. UNCHANGED <<link, fdTable>>
    BY <1>18, <1>s, <2>2, WriteIs
  <2>4. \A l \in Tasks : step'[l] = step[l] \/ step'[l] = "returned"
    BY <1>18, <1>t DEF Write, Return, Goto
  <2>5. UNCHANGED <<rfd, submitted, main, events>>
    BY <1>18 DEF Write, Return, Finish, mainVars
  <2>6. strayed' = strayed
    <3>1. strayed' \in BOOLEAN /\ strayed \in BOOLEAN
      BY <1>18 DEF Write, Strays, TypeInv, TypeOK
    <3> QED BY <1>s, <2>2, <3>1
  <2> QED BY <1>q, <2>3, <2>4, <2>5, <2>6
<1>19. CASE UNCHANGED vars
  <2>1. UNCHANGED <<strayed, rfd, submitted, main, events, link, fdTable, step>>
    BY <1>19 DEF vars, serviceVars, clientVars, fdVars, mainVars, taskVars
  <2> QED BY <1>q, <2>1
<1> HIDE DEF NoneClosed
<1> QED
  BY <1>1, <1>2, <1>3, <1>4, <1>5, <1>6, <1>7, <1>8, <1>9, <1>10, <1>11, <1>12, <1>13, <1>14,
     <1>15, <1>16, <1>17, <1>18, <1>19 DEF Next, Main, deal_fun

LEMMA SlotInit == Init => SlotInv
BY DEF Init, ServiceInit, SlotInv

\* OpenInv: as long as no client has ended its side, no task is on its way to close, and the
\* slot that all tasks share names an open connection from the first event on.
THEOREM SlotStaysOpen ==
  ASSUME ~AcceptMayFail
  PROVE  Spec => []OpenInv
<1>1. Init => TypeInv /\ StreamsInv /\ OpenInv
  BY StreamsInit, SlotInit DEF Init, OpenInv
<1>2. TypeInv /\ StreamsInv /\ OpenInv /\ [Next]_vars => (TypeInv /\ StreamsInv /\ OpenInv)'
  BY TypeNext, StreamsNext, SlotNext DEF OpenInv
<1> QED BY <1>1, <1>2, PTL DEF Spec

\* A connection that the server has closed although it took it was ended by a client
\* first, this one or another.
EndBeforeClose == (\E c \in Clients : link[c] = "closed") => AnyEnded

\* As long as accept takes every connection, the server closes none before some
\* client has ended its side, however many clients, tasks and descriptors there are.
THEOREM ClosedAfterAnEnd ==
  ASSUME ~AcceptMayFail
  PROVE  Spec => []EndBeforeClose
<1>1. OpenInv => EndBeforeClose
  BY DEF OpenInv, EndBeforeClose
<1> QED BY <1>1, SlotStaysOpen, PTL

\* A client on its own is not closed before it ended, whether or not it waits.
THEOREM ServerStaysOpen ==
  ASSUME ~AcceptMayFail, NEW c, Clients = {c}
  PROVE  Spec => []OpenUntilShutdown
<1>1. EndBeforeClose => OpenUntilShutdown
  BY DEF EndBeforeClose, AnyEnded, OpenUntilShutdown
<1> QED BY <1>1, ClosedAfterAnEnd, PTL

------------------------------------------------------------------------------
(* No part is answered twice, whichever tasks handle the stream of its client *)
(* and whichever connection they reply to, where no two parts lead to the     *)
(* same files.                                                                *)

\* The file that is named, and that of its html.
FilesOf(n) == {n, OutName[n]}

Apart ==
  \A r, q \in AllParts : r # q => FilesOf(FileName[r]) \cap FilesOf(FileName[q]) = {}

\* No task has read it: it is to be sent, or in the socket.
Fresh(r) == r[2] > sent[r[1]] \/ r \in Elements(inbox[r[1]])

\* The socket holds parts of its own client, each once.
InboxInv ==
  \A c \in Clients :
    /\ Distinct(inbox[c])
    /\ \A r \in Elements(inbox[c]) : r[1] = c /\ r[2] <= sent[c]

\* A part that no task has read is in no buffer, in no reply, and has no files yet.
FreshInv ==
  \A r \in AllParts : Fresh(r) =>
    /\ \A n \in FilesOf(FileName[r]) : files[n] = <<>>
    /\ \A k \in Tasks : r \notin Elements(buf[k])
    /\ \A c \in Clients : \A i \in 1..Len(replies[c]) : ~Has(replies[c][i], r)

\* The files of a task are named after a part that was read, hold only what is in its
\* buffer until that is replaced by the html, and are not those of another task.
OwnsInv ==
  /\ \A k \in Tasks : step[k] \in Busy =>
       \E r \in AllParts : name[k] = FileName[r] /\ ~Fresh(r)
  /\ \A k \in Tasks : step[k] \in Busy \ {"write"} =>
       /\ \A n \in FilesOf(name[k]) : Elements(files[n]) \subseteq Elements(buf[k])
       /\ Elements(parsed[k]) \subseteq Elements(buf[k])
  /\ \A k, l \in Tasks : step[k] \in Busy /\ step[l] \in Busy /\ k # l => name[k] # name[l]
  /\ \A k, l \in Tasks : k # l => Elements(buf[k]) \cap Elements(buf[l]) = {}

\* A part is in one reply at most, and in none while it is in a buffer.
ReplyInv ==
  \A r \in AllParts :
    /\ \A c, d \in Clients : \A i \in 1..Len(replies[c]) : \A j \in 1..Len(replies[d]) :
         Has(replies[c][i], r) /\ Has(replies[d][j], r) => c = d /\ i = j
    /\ \A k \in Tasks : r \in Elements(buf[k]) =>
         \A c \in Clients : \A i \in 1..Len(replies[c]) : ~Has(replies[c][i], r)

OnceFacts == InboxInv /\ FreshInv /\ OwnsInv /\ ReplyInv

\* Until a task has gone astray.
OnceInv == ~strayed => OnceFacts

\* A reply has the parts of the buffer it is made from.
LEMMA ReplyHas ==
  ASSUME NEW k, buf[k] \in Seq(AllParts), NEW r
  PROVE  Has(Reply(k), r) <=> r \in Elements(buf[k])
<1>1. DOMAIN buf[k] = 1..Len(buf[k])
  OBVIOUS
<1> QED BY <1>1 DEF Has, Reply, Elements

\* Tasks at work have files of their own, and none that belong to a part still to be read.
LEMMA OwnFiles ==
  ASSUME Apart, TypeInv, OnceFacts, NEW k \in Tasks, step[k] \in Busy
  PROVE  /\ \A l \in Tasks : l # k /\ step[l] \in Busy =>
              FilesOf(name[k]) \cap FilesOf(name[l]) = {}
         /\ \A r \in AllParts : Fresh(r) => FilesOf(name[k]) \cap FilesOf(FileName[r]) = {}
BY DEF Apart, OnceFacts, OwnsInv

\* Replies that were sent, and buffers that get nothing that was answered.
LEMMA ReplySame ==
  ASSUME ReplyInv, UNCHANGED replies,
         \A k \in Tasks :
           \/ Elements(buf'[k]) \subseteq Elements(buf[k])
           \/ \A r \in Elements(buf'[k]) : \A c \in Clients : \A i \in 1..Len(replies[c]) :
                ~Has(replies[c][i], r)
  PROVE  ReplyInv'
<1>1. ASSUME NEW r \in AllParts, NEW k \in Tasks, r \in Elements(buf'[k]),
             NEW c \in Clients, NEW i \in 1..Len(replies[c])
      PROVE  ~Has(replies[c][i], r)
  BY <1>1 DEF ReplyInv
<1> QED BY <1>1 DEF ReplyInv, Has

\* A task that goes on leaves these facts alone,
LEMMA OnceSame ==
  ASSUME OnceFacts, UNCHANGED <<sent, inbox, replies, name, buf, parsed, files>>,
         \A k \in Tasks : step'[k] \in Busy => step'[k] = step[k]
  PROVE  OnceFacts'
<1> USE DEF OnceFacts
<1>1. InboxInv'
  BY DEF InboxInv
<1>2. \A r : Fresh(r)' <=> Fresh(r)
  BY DEF Fresh
<1>3. FreshInv'
  BY <1>2 DEF FreshInv, Has
<1>4. OwnsInv'
  BY <1>2 DEF OwnsInv
<1>5. ReplyInv'
  BY DEF ReplyInv, Has
<1> QED BY <1>1, <1>3, <1>4, <1>5

\* as does one that writes what is in its buffer to one of its files.
LEMMA OnceFile ==
  ASSUME Apart, TypeInv, OnceFacts, UNCHANGED <<sent, inbox, replies, name, buf, parsed>>,
         NEW k \in Tasks, step[k] \in Busy, step[k] # "write", step'[k] \in Busy,
         \A l \in Tasks : l # k => step'[l] = step[l],
         NEW n \in FilesOf(name[k]), NEW v, files' = [files EXCEPT ![n] = v],
         Elements(v) \subseteq Elements(buf[k])
  PROVE  OnceFacts'
<1>1. InboxInv'
  BY DEF InboxInv, OnceFacts
<1>2. \A r : Fresh(r)' <=> Fresh(r)
  BY DEF Fresh
<1>3. /\ files \in [AllNames -> Seq(AllParts)] /\ name[k] \in Names
      /\ \A r \in AllParts : FilesOf(FileName[r]) \subseteq AllNames
      /\ \A m \in AllNames : files'[m] = IF m = n THEN v ELSE files[m]
  BY NamesIn DEF TypeInv, TypeOK, PhaseInv, FilesOf
<1>4. FreshInv'
  <2>1. \A r \in AllParts : Fresh(r) => n \notin FilesOf(FileName[r])
    BY OwnFiles
  <2> QED BY <1>2, <1>3, <2>1 DEF FreshInv, OnceFacts, Has
<1>5. OwnsInv'
  <2>1. ASSUME NEW l \in Tasks, step'[l] \in Busy \ {"write"}, NEW m \in FilesOf(name[l])
        PROVE  Elements(files'[m]) \subseteq Elements(buf[l])
    <3>1. m \in AllNames /\ step[l] \in Busy \ {"write"}
      BY <1>3, <2>1, NamesIn DEF FilesOf, PhaseInv, TypeInv
    <3>2. CASE m = n
      <4>1. l = k
        BY <2>1, <3>1, <3>2, OwnFiles
      <4> QED BY <1>3, <3>1, <3>2, <4>1
    <3>3. CASE m # n
      BY <1>3, <2>1, <3>1, <3>3 DEF OnceFacts, OwnsInv
    <3> QED BY <3>2, <3>3
  <2>2. \A l \in Tasks : step'[l] \in Busy =>
          step[l] \in Busy /\ (step'[l] # "write" => step[l] # "write")
    OBVIOUS
  <2> QED BY <1>2, <2>1, <2>2 DEF OnceFacts, OwnsInv
<1>6. ReplyInv'
  BY DEF ReplyInv, OnceFacts, Has
<1> QED BY <1>1, <1>4, <1>5, <1>6 DEF OnceFacts

\* When deal_fun returns, what it held is gone.
LEMMA OnceReturn ==
  ASSUME TypeInv, OnceFacts, UNCHANGED <<sent, inbox, files>>, NEW k \in Tasks, Return(k),
         FreshInv', ReplyInv'
  PROVE  OnceFacts'
<1>1. InboxInv'
  BY DEF InboxInv, OnceFacts
<1>2. \A r : Fresh(r)' <=> Fresh(r)
  BY DEF Fresh
<1>3. /\ \A l \in Tasks : l # k => /\ step'[l] = step[l] /\ name'[l] = name[l]
                                   /\ buf'[l] = buf[l] /\ parsed'[l] = parsed[l]
      /\ step'[k] \notin Busy /\ buf'[k] = <<>>
  BY DEF Return, Goto, Busy, TypeInv, TypeOK
<1>4. OwnsInv'
  <2>1. ASSUME NEW l \in Tasks, step'[l] \in Busy
        PROVE  /\ l # k /\ step[l] \in Busy
               /\ \E r \in AllParts : name'[l] = FileName[r] /\ ~Fresh(r)
    BY <1>3, <2>1 DEF OnceFacts, OwnsInv
  <2>2. ASSUME NEW l \in Tasks, step'[l] \in Busy \ {"write"}
        PROVE  /\ \A n \in FilesOf(name'[l]) : Elements(files[n]) \subseteq Elements(buf'[l])
               /\ Elements(parsed'[l]) \subseteq Elements(buf'[l])
    BY <1>3, <2>2 DEF OnceFacts, OwnsInv
  <2>3. ASSUME NEW l \in Tasks, NEW m \in Tasks, step'[l] \in Busy, step'[m] \in Busy, l # m
        PROVE  name'[l] # name'[m]
    BY <1>3, <2>3 DEF OnceFacts, OwnsInv
  <2>4. Elements(<<>>) = {}
    BY DEF Elements
  <2>5. ASSUME NEW l \in Tasks, NEW m \in Tasks, l # m
        PROVE  Elements(buf'[l]) \cap Elements(buf'[m]) = {}
    BY <1>3, <2>4, <2>5 DEF OnceFacts, OwnsInv
  <2> QED BY <1>2, <2>1, <2>2, <2>3, <2>5 DEF OwnsInv
<1> QED BY <1>1, <1>4 DEF OnceFacts

\* Every action that leads no task astray keeps OnceFacts.
LEMMA OnceNext == Apart /\ TypeInv /\ StreamsInv /\ OnceInv /\ [Next]_vars => OnceInv'
<1> SUFFICES ASSUME Apart, TypeInv, StreamsInv, OnceFacts, ~strayed, [Next]_vars, ~strayed'
             PROVE  OnceFacts'
  BY StrayedStays DEF OnceInv
<1>s. FilesInv /\ \A k \in Tasks : Own(k)
  BY DEF StreamsInv
<1> USE DEF TypeInv, TypeOK, Busy, At, Goto, Tasks, clientVars, localVars, taskVars
<1>1. ASSUME NEW c \in Clients, Connect(c) PROVE OnceFacts'
  BY <1>1, OnceSame DEF Connect
<1>2. ASSUME NEW c \in Clients, Send(c) PROVE OnceFacts'
  <2> DEFINE new == Request(c, sent[c] + 1)
  <2>1. /\ sent[c] + 1 \in 1..MaxRequests /\ sent[c] \in Nat
        /\ sent' = [sent EXCEPT ![c] = sent[c] + 1]
        /\ inbox' = [inbox EXCEPT ![c] = inbox[c] \o Request(c, sent'[c])]
        /\ UNCHANGED <<replies, name, buf, parsed, files, step>>
        /\ inbox[c] \in Seq(AllParts)
    BY <1>2, ServerAssumption DEF Send
  <2>2. /\ inbox'[c] = inbox[c] \o new /\ sent'[c] = sent[c] + 1
        /\ \A d \in Clients : d # c => inbox'[d] = inbox[d] /\ sent'[d] = sent[d]
    BY <2>1
  <2>r. /\ new \in Seq(AllParts) /\ Len(new) = Parts[sent[c] + 1]
        /\ \A j \in 1..Parts[sent[c] + 1] : new[j] = <<c, sent[c] + 1, j>>
    BY <2>1, RequestIs
  <2> HIDE DEF new, TypeInv, TypeOK
  <2>3. /\ new \in Seq(AllParts) /\ Distinct(new)
        /\ \A r \in Elements(new) : r[1] = c /\ r[2] = sent[c] + 1
    BY <2>r DEF Elements, Distinct
  <2>4. /\ Elements(inbox'[c]) = Elements(inbox[c]) \cup Elements(new)
        /\ Distinct(inbox'[c])
    <3>1. Elements(inbox[c]) \cap Elements(new) = {}
      BY <2>1, <2>3 DEF OnceFacts, InboxInv
    <3>2. Distinct(inbox[c])
      BY DEF OnceFacts, InboxInv
    <3>3. /\ Elements(inbox[c] \o new) = Elements(inbox[c]) \cup Elements(new)
          /\ Distinct(inbox[c] \o new)
      BY <2>1, <2>3, <3>1, <3>2, ConcatElements
    <3> QED BY <2>2, <3>3
  <2>5. InboxInv'
    <3>1. ASSUME NEW d \in Clients
          PROVE  Distinct(inbox'[d]) /\ \A r \in Elements(inbox'[d]) : r[1] = d /\ r[2] <= sent'[d]
      <4>1. CASE d = c
        <5>1. ASSUME NEW r \in Elements(inbox[c]) PROVE r[1] = c /\ r[2] <= sent[c] + 1
          <6>1. r \in AllParts
            BY <2>1 DEF Elements
          <6> QED BY <2>1, <6>1, PartIs DEF OnceFacts, InboxInv
        <5> QED BY <2>1, <2>2, <2>3, <2>4, <4>1, <5>1
      <4>2. CASE d # c
        BY <2>2, <4>2 DEF OnceFacts, InboxInv
      <4> QED BY <4>1, <4>2
    <3> QED BY <3>1 DEF InboxInv
  <2>6. ASSUME NEW r \in AllParts PROVE Fresh(r)' <=> Fresh(r)
    <3>1. r[1] \in Clients /\ r[2] \in Nat
      BY PartIs
    <3>2. CASE r[1] # c
      BY <2>2, <3>1, <3>2 DEF Fresh
    <3>3. CASE r[1] = c /\ r[2] # sent[c] + 1
      <4>1. r \notin Elements(new)
        BY <2>3, <3>3
      <4> QED BY <2>1, <2>2, <2>4, <3>1, <3>3, <4>1 DEF Fresh
    <3>4. CASE r[1] = c /\ r[2] = sent[c] + 1
      <4>1. r \in Elements(new)
        <5>1. r[3] \in 1..Parts[r[2]] /\ r = <<c, sent[c] + 1, r[3]>>
          BY <3>4, PartIs
        <5>2. new[r[3]] = r /\ r[3] \in 1..Len(new)
          BY <2>1, <2>r, <3>4, <5>1
        <5> QED BY <5>2 DEF Elements
      <4> QED BY <2>1, <2>2, <2>4, <3>1, <3>4, <4>1 DEF Fresh
    <3> QED BY <3>2, <3>3, <3>4
  <2>7. FreshInv'
    BY <2>1, <2>6 DEF OnceFacts, FreshInv, Has
  <2>8. OwnsInv'
    BY <2>1, <2>6 DEF OnceFacts, OwnsInv
  <2>9. ReplyInv'
    BY <2>1, ReplySame DEF OnceFacts
  <2> QED BY <2>5, <2>7, <2>8, <2>9 DEF OnceFacts
<1>3. ASSUME NEW c \in Clients, Shutdown(c) PROVE OnceFacts'
  BY <1>3, OnceSame DEF Shutdown
<1>4. CASE EpollWait
  BY <1>4, OnceSame DEF EpollWait
<1>5. CASE Accept
  BY <1>5, OnceSame DEF Accept
<1>6. CASE AcceptFails
  BY <1>6, OnceSame DEF AcceptFails
<1>7. CASE DataToRead
  BY <1>7, OnceSame DEF DataToRead
<1>8. CASE AddTask
  BY <1>8, OnceSame DEF AddTask
<1>9. CASE LastEvent
  BY <1>9, OnceSame DEF LastEvent
<1>10. CASE RunTask
  <2>1. queue # <<>> /\ queue \in Seq(Tasks)
    BY <1>10 DEF RunTask, Start, ServiceOK
  <2>2. Head(queue) \in Tasks
    BY <2>1, HeadTailProperties
  <2> QED BY <1>10, <2>2, OnceSame DEF RunTask
<1>11. ASSUME NEW k \in Tasks, Read(k) PROVE OnceFacts'
  BY <1>11, OnceSame DEF Read
<1>12. ASSUME NEW k \in Tasks, ReadFails(k) PROVE OnceFacts'
  BY <1>12, OnceSame DEF ReadFails
<1>13. ASSUME NEW k \in Tasks, ReadData(k) PROVE OnceFacts'
  <2> DEFINE c == conn[k]
             s == inbox[c]
  <2>1. PICK n \in 1..Len(s) :
          /\ buf' = [buf EXCEPT ![k] = SubSeq(s, 1, n)]
          /\ name' = [name EXCEPT ![k] = FileName[Head(s)]]
          /\ inbox' = [inbox EXCEPT ![c] = SubSeq(s, n + 1, Len(s))]
    BY <1>13 DEF ReadData
  <2> DEFINE head == SubSeq(s, 1, n)
             rest == SubSeq(s, n + 1, Len(s))
             h == s[1]
  <2>2. /\ c \in Clients /\ s \in Seq(AllParts) /\ Distinct(s)
        /\ \A r \in Elements(s) : r \in AllParts /\ r[1] = c /\ r[2] <= sent[c] /\ Fresh(r)
    <3>1. c \in Clients /\ s \in Seq(AllParts)
      BY <1>13 DEF ReadData, PhaseInv
    <3>2. Elements(s) \subseteq AllParts
      BY <3>1 DEF Elements
    <3> QED BY <3>1, <3>2 DEF OnceFacts, InboxInv, Fresh
  <2>3. /\ Len(s) \in Nat /\ n \in 0..Len(s) /\ Head(s) = h /\ h \in AllParts
    BY <2>2
  <2>4. /\ Elements(head) \cup Elements(rest) \subseteq Elements(s)
        /\ Distinct(rest) /\ Elements(head) \cap Elements(rest) = {}
    BY <2>2, <2>3, SplitElements
  <2>5. h \in Elements(head)
    <3>1. Len(head) = n /\ head[1] = h
      BY <2>2, <2>3, SplitSeq
    <3> QED BY <3>1, <2>3 DEF Elements
  <2>6. /\ name'[k] = FileName[h] /\ buf'[k] = head /\ inbox'[c] = rest
        /\ \A l \in Tasks : l # k => /\ name'[l] = name[l] /\ buf'[l] = buf[l]
                                     /\ step'[l] = step[l]
        /\ \A d \in Clients : d # c => inbox'[d] = inbox[d]
        /\ parsed[k] = <<>> /\ step'[k] = "create"
        /\ UNCHANGED <<sent, replies, parsed, files>>
    <3>1. name' = [name EXCEPT ![k] = FileName[h]]
      BY <2>1, <2>3
    <3>2. /\ step[k] = "reading" /\ step' = [step EXCEPT ![k] = "create"]
          /\ UNCHANGED <<sent, replies, parsed, files>>
      BY <1>13 DEF ReadData
    <3>3. parsed[k] = <<>>
      BY <3>2 DEF PhaseInv
    <3>4. inbox'[c] = rest /\ \A d \in Clients : d # c => inbox'[d] = inbox[d]
      BY <2>1, <2>2
    <3>5. buf'[k] = head /\ \A l \in Tasks : l # k => buf'[l] = buf[l]
      BY <2>1
    <3>6. name'[k] = FileName[h] /\ \A l \in Tasks : l # k => name'[l] = name[l]
      BY <3>1
    <3>7. step'[k] = "create" /\ \A l \in Tasks : l # k => step'[l] = step[l]
      BY <3>2
    <3> HIDE DEF c, s, head, rest, h, TypeInv, TypeOK, Tasks, Busy
    <3> QED BY <3>2, <3>3, <3>4, <3>5, <3>6, <3>7
  <2> HIDE DEF c, s, head, rest, h, TypeInv, TypeOK, Tasks
  <2>7. \A r \in AllParts : Fresh(r)' => Fresh(r) /\ r \notin Elements(head)
    <3> SUFFICES ASSUME NEW r \in AllParts, Fresh(r)' PROVE Fresh(r) /\ r \notin Elements(head)
      OBVIOUS
    <3>1. r[1] \in Clients /\ r[2] \in Nat
      BY PartIs
    <3>2. CASE r[1] = c
      <4>1. r[2] > sent[c] \/ r \in Elements(rest)
        BY <2>6, <3>2 DEF Fresh
      <4>2. CASE r \in Elements(rest)
        BY <2>2, <2>4, <4>2
      <4>3. CASE r[2] > sent[c]
        <5>1. sent[c] \in Nat /\ ~(r[2] <= sent[c])
          BY <2>2, <3>1, <4>3 DEF TypeInv, TypeOK
        <5>2. Fresh(r)
          BY <3>2, <4>3 DEF Fresh
        <5> QED BY <2>2, <2>4, <5>1, <5>2
      <4> QED BY <4>1, <4>2, <4>3
    <3>3. CASE r[1] # c
      BY <2>2, <2>4, <2>6, <3>1, <3>3 DEF Fresh
    <3> QED BY <3>2, <3>3
  <2>8. \A r \in Elements(head) : r \in AllParts /\ Fresh(r)
    BY <2>2, <2>4
  <2>9. InboxInv'
    <3>1. ASSUME NEW d \in Clients
          PROVE  Distinct(inbox'[d]) /\ \A r \in Elements(inbox'[d]) : r[1] = d /\ r[2] <= sent[d]
      BY <2>2, <2>4, <2>6 DEF OnceFacts, InboxInv
    <3> QED BY <2>6, <3>1 DEF InboxInv
  <2>10. FreshInv'
    BY <2>6, <2>7 DEF OnceFacts, FreshInv, Has
  <2>11. OwnsInv'
    <3>1. ASSUME NEW l \in Tasks, step'[l] \in Busy
          PROVE  \E r \in AllParts : name'[l] = FileName[r] /\ ~Fresh(r)'
      BY <2>3, <2>5, <2>6, <2>7, <3>1 DEF OnceFacts, OwnsInv
    <3>2. ASSUME NEW l \in Tasks, step'[l] \in Busy \ {"write"}
          PROVE  /\ \A m \in FilesOf(name'[l]) : Elements(files[m]) \subseteq Elements(buf'[l])
                 /\ Elements(parsed[l]) \subseteq Elements(buf'[l])
      <4>1. CASE l = k
        <5>1. \A m \in FilesOf(FileName[h]) : files[m] = <<>>
          BY <2>5, <2>8 DEF OnceFacts, FreshInv
        <5>2. Elements(<<>>) = {}
          BY DEF Elements
        <5> QED BY <2>6, <4>1, <5>1, <5>2
      <4>2. CASE l # k
        BY <2>6, <3>2, <4>2 DEF OnceFacts, OwnsInv
      <4> QED BY <4>1, <4>2
    <3>3. ASSUME NEW l \in Tasks, l # k
          PROVE  /\ step'[l] \in Busy => name'[l] # name'[k]
                 /\ Elements(buf'[l]) \cap Elements(buf'[k]) = {}
      <4>1. ASSUME step[l] \in Busy PROVE name[l] # FileName[h]
        <5>1. PICK r \in AllParts : name[l] = FileName[r] /\ ~Fresh(r)
          BY <4>1 DEF OnceFacts, OwnsInv
        <5>2. r # h
          BY <2>5, <2>8, <5>1
        <5> QED BY <2>3, <5>1, <5>2 DEF Apart, FilesOf
      <4>2. Elements(buf[l]) \cap Elements(head) = {}
        BY <2>8 DEF OnceFacts, FreshInv
      <4> QED BY <2>6, <3>3, <4>1, <4>2
    <3>4. ASSUME NEW l \in Tasks, NEW m \in Tasks, l # m
          PROVE  /\ step'[l] \in Busy /\ step'[m] \in Busy => name'[l] # name'[m]
                 /\ Elements(buf'[l]) \cap Elements(buf'[m]) = {}
      <4>1. CASE l # k /\ m # k
        BY <2>6, <3>4, <4>1 DEF OnceFacts, OwnsInv
      <4>2. CASE l = k
        BY <3>3, <3>4, <4>2
      <4>3. CASE m = k
        BY <3>3, <3>4, <4>3
      <4> QED BY <4>1, <4>2, <4>3
    <3>5. UNCHANGED <<files, parsed>>
      BY <2>6
    <3> QED BY <3>1, <3>2, <3>4, <3>5 DEF OwnsInv
  <2>12. ReplyInv'
    <3>1. ASSUME NEW l \in Tasks
          PROVE  \/ Elements(buf'[l]) \subseteq Elements(buf[l])
                 \/ \A r \in Elements(buf'[l]) : \A d \in Clients : \A i \in 1..Len(replies[d]) :
                      ~Has(replies[d][i], r)
      <4>1. CASE l = k
        BY <2>6, <2>8, <4>1 DEF OnceFacts, FreshInv
      <4>2. CASE l # k
        BY <2>6, <4>2
      <4> QED BY <4>1, <4>2
    <3> QED BY <2>6, <3>1, ReplySame DEF OnceFacts
  <2> QED BY <2>9, <2>10, <2>11, <2>12 DEF OnceFacts
<1>14. ASSUME NEW k \in Tasks, ReadEnd(k) PROVE OnceFacts'
  BY <1>14, OnceSame DEF ReadEnd
<1>15. ASSUME NEW k \in Tasks, Close(k) PROVE OnceFacts'
  BY <1>15, OnceSame DEF Close
<1>16. ASSUME NEW k \in Tasks, Clear(k) PROVE OnceFacts'
  <2>1. /\ Return(k) /\ UNCHANGED <<sent, inbox, replies, files>>
        /\ \A l \in Tasks : Elements(buf'[l]) \subseteq Elements(buf[l])
    <3>1. \A l \in Tasks : l # k => buf'[l] = buf[l]
      BY <1>16 DEF Clear, Return
    <3>2. buf'[k] = <<>> /\ Elements(<<>>) = {}
      BY <1>16 DEF Clear, Return, Elements
    <3> QED BY <1>16, <3>1, <3>2 DEF Clear
  <2> HIDE DEF Tasks, Busy, TypeInv, TypeOK
  <2>2. FreshInv'
    BY <2>1 DEF OnceFacts, FreshInv, Fresh, Has
  <2>3. ReplyInv'
    BY <2>1, ReplySame DEF OnceFacts
  <2> QED BY <2>1, <2>2, <2>3, OnceReturn
<1>17. ASSUME NEW k \in Tasks, Create(k) PROVE OnceFacts'
  <2>1. Elements(<<>>) = {} /\ name[k] \in FilesOf(name[k])
    BY DEF Elements, FilesOf
  <2> QED BY <1>17, <2>1, OnceFile DEF Create, Truncate
<1>18. ASSUME NEW k \in Tasks, Save(k) PROVE OnceFacts'
  <2> DEFINE v == Overwrite(files[name[k]], 0, buf[k])
  <2>1. name[k] \in AllNames /\ name[k] \in FilesOf(name[k])
    BY <1>18, NamesIn DEF Save, PhaseInv, FilesOf
  <2>2. Elements(v) \subseteq Elements(buf[k])
    <3>1. Elements(files[name[k]]) \subseteq Elements(buf[k])
      BY <1>18, <2>1 DEF Save, OnceFacts, OwnsInv
    <3> QED BY <2>1, <3>1, OverwriteIs
  <2> HIDE DEF v
  <2>3. files' = [files EXCEPT ![name[k]] = v] /\ UNCHANGED replies
    BY <1>18, <1>s, SaveIs DEF v
  <2> QED BY <1>18, <2>1, <2>2, <2>3, OnceFile DEF Save
<1>19. ASSUME NEW k \in Tasks, Open(k) PROVE OnceFacts'
  <2>1. Elements(<<>>) = {} /\ OutName[name[k]] \in FilesOf(name[k])
    BY DEF Elements, FilesOf
  <2> QED BY <1>19, <2>1, OnceFile DEF Open, Truncate, OutFile
<1>20. ASSUME NEW k \in Tasks, GetLines(k) PROVE OnceFacts'
  <2> DEFINE f == files[name[k]]
             p == parsed[k]
  <2>1. /\ f \in Seq(AllParts) /\ p \in Seq(AllParts) /\ step[k] = "parse"
        /\ parsed' = [parsed EXCEPT ![k] = p \o Unread(k)]
        /\ UNCHANGED <<sent, inbox, replies, step, name, buf, files>>
    <3>1. inbox' = inbox /\ parsed' = [parsed EXCEPT ![k] = p \o Unread(k)]
      BY <1>20, <1>s, GetLinesIs
    <3> QED BY <1>20, <3>1, NamesIn DEF GetLines, PhaseInv
  <2>2. Elements(f) \cup Elements(p) \subseteq Elements(buf[k])
    BY <2>1 DEF OnceFacts, OwnsInv, FilesOf
  <2>3. Elements(p \o Unread(k)) \subseteq Elements(f) \cup Elements(p)
    <3>1. CASE Len(p) <= Len(f)
      <4>1. Unread(k) \in Seq(AllParts)
        BY <2>1, <3>1, SplitSeq DEF Unread
      <4>2. Elements(Unread(k)) \subseteq Elements(f)
        BY <2>1, <3>1, SplitElements DEF Unread
      <4> QED BY <2>1, <4>1, <4>2, ConcatElements
    <3>2. CASE ~(Len(p) <= Len(f))
      <4>1. Unread(k) = <<>>
        BY <2>1, <3>2, SubSeqEmpty DEF Unread
      <4> QED BY <2>1, <4>1, ConcatEmptySeq
    <3> QED BY <3>1, <3>2
  <2>4. Elements(parsed'[k]) \subseteq Elements(buf[k])
    BY <2>1, <2>2, <2>3
  <2>5. \A l \in Tasks : l # k => parsed'[l] = parsed[l]
    BY <2>1
  <2> HIDE DEF TypeInv, TypeOK, Tasks, Busy
  <2>6. \A r : Fresh(r)' <=> Fresh(r)
    BY <2>1 DEF Fresh
  <2>7. OwnsInv'
    BY <2>1, <2>4, <2>5, <2>6 DEF OnceFacts, OwnsInv
  <2>8. InboxInv' /\ FreshInv'
    BY SMTT(30), ZenonT(40), <2>1, <2>6 DEF OnceFacts, InboxInv, FreshInv, Has
  <2> QED BY <2>1, <2>7, <2>8, ReplySame DEF OnceFacts
<1>21. ASSUME NEW k \in Tasks, CloseStreams(k) PROVE OnceFacts'
  <2> DEFINE n == OutName[name[k]]
             v == Overwrite(files[n], 0, parsed[k])
  <2>1. n \in AllNames /\ n \in FilesOf(name[k])
    BY <1>21, NamesIn DEF CloseStreams, PhaseInv, FilesOf
  <2>2. Elements(v) \subseteq Elements(buf[k])
    <3>1. /\ Elements(files[n]) \subseteq Elements(buf[k])
          /\ Elements(parsed[k]) \subseteq Elements(buf[k])
      BY <1>21, <2>1 DEF CloseStreams, OnceFacts, OwnsInv
    <3> QED BY <2>1, <3>1, OverwriteIs
  <2> HIDE DEF v
  <2>3. files' = [files EXCEPT ![n] = v] /\ UNCHANGED replies
    BY <1>21, <1>s, CloseStreamsIs DEF v
  <2> QED BY <1>21, <2>1, <2>2, <2>3, OnceFile DEF CloseStreams
<1>22. ASSUME NEW k \in Tasks, ReadBack(k) PROVE OnceFacts'
  <2> DEFINE h == files[OutName[name[k]]]
  <2>1. /\ buf' = [buf EXCEPT ![k] = h] /\ step' = [step EXCEPT ![k] = "write"]
        /\ step[k] = "readback" /\ UNCHANGED <<sent, inbox, replies, name, parsed, files>>
    BY <1>22 DEF ReadBack, OutFile
  <2>2. Elements(h) \subseteq Elements(buf[k])
    BY <2>1 DEF OnceFacts, OwnsInv, FilesOf
  <2>3. /\ buf'[k] = h /\ step'[k] = "write"
        /\ \A l \in Tasks : l # k => buf'[l] = buf[l] /\ step'[l] = step[l]
    BY <2>1
  <2>4. \A l \in Tasks : Elements(buf'[l]) \subseteq Elements(buf[l])
    BY <2>2, <2>3
  <2>5. \A l \in Tasks : step'[l] \in Busy => step[l] \in Busy
    BY <2>1, <2>3
  <2> HIDE DEF h, TypeInv, TypeOK, Tasks, Busy
  <2>6. \A r : Fresh(r)' <=> Fresh(r)
    BY <2>1 DEF Fresh
  <2>7. OwnsInv'
    <3>1. ASSUME NEW l \in Tasks, step'[l] \in Busy \ {"write"}
          PROVE  l # k /\ step[l] \in Busy \ {"write"} /\ buf'[l] = buf[l]
      BY <2>3, <3>1
    <3>2. \A l, m \in Tasks : l # m => Elements(buf'[l]) \cap Elements(buf'[m]) = {}
      BY <2>4 DEF OnceFacts, OwnsInv
    <3> QED BY <2>1, <2>5, <2>6, <3>1, <3>2 DEF OnceFacts, OwnsInv
  <2>8. InboxInv' /\ FreshInv'
    BY <2>1, <2>4, <2>6 DEF OnceFacts, InboxInv, FreshInv, Has
  <2> QED BY <2>1, <2>4, <2>7, <2>8, ReplySame DEF OnceFacts
<1>23. ASSUME NEW k \in Tasks, Write(k) PROVE OnceFacts'
  <2>1. Return(k) /\ UNCHANGED <<sent, inbox, files>> /\ buf[k] \in Seq(AllParts)
    BY <1>23, <1>s, WriteIs DEF Write
  <2>2. /\ buf'[k] = <<>> /\ Elements(<<>>) = {}
        /\ \A l \in Tasks : l # k => buf'[l] = buf[l]
    BY <2>1 DEF Return, Elements
  <2>3. \A l \in Tasks : Elements(buf'[l]) \subseteq Elements(buf[l])
    BY <2>2
  <2>4. PICK d \in Clients \cup {None} :
          \/ d = None /\ replies' = replies
          \/ d \in Clients /\ replies' = [replies EXCEPT ![d] = Append(replies[d], Reply(k))]
    <3>1. replies' = IF Valid(rfd)
                       THEN [replies EXCEPT ![fdTable[rfd]] =
                               Append(replies[fdTable[rfd]], Reply(k))]
                       ELSE replies
      BY <1>23, <1>s, WriteIs
    <3>2. Valid(rfd) => fdTable[rfd] \in Clients
      BY DEF Valid
    <3> QED BY <3>1, <3>2
  <2>5. \A c \in Clients :
          \/ replies'[c] = replies[c]
          \/ /\ c = d /\ Len(replies'[c]) = Len(replies[c]) + 1 /\ Len(replies[c]) \in Nat
             /\ \A i \in 1..Len(replies[c]) : replies'[c][i] = replies[c][i]
             /\ replies'[c][Len(replies[c]) + 1] = Reply(k)
    <3>1. Reply(k) \in [name : AllNames \cup {None}, of : Seq(AllParts)]
      BY <1>23, NamesIn DEF Write, PhaseInv, Reply, OutFile
    <3>2. d \in Clients => replies[d] \in Seq([name : AllNames \cup {None}, of : Seq(AllParts)])
      OBVIOUS
    <3> DEFINE s == Append(replies[d], Reply(k))
    <3>3. d \in Clients =>
            /\ Len(s) = Len(replies[d]) + 1 /\ Len(replies[d]) \in Nat
            /\ \A i \in 1..Len(replies[d]) : s[i] = replies[d][i]
            /\ s[Len(replies[d]) + 1] = Reply(k)
      BY <3>1, <3>2, AppendProperties
    <3> HIDE DEF s
    <3>4. \A c \in Clients : replies'[c] = IF c = d THEN s ELSE replies[c]
      BY <2>4, ServerAssumption DEF s
    <3> QED BY <3>3, <3>4
  <2> HIDE DEF TypeInv, TypeOK, Tasks, Busy
  <2>6. ASSUME NEW c \in Clients, NEW i \in 1..Len(replies'[c])
        PROVE  \/ i \in 1..Len(replies[c]) /\ replies'[c][i] = replies[c][i]
               \/ c = d /\ i = Len(replies[c]) + 1 /\ replies'[c][i] = Reply(k)
    BY <2>5
  <2>7. \A r : Has(Reply(k), r) <=> r \in Elements(buf[k])
    BY <2>1, ReplyHas
  <2>8. FreshInv'
    <3>1. ASSUME NEW r \in AllParts, Fresh(r), NEW c \in Clients, NEW i \in 1..Len(replies'[c])
          PROVE  ~Has(replies'[c][i], r)
      BY <2>6, <2>7, <3>1 DEF OnceFacts, FreshInv
    <3> QED BY <2>1, <2>3, <3>1 DEF OnceFacts, FreshInv, Fresh, Has
  <2>9. ReplyInv'
    <3>1. ASSUME NEW r \in Elements(buf[k]), r \in AllParts, NEW c \in Clients,
                 NEW i \in 1..Len(replies[c])
          PROVE  ~Has(replies[c][i], r)
      BY <3>1 DEF OnceFacts, ReplyInv
    <3>2. ASSUME NEW r \in AllParts, NEW c \in Clients, NEW e \in Clients,
                 NEW i \in 1..Len(replies'[c]), NEW j \in 1..Len(replies'[e]),
                 Has(replies'[c][i], r), Has(replies'[e][j], r)
          PROVE  c = e /\ i = j
      <4>1. CASE r \in Elements(buf[k])
        BY <2>6, <3>1, <3>2, <4>1
      <4>2. CASE r \notin Elements(buf[k])
        <5>1. /\ i \in 1..Len(replies[c]) /\ replies'[c][i] = replies[c][i]
              /\ j \in 1..Len(replies[e]) /\ replies'[e][j] = replies[e][j]
          BY <2>6, <2>7, <3>2, <4>2
        <5> QED BY <3>2, <5>1 DEF OnceFacts, ReplyInv
      <4> QED BY <4>1, <4>2
    <3>3. ASSUME NEW r \in AllParts, NEW l \in Tasks, r \in Elements(buf'[l]), NEW c \in Clients,
                 NEW i \in 1..Len(replies'[c])
          PROVE  ~Has(replies'[c][i], r)
      <4>1. l # k /\ r \in Elements(buf[l]) /\ r \notin Elements(buf[k])
        BY <2>2, <3>3 DEF OnceFacts, OwnsInv
      <4>2. CASE i \in 1..Len(replies[c]) /\ replies'[c][i] = replies[c][i]
        BY <4>1, <4>2 DEF OnceFacts, ReplyInv
      <4>3. CASE replies'[c][i] = Reply(k)
        BY <2>7, <4>1, <4>3
      <4> QED BY <2>6, <4>2, <4>3
    <3> QED BY <3>2, <3>3 DEF ReplyInv, Has
  <2> QED BY <2>1, <2>8, <2>9, OnceReturn
<1>24. CASE UNCHANGED vars
  BY <1>24, OnceSame DEF vars
<1>25. ASSUME NEW k \in Tasks, ReadFile(k) PROVE OnceFacts'
  BY <1>25 DEF ReadFile, Strays
<1> QED
  BY <1>1, <1>2, <1>3, <1>4, <1>5, <1>6, <1>7, <1>8, <1>9, <1>10, <1>11, <1>12, <1>13, <1>14,
     <1>15, <1>16, <1>17, <1>18, <1>19, <1>20, <1>21, <1>22, <1>23, <1>24, <1>25
     DEF Next, Main, deal_fun

\* It holds while nothing was sent.
LEMMA OnceInit == Init => OnceFacts
<1> SUFFICES ASSUME Init PROVE OnceFacts
  OBVIOUS
<1>1. /\ \A k \in Tasks : step[k] = "queued" /\ buf[k] = <<>>
      /\ \A c \in Clients : inbox[c] = <<>> /\ replies[c] = <<>>
      /\ \A n \in AllNames : files[n] = <<>>
  BY DEF Init
<1>2. Elements(<<>>) = {} /\ Distinct(<<>>) /\ Len(<<>>) = 0
  BY DEF Elements, Distinct
<1>3. InboxInv
  BY <1>1, <1>2 DEF InboxInv
<1>4. \A r \in AllParts : FilesOf(FileName[r]) \subseteq AllNames
  BY NamesIn DEF FilesOf
<1>5. \A c \in Clients : 1..Len(replies[c]) = {}
  BY <1>1, <1>2
<1>6. FreshInv
  BY <1>1, <1>2, <1>4, <1>5 DEF FreshInv
<1>7. OwnsInv
  BY <1>1, <1>2 DEF OwnsInv, Busy
<1>8. ReplyInv
  BY <1>5 DEF ReplyInv
<1> QED BY <1>3, <1>6, <1>7, <1>8 DEF OnceFacts

\* OnceInv: where no two parts lead to the same files, each part is at one place at most, in
\* a socket, with a task and in its files, or in a reply, and no two tasks hold one file,
\* until rfd has led a task to a file that some task opened.
THEOREM ServerKeepsApart ==
  ASSUME Apart
  PROVE  Spec => []OnceInv
<1>1. Init => TypeInv /\ StreamsInv /\ OnceInv
  BY StreamsInit, OnceInit DEF OnceInv
<1>2. TypeInv /\ StreamsInv /\ OnceInv /\ [Next]_vars => (TypeInv /\ StreamsInv /\ OnceInv)'
  BY TypeNext, StreamsNext, OnceNext
<1> QED BY <1>1, <1>2, PTL DEF Spec

\* Where no two parts lead to the same files, no part of any request is answered twice, to
\* the client who sent it or to another, whether clients wait, whether accept fails,
\* however reads cut the stream, whatever tasks share the slot and whichever numbers are
\* given out again, until rfd has led a task to a file that some task opened.
THEOREM ServerAnswersOnce ==
  ASSUME Apart
  PROVE  Spec => []AnsweredAtMostOnce
<1>1. TypeInv /\ OnceInv => AnsweredAtMostOnce
  <2> SUFFICES ASSUME TypeInv, OnceInv, ~strayed, NEW r \in AllParts
               PROVE  Cardinality({p \in Clients \X (1..MaxTasks) :
                        p[2] <= Len(replies[p[1]]) /\ Has(replies[p[1]][p[2]], r)}) <= 1
    BY DEF AnsweredAtMostOnce
  <2> DEFINE S == {p \in Clients \X (1..MaxTasks) :
                     p[2] <= Len(replies[p[1]]) /\ Has(replies[p[1]][p[2]], r)}
  <2>1. ASSUME NEW x \in S, NEW y \in S PROVE x = y
    <3>1. /\ x = <<x[1], x[2]>> /\ y = <<y[1], y[2]>>
          /\ {x[1], y[1]} \subseteq Clients /\ {x[2], y[2]} \subseteq 1..MaxTasks
          /\ x[2] <= Len(replies[x[1]]) /\ y[2] <= Len(replies[y[1]])
          /\ Has(replies[x[1]][x[2]], r) /\ Has(replies[y[1]][y[2]], r)
      BY <2>1
    <3>2. \A c \in Clients : Len(replies[c]) \in Nat
      BY DEF TypeInv, TypeOK
    <3>3. x[2] \in 1..Len(replies[x[1]]) /\ y[2] \in 1..Len(replies[y[1]])
      BY <3>1, <3>2, ServerAssumption
    <3> QED BY <3>1, <3>3 DEF OnceInv, OnceFacts, ReplyInv
  <2> HIDE DEF S
  <2>2. Cardinality(S) <= 1
    BY <2>1, AtMostOne
  <2> QED BY <2>2 DEF S
<1> QED BY <1>1, ServerTypeCorrect, ServerKeepsApart, PTL

------------------------------------------------------------------------------
(* The replies of one client who waits are those of its requests, in order,  *)
(* where the parts of one request lead to files of their own.  Requests may  *)
(* be for the same file again.                                               *)

PartsApart ==
  \A r, q \in AllParts : r # q /\ r[1] = q[1] /\ r[2] = q[2] =>
    FilesOf(FileName[r]) \cap FilesOf(FileName[q]) = {}

\* Consecutive parts of the request of c that was sent last.
Piece(c, s) == \A j \in 1..Len(s) : s[j] = <<c, sent[c], s[1][3] + j - 1>>

\* What task k has of the piece that begins with part r, in its buffer, its files and
\* its parser, which finds the file empty if it has the name of its html.
Holds(k, r) ==
  /\ Piece(r[1], buf[k])
  /\ IF buf[k] = <<>> THEN step[k] = "write" /\ InPlace(name[k]) ELSE buf[k][1] = r
  /\ step[k] = "save" => files[name[k]] = <<>>
  /\ step[k] = "open" => files[name[k]] = buf[k]
  /\ step[k] = "parse" =>
       IF InPlace(name[k])
         THEN files[name[k]] = <<>> /\ parsed[k] = <<>>
         ELSE /\ files[name[k]] = buf[k] /\ files[OutName[name[k]]] = <<>>
              /\ parsed[k] \in {<<>>, buf[k]}
  /\ step[k] = "readback" =>
       files[OutName[name[k]]] = IF InPlace(name[k]) THEN <<>> ELSE buf[k]

\* What waits in the socket is a piece that no task holds and no reply answers.
SocketInv ==
  \A c \in Clients :
    /\ Piece(c, inbox[c])
    /\ \A r \in Elements(inbox[c]) : ~Answered(r) /\ \A k \in Tasks : r \notin Elements(buf[k])

\* A task at work is named after a part that only it can answer.
PiecesInv ==
  /\ \A k \in Tasks : step[k] \in Busy =>
       \E r \in AllParts :
         /\ r[2] = sent[r[1]] /\ name[k] = FileName[r] /\ Holds(k, r)
         /\ ~Answered(r) /\ r \notin Elements(inbox[r[1]])
         /\ \A l \in Tasks : l # k => r \notin Elements(buf[l])
  /\ \A k, l \in Tasks : step[k] \in Busy /\ step[l] \in Busy /\ k # l => name[k] # name[l]

\* The replies are as they should be, and not ahead of the requests.
RepliesInv ==
  /\ OwnRepliesInOrder
  /\ \A c \in Clients : \A i \in DOMAIN replies[c] :
       replies[c][i].of # <<>> => replies[c][i].of[1][2] <= sent[c]

OrderFacts == SocketInv /\ PiecesInv /\ RepliesInv

\* A client that ended its side left nothing for a task to do.
QuietInv ==
  \A c \in Clients : ended[c] => inbox[c] = <<>> /\ \A k \in Tasks : step[k] \notin Busy

\* None of the tasks of such a client goes astray.
OrderInv == ~strayed /\ QuietInv /\ OrderFacts

\* They hold while nothing was sent.
LEMMA OrderInit == Init => OrderFacts
<1> SUFFICES ASSUME Init PROVE OrderFacts
  OBVIOUS
<1>1. /\ \A k \in Tasks : step[k] = "queued"
      /\ \A c \in Clients : inbox[c] = <<>> /\ replies[c] = <<>>
  BY DEF Init
<1>2. Elements(<<>>) = {} /\ \A c : Piece(c, <<>>)
  BY DEF Elements, Piece
<1>3. SocketInv
  BY <1>1, <1>2 DEF SocketInv
<1>4. PiecesInv
  BY <1>1 DEF PiecesInv, Busy
<1>5. DOMAIN <<>> = {}
  OBVIOUS
<1>6. RepliesInv
  BY <1>1, <1>5 DEF RepliesInv, OwnRepliesInOrder
<1> QED BY <1>3, <1>4, <1>6 DEF OrderFacts

\* Two tasks at work for the same client have files of their own.
LEMMA OwnPieceFiles ==
  ASSUME PartsApart, NEW u, Clients = {u}, PiecesInv, NEW k \in Tasks, NEW l \in Tasks,
         k # l, step[k] \in Busy, step[l] \in Busy
  PROVE  FilesOf(name[k]) \cap FilesOf(name[l]) = {}
<1>1. PICK r \in AllParts : r[2] = sent[r[1]] /\ name[k] = FileName[r]
  BY DEF PiecesInv
<1>2. PICK q \in AllParts : q[2] = sent[q[1]] /\ name[l] = FileName[q]
  BY DEF PiecesInv
<1>3. r[1] = u /\ q[1] = u
  BY PartIs
<1>4. r # q
  BY <1>1, <1>2 DEF PiecesInv
<1> QED BY <1>1, <1>2, <1>3, <1>4 DEF PartsApart

\* A task that goes on leaves these facts alone,
LEMMA OrderSame ==
  ASSUME OrderFacts, UNCHANGED <<sent, inbox, replies, name, buf, parsed, files>>,
         \A k \in Tasks : step'[k] \in Busy => step'[k] = step[k]
  PROVE  OrderFacts'
<1> USE DEF OrderFacts
<1>1. /\ \A r : Answered(r)' <=> Answered(r)
      /\ \A c, s : Piece(c, s)' <=> Piece(c, s)
  BY DEF Answered, Has, Piece
<1>2. SocketInv'
  BY <1>1 DEF SocketInv
<1>3. ASSUME NEW k \in Tasks, step'[k] \in Busy, NEW r, Holds(k, r) PROVE Holds(k, r)'
  BY <1>1, <1>3 DEF Holds
<1>4. PiecesInv'
  BY <1>1, <1>3 DEF PiecesInv
<1>5. RepliesInv'
  BY SMTT(30), ZenonT(40) DEF RepliesInv, OwnRepliesInOrder, Has
<1> QED BY <1>2, <1>4, <1>5

\* as does one that works on its own files and buffer.
LEMMA OrderFile ==
  ASSUME TypeInv, OrderFacts, PartsApart, NEW u, Clients = {u},
         UNCHANGED <<sent, inbox, replies, name>>,
         NEW k \in Tasks, step[k] \in Busy, step'[k] \in Busy,
         Elements(buf'[k]) \subseteq Elements(buf[k]),
         \A l \in Tasks : l # k =>
            step'[l] = step[l] /\ buf'[l] = buf[l] /\ parsed'[l] = parsed[l],
         \A n \in AllNames : n \notin FilesOf(name[k]) => files'[n] = files[n],
         \A r \in AllParts : name[k] = FileName[r] /\ Holds(k, r) => Holds(k, r)'
  PROVE  OrderFacts'
<1> USE DEF OrderFacts
<1>1. /\ \A r : Answered(r)' <=> Answered(r)
      /\ \A c, s : Piece(c, s)' <=> Piece(c, s)
  BY DEF Answered, Has, Piece
<1>2. \A l \in Tasks : Elements(buf'[l]) \subseteq Elements(buf[l])
  OBVIOUS
<1>3. SocketInv'
  BY <1>1, <1>2 DEF SocketInv
<1>4. ASSUME NEW l \in Tasks, l # k, step[l] \in Busy, NEW r, Holds(l, r) PROVE Holds(l, r)'
  <2>1. name[l] \in Names /\ name[l] \in AllNames /\ OutName[name[l]] \in AllNames
    BY <1>4, NamesIn DEF TypeInv, PhaseInv
  <2>2. files'[name[l]] = files[name[l]] /\ files'[OutName[name[l]]] = files[OutName[name[l]]]
    BY <1>4, <2>1, OwnPieceFiles DEF FilesOf
  <2> QED BY <1>1, <1>4, <2>2 DEF Holds
<1>5. PiecesInv'
  <2>1. ASSUME NEW l \in Tasks, step'[l] \in Busy
        PROVE  \E r \in AllParts :
                 /\ r[2] = sent[r[1]] /\ name[l] = FileName[r] /\ Holds(l, r)'
                 /\ ~Answered(r) /\ r \notin Elements(inbox[r[1]])
                 /\ \A m \in Tasks : m # l => r \notin Elements(buf'[m])
    <3>1. step[l] \in Busy
      BY <2>1
    <3>2. PICK r \in AllParts :
            /\ r[2] = sent[r[1]] /\ name[l] = FileName[r] /\ Holds(l, r)
            /\ ~Answered(r) /\ r \notin Elements(inbox[r[1]])
            /\ \A m \in Tasks : m # l => r \notin Elements(buf[m])
      BY <3>1 DEF PiecesInv
    <3>3. Holds(l, r)'
      BY <1>4, <3>1, <3>2
    <3> QED BY <1>2, <3>2, <3>3
  <2>2. \A l, m \in Tasks : step'[l] \in Busy /\ step'[m] \in Busy /\ l # m => name[l] # name[m]
    BY DEF PiecesInv
  <2> QED BY <1>1, <2>1, <2>2 DEF PiecesInv
<1>6. RepliesInv'
  BY SMTT(30), ZenonT(40) DEF RepliesInv, OwnRepliesInOrder, Has
<1> QED BY <1>3, <1>5, <1>6

\* The beginning of a piece, and the rest of it.
LEMMA SplitPiece ==
  ASSUME NEW c, NEW s \in Seq(AllParts), Piece(c, s), sent[c] \in Nat, NEW n \in 1..Len(s)
  PROVE  /\ Piece(c, SubSeq(s, 1, n)) /\ Piece(c, SubSeq(s, n + 1, Len(s)))
         /\ SubSeq(s, 1, n) # <<>> /\ SubSeq(s, 1, n)[1] = s[1] /\ s[1] = Head(s)
         /\ s[1] \in AllParts /\ s[1] \in Elements(s) /\ s[1][1] = c /\ s[1][2] = sent[c]
<1> DEFINE head == SubSeq(s, 1, n)
           rest == SubSeq(s, n + 1, Len(s))
<1>1. Len(s) \in Nat /\ n \in 0..Len(s) /\ n \in Nat /\ 1 <= n /\ 1 \in 1..Len(s)
  OBVIOUS
<1>2. /\ head \in Seq(AllParts) /\ Len(head) = n /\ Len(rest) = Len(s) - n
      /\ \A j \in 1..n : head[j] = s[j]
      /\ \A j \in 1..(Len(s) - n) : rest[j] = s[n + j]
  BY <1>1, SplitSeq
<1>3. s[1] \in AllParts /\ s[1] \in Elements(s) /\ Head(s) = s[1]
  BY <1>1 DEF Elements
<1>4. s[1][3] \in Nat
  BY SMTT(30), ZenonT(40), <1>3, PartIs, ServerAssumption
<1> HIDE DEF head, rest
<1>5. \A j \in 1..Len(s) : s[j] = <<c, sent[c], s[1][3] + j - 1>>
  BY DEF Piece
<1>6. \A j \in 1..n : j \in 1..Len(s)
  BY <1>1
<1>7. Piece(c, head)
  BY <1>1, <1>2, <1>5, <1>6 DEF Piece
<1>8. Piece(c, rest)
  <2>1. ASSUME NEW j \in 1..Len(rest) PROVE rest[j] = <<c, sent[c], rest[1][3] + j - 1>>
    <3>1. /\ j \in 1..(Len(s) - n) /\ 1 \in 1..(Len(s) - n)
          /\ n + j \in 1..Len(s) /\ n + 1 \in 1..Len(s)
      BY <1>1, <1>2
    <3>2. rest[j] = <<c, sent[c], s[1][3] + (n + j) - 1>> /\ rest[1] = s[n + 1]
      BY <1>2, <1>5, <3>1
    <3>3. s[n + 1] = <<c, sent[c], s[1][3] + (n + 1) - 1>>
      BY <1>5, <3>1
    <3>4. rest[1][3] = s[1][3] + (n + 1) - 1
      BY <3>2, <3>3
    <3>5. rest[1][3] + j - 1 = s[1][3] + (n + j) - 1
      <4> DEFINE x == s[1][3]
      <4>1. x \in Nat /\ n \in Nat /\ j \in Nat /\ rest[1][3] = x + (n + 1) - 1
        BY <1>1, <1>4, <3>1, <3>4
      <4> HIDE DEF x
      <4>2. x + (n + 1) - 1 + j - 1 = x + (n + j) - 1
        BY <4>1
      <4> QED BY <4>1, <4>2 DEF x
    <3> QED BY <3>2, <3>5
  <2> QED BY <2>1 DEF Piece
<1>9. head # <<>> /\ head[1] = s[1]
  BY <1>1, <1>2
<1>10. s[1] = <<c, sent[c], s[1][3] + 1 - 1>>
  BY <1>1, <1>5
<1>11. s[1][1] = c /\ s[1][2] = sent[c]
  BY <1>10
<1> QED BY <1>3, <1>7, <1>8, <1>9, <1>11 DEF head, rest

\* No part is twice in a piece.
LEMMA PieceDistinct ==
  ASSUME NEW c, NEW s \in Seq(AllParts), Piece(c, s)
  PROVE  Distinct(s)
<1> SUFFICES ASSUME NEW i \in 1..Len(s), NEW j \in 1..Len(s), s[i] = s[j] PROVE i = j
  BY DEF Distinct
<1>1. s[1] \in AllParts
  OBVIOUS
<1> DEFINE x == s[1][3]
<1>2. x \in Nat
  <2>1. s[1][2] \in 1..MaxRequests /\ x \in 1..Parts[s[1][2]]
    BY <1>1, PartIs
  <2>2. Parts[s[1][2]] \in Nat
    BY <2>1, ServerAssumption
  <2> HIDE DEF x
  <2> QED BY <2>1, <2>2
<1>3. s[i] = <<c, sent[c], x + i - 1>> /\ s[j] = <<c, sent[c], x + j - 1>>
  BY DEF Piece
<1> HIDE DEF x
<1>4. s[i][3] = x + i - 1 /\ s[j][3] = x + j - 1
  <2>1. s[i][3] = x + i - 1
    BY ONLY <1>3
  <2>2. s[j][3] = x + j - 1
    BY ONLY <1>3
  <2> QED BY <2>1, <2>2
<1>5. i \in Nat /\ j \in Nat
  OBVIOUS
<1> QED BY <1>2, <1>4, <1>5

\* When deal_fun returns, at most what it had in its buffer has been answered.
LEMMA OrderReturn ==
  ASSUME TypeInv, OrderFacts, UNCHANGED <<sent, inbox, files>>, NEW k \in Tasks, Return(k),
         RepliesInv', \A r \in AllParts : Answered(r)' => Answered(r) \/ r \in Elements(buf[k])
  PROVE  OrderFacts'
<1> USE DEF OrderFacts
<1>1. /\ \A l \in Tasks : l # k => /\ step'[l] = step[l] /\ name'[l] = name[l]
                                   /\ buf'[l] = buf[l] /\ parsed'[l] = parsed[l]
      /\ step'[k] = "returned" /\ buf'[k] = <<>> /\ Elements(<<>>) = {}
  BY DEF Return, Goto, TypeInv, TypeOK, Elements
<1>2. \A c, s : Piece(c, s)' <=> Piece(c, s)
  BY DEF Piece
<1>3. SocketInv'
  <2>1. ASSUME NEW c \in Clients, NEW r \in Elements(inbox[c])
        PROVE  ~Answered(r)' /\ \A l \in Tasks : r \notin Elements(buf'[l])
    <3>1. r \in AllParts
      BY DEF Elements, TypeInv, TypeOK
    <3>2. ~Answered(r) /\ \A l \in Tasks : r \notin Elements(buf[l])
      BY DEF SocketInv
    <3> QED BY <1>1, <3>1, <3>2
  <2>2. \A c \in Clients : Piece(c, inbox[c])'
    BY <1>2 DEF SocketInv
  <2> QED BY <1>2, <2>1, <2>2 DEF SocketInv
<1>4. ASSUME NEW l \in Tasks, step'[l] \in Busy
      PROVE  /\ l # k /\ step[l] \in Busy
             /\ \E r \in AllParts :
                  /\ r[2] = sent[r[1]] /\ name'[l] = FileName[r] /\ Holds(l, r)'
                  /\ ~Answered(r)' /\ r \notin Elements(inbox[r[1]])
                  /\ \A m \in Tasks : m # l => r \notin Elements(buf'[m])
  <2>1. l # k /\ step[l] \in Busy
    BY <1>1, <1>4 DEF Busy
  <2>2. PICK r \in AllParts :
          /\ r[2] = sent[r[1]] /\ name[l] = FileName[r] /\ Holds(l, r)
          /\ ~Answered(r) /\ r \notin Elements(inbox[r[1]])
          /\ \A m \in Tasks : m # l => r \notin Elements(buf[m])
    BY <2>1 DEF PiecesInv
  <2>3. Holds(l, r)'
    BY <1>1, <1>2, <2>1, <2>2 DEF Holds
  <2>4. ~Answered(r)'
    BY <2>1, <2>2
  <2> QED BY <1>1, <2>1, <2>2, <2>3, <2>4
<1>5. PiecesInv'
  <2>1. \A l, m \in Tasks : step'[l] \in Busy /\ step'[m] \in Busy /\ l # m => name'[l] # name'[m]
    BY <1>1, <1>4 DEF PiecesInv
  <2> QED BY <1>4, <2>1 DEF PiecesInv
<1> QED BY <1>3, <1>5

\* The parser of a task reads its whole text once, or nothing of a file that is in place.
LEMMA ReadsText ==
  ASSUME TypeInv, NEW k \in Tasks, step[k] = "parse", NEW r, Holds(k, r)
  PROVE  /\ Unread(k) = <<>> \/ Unread(k) = buf[k]
         /\ Unread(k) = <<>> <=> InPlace(name[k]) \/ parsed[k] = buf[k]
         /\ Unread(k) # <<>> => parsed[k] = <<>>
<1> DEFINE b == buf[k]
<1>1. b \in Seq(AllParts) /\ Len(b) \in Nat /\ b # <<>>
  BY DEF TypeInv, TypeOK, Holds
<1> HIDE DEF b
<1>2. SubSeq(<<>>, 0 + 1, 0) = <<>>
  BY SubSeqEmpty
<1>3. SubSeq(b, Len(b) + 1, Len(b)) = <<>>
  BY <1>1, SubSeqEmpty
<1>4. SubSeq(b, 0 + 1, Len(b)) = b
  BY <1>1
<1>5. Len(<<>>) = 0
  OBVIOUS
<1>6. CASE InPlace(name[k])
  BY <1>2, <1>5, <1>6 DEF Unread, Holds
<1>7. CASE ~InPlace(name[k]) /\ parsed[k] = <<>>
  BY <1>1, <1>4, <1>5, <1>7 DEF Unread, Holds, b
<1>8. CASE ~InPlace(name[k]) /\ parsed[k] = buf[k]
  BY <1>3, <1>8 DEF Unread, Holds, b
<1> QED BY <1>6, <1>7, <1>8 DEF Holds

\* A client who waits goes on only when every part is answered, and so no task is at work.
LEMMA AllAnswered ==
  ASSUME NEW u, Clients = {u}, Patient, TypeInv, OrderFacts, MaySend(u)
  PROVE  /\ inbox[u] = <<>>
         /\ \A k \in Tasks : step[k] \notin Busy
         /\ \A r \in AllParts : r[2] <= sent[u] => Answered(r)
<1>1. sent[u] \in 0..MaxRequests /\ inbox[u] \in Seq(AllParts)
  BY DEF TypeInv, TypeOK
<1>2. ASSUME NEW r \in AllParts, r[2] <= sent[u] PROVE Answered(r)
  <2>1. r = <<u, r[2], r[3]>> /\ r[2] \in 1..sent[u] /\ r[3] \in 1..Parts[r[2]]
    BY <1>1, <1>2, PartIs
  <2>2. \A n \in 1..sent[u] : \A i \in 1..Parts[n] : Answered(<<u, n, i>>)
    BY DEF MaySend
  <2> QED BY <2>1, <2>2
<1>3. inbox[u] = <<>>
  <2> SUFFICES ASSUME inbox[u] # <<>> PROVE FALSE
    OBVIOUS
  <2>1. /\ inbox[u][1] \in AllParts /\ inbox[u][1] \in Elements(inbox[u])
        /\ inbox[u][1][2] = sent[u]
    <3>1. 1 \in 1..Len(inbox[u])
      BY <1>1
    <3>2. Piece(u, inbox[u])
      BY DEF OrderFacts, SocketInv
    <3> QED BY <1>1, <3>1, <3>2, SplitPiece
  <2> QED BY <1>1, <1>2, <2>1 DEF OrderFacts, SocketInv
<1>4. ASSUME NEW k \in Tasks, step[k] \in Busy PROVE FALSE
  <2>1. PICK r \in AllParts : r[2] = sent[r[1]] /\ ~Answered(r)
    BY <1>4 DEF OrderFacts, PiecesInv
  <2>2. r[1] = u
    BY PartIs
  <2> QED BY <1>1, <1>2, <2>1, <2>2
<1> QED BY <1>2, <1>3, <1>4

\* What leads a task astray is a slot that names a file.
LEMMA StrayStep ==
  ASSUME TypeInv, ~strayed, [Next]_vars, strayed'
  PROVE  IsFile(rfd) /\ \E k \in Tasks : step[k] # "queued"
<1>1. ASSUME NEW c \in Clients, Connect(c) \/ Send(c) \/ Shutdown(c) PROVE FALSE
  BY <1>1 DEF Connect, Send, Shutdown, fdVars
<1>2. CASE Main
  BY <1>2 DEF Main, EpollWait, Accept, AcceptFails, DataToRead, AddTask, LastEvent, fdVars
<1>3. CASE RunTask
  BY <1>3 DEF RunTask, fdVars
<1>4. ASSUME NEW k \in Tasks, deal_fun(k) PROVE IsFile(rfd) /\ step[k] # "queued"
  <2>1. CASE ReadFile(k) \/ Close(k) \/ Write(k)
    BY <2>1 DEF ReadFile, ReadsFile, Close, Write, Strays, At, CanRead, CanWrite, IsFile
  <2>2. CASE Read(k) \/ ReadFails(k) \/ ReadData(k) \/ ReadEnd(k) \/ Clear(k)
    BY <2>2 DEF Read, ReadFails, ReadData, ReadEnd, Clear, fdVars
  <2>3. CASE Create(k) \/ Save(k) \/ Open(k) \/ GetLines(k) \/ CloseStreams(k) \/ ReadBack(k)
    BY <2>3 DEF Create, Save, Open, GetLines, CloseStreams, ReadBack
  <2> QED BY <1>4, <2>1, <2>2, <2>3 DEF deal_fun
<1>5. CASE UNCHANGED vars
  BY <1>5 DEF vars, fdVars
<1> QED BY <1>1, <1>2, <1>3, <1>4, <1>5 DEF Next

\* No task of a client on its own that waits goes astray: until the end the slot names its
\* connection, and after that no file is open.
LEMMA NoneStrays ==
  ASSUME NEW u, Clients = {u}, TypeInv, StreamsInv, SlotInv, QuietInv, ~strayed, [Next]_vars
  PROVE  ~strayed'
<1> SUFFICES ASSUME strayed' PROVE FALSE
  OBVIOUS
<1>1. IsFile(rfd) /\ \E k \in Tasks : step[k] # "queued"
  BY StrayStep
<1>2. CASE AnyEnded
  <2>1. \A k \in Tasks : step[k] \notin Busy
    BY <1>2 DEF AnyEnded, QuietInv
  <2>2. \A k \in Tasks : Held(k) = {}
    BY <2>1 DEF StreamsInv, Own, Held, Busy
  <2> QED BY <1>1, <2>2 DEF StreamsInv, HeldInv, IsFile
<1>3. CASE ~AnyEnded
  <2>1. Valid(rfd)
    BY <1>1, <1>3, RunsLater DEF SlotInv
  <2> QED BY <1>1, <2>1 DEF StreamsInv, FilesInv, IsFile, Valid
<1> QED BY <1>2, <1>3

\* Every action of such a client and of its tasks keeps what the tasks hold,
LEMMA OrderNext ==
  ASSUME NEW u, Clients = {u}, Patient, PartsApart, TypeInv, StreamsInv, ~strayed, ~strayed',
         OrderFacts, [Next]_vars
  PROVE  OrderFacts'
<1>s. FilesInv /\ \A k \in Tasks : Own(k)
  BY DEF StreamsInv
<1> USE DEF TypeInv, TypeOK, Busy, At, Goto, Tasks, clientVars, localVars, taskVars
<1>1. ASSUME NEW c \in Clients, Connect(c) PROVE OrderFacts'
  BY <1>1, OrderSame DEF Connect
<1>2. ASSUME NEW c \in Clients, Send(c) PROVE OrderFacts'
  <2> DEFINE new == Request(c, sent[c] + 1)
  <2>1. /\ c = u /\ sent[c] + 1 \in 1..MaxRequests /\ sent[c] \in Nat
        /\ sent' = [sent EXCEPT ![c] = sent[c] + 1]
        /\ inbox' = [inbox EXCEPT ![c] = inbox[c] \o Request(c, sent'[c])]
        /\ UNCHANGED <<replies, name, buf, parsed, files, step>>
        /\ inbox[c] \in Seq(AllParts)
    BY <1>2, ServerAssumption DEF Send
  <2>2. MaySend(u)
    BY <1>2, <2>1 DEF Send
  <2>r. /\ new \in Seq(AllParts) /\ Len(new) = Parts[sent[c] + 1]
        /\ \A j \in 1..Parts[sent[c] + 1] : new[j] = <<c, sent[c] + 1, j>>
    BY <2>1, RequestIs
  <2>3. inbox[c] = <<>> /\ \A k \in Tasks : step[k] \notin Busy
    <3> HIDE DEF TypeInv, Tasks, Busy
    <3> QED BY <2>1, <2>2, AllAnswered
  <2>5. \A k \in Tasks : buf[k] = <<>>
    BY <2>3 DEF PhaseInv
  <2>6. inbox'[c] = new /\ sent'[c] = sent[c] + 1
    <3>1. sent'[c] = sent[c] + 1
      BY <2>1
    <3>2. inbox'[c] = inbox[c] \o new
      BY <2>1, <3>1
    <3> QED BY <2>3, <2>r, <3>1, <3>2, ConcatEmptySeq
  <2> HIDE DEF new, TypeInv, TypeOK
  <2>7. Piece(c, inbox[c])'
    <3>1. ASSUME NEW j \in 1..Len(new) PROVE new[j] = <<c, sent[c] + 1, new[1][3] + j - 1>>
      <4>1. Parts[sent[c] + 1] \in Nat \ {0}
        BY <2>1, ServerAssumption
      <4>2. 1 \in 1..Parts[sent[c] + 1] /\ j \in Nat
        BY <4>1
      <4>3. new[1][3] = 1
        BY <2>r, <4>2
      <4>4. 1 + j - 1 = j
        BY <4>2
      <4> QED BY <2>r, <4>3, <4>4
    <3> QED BY <2>6, <3>1 DEF Piece
  <2>8. ASSUME NEW r \in Elements(new) PROVE ~Answered(r)
    <3>1. r[1] = c /\ r[2] = sent[c] + 1
      BY <2>r DEF Elements
    <3> SUFFICES ASSUME NEW i \in DOMAIN replies[c], NEW j \in DOMAIN replies[c][i].of,
                        replies[c][i].of[j] = r
                 PROVE  FALSE
      BY <3>1 DEF Answered, Has
    <3> DEFINE of == replies[c][i].of
    <3>2. of \in Seq(AllParts) /\ of # <<>>
      <4>1. replies[c] \in Seq([name : AllNames \cup {None}, of : Seq(AllParts)])
        BY DEF TypeInv, TypeOK
      <4>2. replies[c][i] \in [name : AllNames \cup {None}, of : Seq(AllParts)]
        BY <4>1, SeqEntry
      <4> QED BY <4>2
    <3>3. of[j] = <<c, of[1][2], of[1][3] + j - 1>> /\ of[1][2] <= sent[c]
      <4> HIDE DEF Tasks, Busy
      <4> QED BY <3>2 DEF OrderFacts, RepliesInv, OwnRepliesInOrder
    <3>4. r[2] = of[1][2]
      BY SMTT(30), ZenonT(40), <3>3
    <3> QED BY <2>1, <3>1, <3>3, <3>4
  <2>9. SocketInv'
    <3>1. ASSUME NEW r \in Elements(new)
          PROVE  ~Answered(r)' /\ \A k \in Tasks : r \notin Elements(buf[k])
      <4>1. Answered(r)' <=> Answered(r)
        BY <2>1 DEF Answered, Has
      <4> QED BY <2>5, <2>8, <4>1 DEF Elements
    <3>2. Clients = {c}
      BY <2>1
    <3> QED BY <2>1, <2>6, <2>7, <3>1, <3>2 DEF SocketInv
  <2>10. PiecesInv'
    <3> HIDE DEF Busy
    <3> QED BY <2>1, <2>3 DEF PiecesInv
  <2>11. RepliesInv'
    <3>1. ASSUME NEW i \in DOMAIN replies[c], replies[c][i].of # <<>>
          PROVE  replies[c][i].of[1][2] <= sent'[c]
      <4>1. replies[c][i].of \in Seq(AllParts)
        <5>1. replies[c] \in Seq([name : AllNames \cup {None}, of : Seq(AllParts)])
          BY DEF TypeInv, TypeOK
        <5>2. replies[c][i] \in [name : AllNames \cup {None}, of : Seq(AllParts)]
          BY <5>1, SeqEntry
        <5> QED BY <5>2
      <4>2. replies[c][i].of[1] \in AllParts
        BY <3>1, <4>1
      <4>3. replies[c][i].of[1][2] \in Nat
        BY <4>2, PartIs
      <4> QED BY <2>1, <2>6, <3>1, <4>3 DEF OrderFacts, RepliesInv
    <3>2. Clients = {c}
      BY <2>1
    <3>3. OwnRepliesInOrder'
      BY SMTT(30), ZenonT(40), <2>1 DEF OrderFacts, RepliesInv, OwnRepliesInOrder
    <3> QED BY <2>1, <3>1, <3>2, <3>3 DEF RepliesInv
  <2> QED BY <2>9, <2>10, <2>11 DEF OrderFacts
<1>3. ASSUME NEW c \in Clients, Shutdown(c) PROVE OrderFacts'
  BY <1>3, OrderSame DEF Shutdown
<1>4. CASE EpollWait
  BY <1>4, OrderSame DEF EpollWait
<1>5. CASE Accept
  BY <1>5, OrderSame DEF Accept
<1>6. CASE AcceptFails
  BY <1>6, OrderSame DEF AcceptFails
<1>7. CASE DataToRead
  BY <1>7, OrderSame DEF DataToRead
<1>8. CASE AddTask
  BY <1>8, OrderSame DEF AddTask
<1>9. CASE LastEvent
  BY <1>9, OrderSame DEF LastEvent
<1>10. CASE RunTask
  <2>1. queue # <<>> /\ queue \in Seq(Tasks)
    BY <1>10 DEF RunTask, Start, ServiceOK
  <2>2. Head(queue) \in Tasks
    BY <2>1, HeadTailProperties
  <2> QED BY <1>10, <2>2, OrderSame DEF RunTask
<1>11. ASSUME NEW k \in Tasks, Read(k) PROVE OrderFacts'
  BY <1>11, OrderSame DEF Read
<1>12. ASSUME NEW k \in Tasks, ReadFails(k) PROVE OrderFacts'
  BY <1>12, OrderSame DEF ReadFails
<1>13. ASSUME NEW k \in Tasks, ReadData(k) PROVE OrderFacts'
  <2> DEFINE s == inbox[u]
  <2>1. /\ step[k] = "reading" /\ conn[k] = u
    BY <1>13 DEF ReadData, PhaseInv
  <2>2. PICK n \in 1..Len(s) :
          /\ buf' = [buf EXCEPT ![k] = SubSeq(s, 1, n)]
          /\ name' = [name EXCEPT ![k] = FileName[Head(s)]]
          /\ inbox' = [inbox EXCEPT ![u] = SubSeq(s, n + 1, Len(s))]
    BY <1>13, <2>1 DEF ReadData
  <2> DEFINE head == SubSeq(s, 1, n)
             rest == SubSeq(s, n + 1, Len(s))
             h == s[1]
  <2>3. s \in Seq(AllParts) /\ Piece(u, s) /\ sent[u] \in Nat /\ n \in 0..Len(s)
    BY DEF OrderFacts, SocketInv
  <2>4. /\ Piece(u, head) /\ Piece(u, rest) /\ head # <<>> /\ head[1] = h /\ Head(s) = h
        /\ h \in AllParts /\ h \in Elements(s) /\ h[1] = u /\ h[2] = sent[u]
    <3> HIDE DEF s, TypeInv, TypeOK
    <3> QED BY SMTT(30), ZenonT(40), <2>3, SplitPiece
  <2>5. /\ Elements(head) \cup Elements(rest) \subseteq Elements(s)
        /\ Elements(head) \cap Elements(rest) = {}
    BY <2>3, PieceDistinct, SplitElements
  <2>6. h \in Elements(head)
    <3>1. Len(head) = n
      BY <2>3, SplitSeq
    <3> QED BY <2>3, <2>4, <3>1 DEF Elements
  <2>7. /\ name'[k] = FileName[h] /\ \A l \in Tasks : l # k => name'[l] = name[l]
    <3>1. name' = [name EXCEPT ![k] = FileName[h]]
      BY <2>2, <2>4
    <3> QED BY <3>1
  <2>8. buf'[k] = head /\ \A l \in Tasks : l # k => buf'[l] = buf[l]
    BY <2>2
  <2>9. inbox'[u] = rest
    BY <2>2
  <2>10. /\ step' = [step EXCEPT ![k] = "create"]
         /\ UNCHANGED <<sent, replies, parsed, files>>
    BY <1>13 DEF ReadData
  <2>11. step'[k] = "create" /\ \A l \in Tasks : l # k => step'[l] = step[l]
    BY <2>10
  <2> HIDE DEF s, head, rest, h, TypeInv, TypeOK, Tasks
  <2>12. \A r : Answered(r)' <=> Answered(r)
    BY <2>10 DEF Answered, Has
  <2>13. \A r \in Elements(s) : ~Answered(r) /\ \A l \in Tasks : r \notin Elements(buf[l])
    BY DEF OrderFacts, SocketInv, s
  <2>14. \A t : Piece(u, t)' <=> Piece(u, t)
    BY <2>10 DEF Piece
  <2>15. SocketInv'
    <3>1. ASSUME NEW r \in Elements(rest)
          PROVE  ~Answered(r) /\ \A l \in Tasks : r \notin Elements(buf'[l])
      BY <2>5, <2>8, <2>13
    <3>2. Piece(u, inbox[u])'
      BY <2>4, <2>9, <2>10 DEF Piece
    <3> QED BY <2>9, <2>12, <3>1, <3>2 DEF SocketInv
  <2> PICK q \in AllParts : q = h
    BY <2>4
  <2>16. Holds(k, q)'
    <3>1. Piece(u, buf[k])'
      BY <2>4, <2>8, <2>10 DEF Piece
    <3>2. Piece(q[1], buf[k])'
      BY <2>4, <3>1 DEF Piece
    <3>3. buf'[k] # <<>> /\ buf'[k][1] = q
      BY <2>4, <2>8
    <3> QED BY <2>11, <3>2, <3>3 DEF Holds
  <2>17. ASSUME NEW l \in Tasks, l # k, step[l] \in Busy
         PROVE  /\ name[l] # FileName[h]
                /\ \E r \in AllParts :
                     /\ r[2] = sent[r[1]] /\ name[l] = FileName[r] /\ Holds(l, r)'
                     /\ ~Answered(r) /\ r \notin Elements(inbox'[r[1]])
                     /\ \A m \in Tasks : m # l => r \notin Elements(buf'[m])
    <3>1. PICK p \in AllParts :
            /\ p[2] = sent[p[1]] /\ name[l] = FileName[p] /\ Holds(l, p)
            /\ ~Answered(p) /\ p \notin Elements(inbox[p[1]])
            /\ \A m \in Tasks : m # l => p \notin Elements(buf[m])
      <4> HIDE DEF Busy
      <4> QED BY <2>17 DEF OrderFacts, PiecesInv
    <3>2. p[1] = u /\ p # h /\ p \notin Elements(s)
      BY <2>4, <3>1, PartIs DEF s
    <3>3. name[l] # FileName[h]
      BY SMTT(30), ZenonT(40), <2>4, <3>1, <3>2 DEF PartsApart, FilesOf
    <3>4. Holds(l, p)'
      BY <2>7, <2>8, <2>10, <2>11, <2>17, <3>1 DEF Holds, Piece
    <3>5. /\ p \notin Elements(inbox'[p[1]])
          /\ \A m \in Tasks : m # l => p \notin Elements(buf'[m])
      BY <2>5, <2>8, <2>9, <3>1, <3>2
    <3>6. \E r \in AllParts :
            /\ r[2] = sent[r[1]] /\ name[l] = FileName[r] /\ Holds(l, r)'
            /\ ~Answered(r) /\ r \notin Elements(inbox'[r[1]])
            /\ \A m \in Tasks : m # l => r \notin Elements(buf'[m])
      BY <3>1, <3>4, <3>5
    <3> QED BY <3>3, <3>6
  <2>18. PiecesInv'
    <3>1. ASSUME NEW l \in Tasks, step'[l] \in Busy
          PROVE  \E r \in AllParts :
                   /\ r[2] = sent[r[1]] /\ name'[l] = FileName[r] /\ Holds(l, r)'
                   /\ ~Answered(r) /\ r \notin Elements(inbox'[r[1]])
                   /\ \A m \in Tasks : m # l => r \notin Elements(buf'[m])
      <4> HIDE DEF Busy
      <4>1. CASE l = k
        <5>1. ~Answered(h) /\ h \notin Elements(inbox'[h[1]])
          BY <2>4, <2>5, <2>6, <2>9, <2>13
        <5>2. \A m \in Tasks : m # k => h \notin Elements(buf'[m])
          BY <2>4, <2>8, <2>13
        <5>3. \E r \in AllParts :
                /\ r[2] = sent[r[1]] /\ name'[k] = FileName[r] /\ Holds(k, r)'
                /\ ~Answered(r) /\ r \notin Elements(inbox'[r[1]])
                /\ \A m \in Tasks : m # k => r \notin Elements(buf'[m])
          BY <2>4, <2>7, <2>16, <5>1, <5>2
        <5> QED BY <4>1, <5>3 DEF Holds, Piece
      <4>2. CASE l # k
        BY <2>7, <2>11, <2>17, <3>1, <4>2
      <4> QED BY <4>1, <4>2
    <3>2. ASSUME NEW l \in Tasks, NEW m \in Tasks, step'[l] \in Busy, step'[m] \in Busy, l # m
          PROVE  name'[l] # name'[m]
      <4> HIDE DEF Busy
      <4>1. CASE l # k /\ m # k
        BY <2>7, <2>11, <3>2, <4>1 DEF OrderFacts, PiecesInv
      <4>2. CASE l = k \/ m = k
        BY <2>7, <2>11, <2>17, <3>2, <4>2
      <4> QED BY <4>1, <4>2
    <3> HIDE DEF Busy
    <3> QED BY <2>10, <2>12, <3>1, <3>2 DEF PiecesInv
  <2>19. RepliesInv'
    BY SMTT(30), ZenonT(40), <2>10 DEF OrderFacts, RepliesInv, OwnRepliesInOrder
  <2> QED BY <2>15, <2>18, <2>19 DEF OrderFacts
<1>14. ASSUME NEW k \in Tasks, ReadEnd(k) PROVE OrderFacts'
  BY <1>14, OrderSame DEF ReadEnd
<1>15. ASSUME NEW k \in Tasks, Close(k) PROVE OrderFacts'
  BY <1>15, OrderSame DEF Close
<1>16. ASSUME NEW k \in Tasks, Clear(k) PROVE OrderFacts'
  <2>1. Return(k) /\ UNCHANGED <<sent, inbox, replies, files>>
    BY <1>16 DEF Clear
  <2> HIDE DEF TypeInv, TypeOK, Tasks, Busy
  <2>2. RepliesInv'
    BY SMTT(30), ZenonT(40), <2>1 DEF OrderFacts, RepliesInv, OwnRepliesInOrder
  <2>3. \A r : Answered(r)' <=> Answered(r)
    BY <2>1 DEF Answered, Has
  <2> QED BY <2>1, <2>2, <2>3, OrderReturn
<1>17. ASSUME NEW k \in Tasks, Create(k) PROVE OrderFacts'
  <2>1. /\ files' = [files EXCEPT ![name[k]] = <<>>] /\ step' = [step EXCEPT ![k] = "save"]
        /\ UNCHANGED <<sent, inbox, replies, name, buf, parsed>>
        /\ step[k] = "create" /\ name[k] \in AllNames
    BY <1>17, NamesIn DEF Create, Truncate, PhaseInv
  <2>2. /\ step'[k] = "save" /\ files'[name[k]] = <<>>
        /\ \A n \in AllNames : n \notin FilesOf(name[k]) => files'[n] = files[n]
        /\ \A l \in Tasks : l # k => step'[l] = step[l]
    BY <2>1 DEF FilesOf
  <2> HIDE DEF TypeInv, TypeOK, Tasks
  <2>3. ASSUME NEW r \in AllParts, Holds(k, r) PROVE Holds(k, r)'
    BY <2>1, <2>2, <2>3 DEF Holds, Piece
  <2> QED BY <2>1, <2>2, <2>3, OrderFile
<1>18. ASSUME NEW k \in Tasks, Save(k) PROVE OrderFacts'
  <2> DEFINE v == Overwrite(files[name[k]], 0, buf[k])
  <2>1. /\ files' = [files EXCEPT ![name[k]] = v] /\ step' = [step EXCEPT ![k] = "open"]
        /\ UNCHANGED <<sent, inbox, replies, name, buf, parsed>>
        /\ step[k] = "save" /\ name[k] \in AllNames
        /\ files[name[k]] \in Seq(AllParts) /\ buf[k] \in Seq(AllParts)
    <3>1. UNCHANGED replies /\ files' = [files EXCEPT ![name[k]] = v]
      BY <1>18, <1>s, SaveIs
    <3> HIDE DEF v
    <3> QED BY <1>18, <3>1, NamesIn DEF Save, PhaseInv
  <2>2. files[name[k]] = <<>> => v = buf[k]
    BY <2>1, OverwriteIs
  <2> HIDE DEF v
  <2>3. /\ step'[k] = "open" /\ files'[name[k]] = v
        /\ \A n \in AllNames : n \notin FilesOf(name[k]) => files'[n] = files[n]
        /\ \A l \in Tasks : l # k => step'[l] = step[l]
    BY <2>1 DEF FilesOf
  <2> HIDE DEF TypeInv, TypeOK, Tasks
  <2>4. ASSUME NEW r \in AllParts, Holds(k, r) PROVE Holds(k, r)'
    BY <2>1, <2>2, <2>3, <2>4 DEF Holds, Piece
  <2> QED BY <2>1, <2>3, <2>4, OrderFile
<1>19. ASSUME NEW k \in Tasks, Open(k) PROVE OrderFacts'
  <2> DEFINE h == OutName[name[k]]
  <2>1. /\ files' = [files EXCEPT ![h] = <<>>] /\ step' = [step EXCEPT ![k] = "parse"]
        /\ UNCHANGED <<sent, inbox, replies, name, buf, parsed>>
        /\ step[k] = "open" /\ name[k] \in AllNames /\ h \in AllNames /\ parsed[k] = <<>>
    BY <1>19, NamesIn DEF Open, Truncate, OutFile, PhaseInv
  <2>2. /\ step'[k] = "parse" /\ files'[h] = <<>>
        /\ name[k] # h => files'[name[k]] = files[name[k]]
        /\ \A n \in AllNames : n \notin FilesOf(name[k]) => files'[n] = files[n]
        /\ \A l \in Tasks : l # k => step'[l] = step[l]
    BY <2>1 DEF FilesOf
  <2> HIDE DEF TypeInv, TypeOK, Tasks
  <2>3. ASSUME NEW r \in AllParts, Holds(k, r) PROVE Holds(k, r)'
    BY <2>1, <2>2, <2>3 DEF Holds, Piece, InPlace
  <2> QED BY <2>1, <2>2, <2>3, OrderFile
<1>20. ASSUME NEW k \in Tasks, GetLines(k) PROVE OrderFacts'
  <2>1. /\ parsed' = [parsed EXCEPT ![k] = parsed[k] \o Unread(k)] /\ Unread(k) # <<>>
        /\ UNCHANGED <<sent, inbox, replies, name, buf, files, step>>
        /\ step[k] = "parse" /\ buf[k] \in Seq(AllParts)
    <3>1. /\ inbox' = inbox /\ Unread(k) # <<>>
          /\ parsed' = [parsed EXCEPT ![k] = parsed[k] \o Unread(k)]
      BY <1>20, <1>s, GetLinesIs
    <3> QED BY <1>20, <3>1 DEF GetLines
  <2>2. /\ parsed'[k] = parsed[k] \o Unread(k)
        /\ \A l \in Tasks : l # k => parsed'[l] = parsed[l]
    BY <2>1
  <2> HIDE DEF TypeInv, TypeOK, Tasks
  <2>3. ASSUME NEW r \in AllParts, Holds(k, r) PROVE Holds(k, r)'
    <3>1. parsed[k] = <<>> /\ Unread(k) = buf[k] /\ ~InPlace(name[k])
      BY <2>1, <2>3, ReadsText
    <3>2. parsed'[k] = buf[k]
      BY <2>1, <2>2, <3>1, ConcatEmptySeq
    <3> QED BY <2>1, <2>3, <3>1, <3>2 DEF Holds, Piece
  <2> QED BY <2>1, <2>2, <2>3, OrderFile
<1>21. ASSUME NEW k \in Tasks, CloseStreams(k) PROVE OrderFacts'
  <2> DEFINE h == OutName[name[k]]
             v == Overwrite(files[h], 0, parsed[k])
  <2>1. /\ files' = [files EXCEPT ![h] = v] /\ step' = [step EXCEPT ![k] = "readback"]
        /\ UNCHANGED <<sent, inbox, replies, name, buf, parsed>>
        /\ step[k] = "parse" /\ h \in AllNames /\ Unread(k) = <<>>
        /\ files[h] \in Seq(AllParts) /\ parsed[k] \in Seq(AllParts)
    <3>1. UNCHANGED replies /\ Unread(k) = <<>> /\ files' = [files EXCEPT ![h] = v]
      BY <1>21, <1>s, CloseStreamsIs
    <3> HIDE DEF v
    <3> QED BY <1>21, <3>1, NamesIn DEF CloseStreams, PhaseInv
  <2>2. files[h] = <<>> => v = parsed[k]
    BY <2>1, OverwriteIs
  <2> HIDE DEF v
  <2>3. /\ step'[k] = "readback" /\ files'[h] = v
        /\ \A n \in AllNames : n \notin FilesOf(name[k]) => files'[n] = files[n]
        /\ \A l \in Tasks : l # k => step'[l] = step[l]
    BY <2>1 DEF FilesOf
  <2> HIDE DEF TypeInv, TypeOK, Tasks
  <2>4. ASSUME NEW r \in AllParts, Holds(k, r) PROVE Holds(k, r)'
    <3>1. InPlace(name[k]) \/ parsed[k] = buf[k]
      BY <2>1, <2>4, ReadsText
    <3> QED BY <2>1, <2>2, <2>3, <2>4, <3>1 DEF Holds, Piece, InPlace
  <2> QED BY <2>1, <2>3, <2>4, OrderFile
<1>22. ASSUME NEW k \in Tasks, ReadBack(k) PROVE OrderFacts'
  <2> DEFINE h == files[OutName[name[k]]]
  <2>1. /\ buf' = [buf EXCEPT ![k] = h] /\ step' = [step EXCEPT ![k] = "write"]
        /\ UNCHANGED <<sent, inbox, replies, name, parsed, files>> /\ step[k] = "readback"
    BY <1>22 DEF ReadBack, OutFile
  <2> HIDE DEF h
  <2>2. /\ step'[k] = "write" /\ buf'[k] = h
        /\ \A l \in Tasks : l # k => step'[l] = step[l] /\ buf'[l] = buf[l]
    BY <2>1
  <2> HIDE DEF TypeInv, TypeOK, Tasks
  <2>3. ASSUME NEW r \in AllParts, Holds(k, r)
        PROVE  Holds(k, r)' /\ Elements(buf'[k]) \subseteq Elements(buf[k])
    <3>1. h = IF InPlace(name[k]) THEN <<>> ELSE buf[k]
      BY <2>1, <2>3 DEF Holds, h
    <3>2. Elements(<<>>) = {} /\ Piece(r[1], <<>>)'
      BY DEF Elements, Piece
    <3>4. CASE InPlace(name[k])
      BY <2>1, <2>2, <3>1, <3>2, <3>4 DEF Holds, Piece
    <3>5. CASE ~InPlace(name[k])
      BY <2>1, <2>2, <2>3, <3>1, <3>5 DEF Holds, Piece
    <3> QED BY <3>4, <3>5
  <2>4. Elements(buf'[k]) \subseteq Elements(buf[k])
    BY <2>1, <2>3 DEF OrderFacts, PiecesInv
  <2> QED BY <2>1, <2>2, <2>3, <2>4, OrderFile
<1>23. ASSUME NEW k \in Tasks, Write(k) PROVE OrderFacts'
  <2>1. /\ Return(k) /\ UNCHANGED <<sent, inbox, files>> /\ step[k] = "write"
        /\ buf[k] \in Seq(AllParts) /\ name[k] \in Names
        /\ replies[u] \in Seq([name : AllNames \cup {None}, of : Seq(AllParts)])
    <3>1. UNCHANGED files
      BY <1>23, <1>s, WriteIs
    <3> QED BY <1>23, <3>1 DEF Write, PhaseInv
  <2>2. CASE UNCHANGED replies
    <3> HIDE DEF TypeInv, TypeOK, Tasks, Busy
    <3>1. RepliesInv'
      BY SMTT(30), ZenonT(40), <2>1, <2>2 DEF OrderFacts, RepliesInv, OwnRepliesInOrder
    <3>2. \A r : Answered(r)' <=> Answered(r)
      BY <2>2 DEF Answered, Has
    <3> QED BY <2>1, <3>1, <3>2, OrderReturn
  <2>3. CASE replies' = [replies EXCEPT ![u] = Append(replies[u], Reply(k))]
    <3> DEFINE s == replies[u]
               t == Append(s, Reply(k))
    <3>1. Reply(k) \in [name : AllNames \cup {None}, of : Seq(AllParts)]
      BY <2>1, NamesIn DEF Reply, OutFile
    <3>2. /\ Len(t) = Len(s) + 1 /\ Len(s) \in Nat /\ DOMAIN t = 1..(Len(s) + 1)
          /\ DOMAIN s = 1..Len(s)
          /\ \A i \in 1..Len(s) : t[i] = s[i]
          /\ t[Len(s) + 1] = Reply(k)
      BY <2>1, <3>1, AppendProperties
    <3>3. replies'[u] = t
      BY <2>3
    <3> HIDE DEF s, t, TypeInv, TypeOK, Tasks, Busy
    <3>4. \A i \in DOMAIN t : \/ i \in DOMAIN s /\ t[i] = s[i]
                              \/ i = Len(s) + 1 /\ t[i] = Reply(k)
      BY <3>2
    <3>5. ASSUME NEW r \in AllParts, Answered(r)' PROVE Answered(r) \/ r \in Elements(buf[k])
      <4>1. r[1] = u
        BY PartIs
      <4>2. PICK i \in DOMAIN t : Has(t[i], r)
        BY <3>3, <3>5, <4>1 DEF Answered, Has
      <4>3. CASE i \in DOMAIN s /\ t[i] = s[i]
        BY <4>1, <4>2, <4>3 DEF Answered, s
      <4>4. CASE t[i] = Reply(k)
        BY <2>1, <4>2, <4>4, ReplyHas
      <4> QED BY <3>4, <4>3, <4>4
    <3>6. /\ Piece(u, buf[k])
          /\ IF buf[k] = <<>> THEN InPlace(name[k]) ELSE name[k] = FileName[buf[k][1]]
      <4>1. step[k] \in Busy
        BY <2>1 DEF Busy
      <4>2. PICK r \in AllParts : name[k] = FileName[r] /\ Holds(k, r)
        BY <4>1 DEF OrderFacts, PiecesInv
      <4>3. r[1] = u
        BY PartIs
      <4> QED BY <4>2, <4>3 DEF Holds
    <3>7. buf[k] # <<>> => buf[k][1][2] = sent[u]
      <4> SUFFICES ASSUME buf[k] # <<>> PROVE buf[k][1][2] = sent[u]
        OBVIOUS
      <4>1. 1 \in 1..Len(buf[k]) /\ sent[u] \in Nat
        BY <2>1 DEF TypeInv, TypeOK
      <4> QED BY <2>1, <3>6, <4>1, SplitPiece
    <3>8. ASSUME NEW i \in DOMAIN t, t[i].of # <<>> PROVE t[i].of[1][2] <= sent[u]
      <4>1. CASE i \in DOMAIN s /\ t[i] = s[i]
        BY <3>8, <4>1 DEF OrderFacts, RepliesInv, s
      <4>2. CASE t[i] = Reply(k)
        <5>1. sent[u] \in Nat
          BY DEF TypeInv, TypeOK
        <5> QED BY <3>7, <3>8, <4>2, <5>1 DEF Reply
      <4> QED BY <3>4, <4>1, <4>2
    <3> DEFINE Good(i) == LET of == t[i].of IN
                 \/ of = <<>> /\ InPlace(t[i].name)
                 \/ /\ of # <<>>
                    /\ t[i].name = OutName[FileName[of[1]]]
                    /\ \A j \in DOMAIN of : of[j] = <<u, of[1][2], of[1][3] + j - 1>>
                    /\ \A h \in 1..(i - 1) : t[h].of # <<>> => t[h].of[1][2] <= of[1][2]
    <3>9. ASSUME NEW i \in DOMAIN t PROVE Good(i)
      <4>1. CASE i \in DOMAIN s /\ t[i] = s[i]
        <5>1. \A h \in 1..(i - 1) : t[h] = s[h]
          BY <3>2, <4>1
        <5> QED BY SMTT(30), ZenonT(40), <4>1, <5>1 DEF OrderFacts, RepliesInv, OwnRepliesInOrder, s
      <4>2. CASE i = Len(s) + 1 /\ t[i] = Reply(k)
        <5>1. t[i].of = buf[k] /\ t[i].name = OutName[name[k]]
          BY <4>2 DEF Reply, OutFile
        <5>2. CASE buf[k] = <<>>
          BY <3>6, <5>1, <5>2 DEF InPlace
        <5>3. CASE buf[k] # <<>>
          <6>1. t[i].name = OutName[FileName[buf[k][1]]]
            BY <3>6, <5>1, <5>3
          <6>2. \A j \in DOMAIN buf[k] : buf[k][j] = <<u, buf[k][1][2], buf[k][1][3] + j - 1>>
            <7>1. DOMAIN buf[k] = 1..Len(buf[k]) /\ buf[k][1][2] = sent[u]
              BY <2>1, <3>7, <5>3
            <7> QED BY <3>6, <7>1 DEF Piece
          <6>3. \A h \in 1..(i - 1) : h \in DOMAIN t
            BY <3>2, <4>2
          <6>4. \A h \in 1..(i - 1) : t[h].of # <<>> => t[h].of[1][2] <= buf[k][1][2]
            BY <3>7, <3>8, <5>3, <6>3
          <6> QED BY <5>1, <5>3, <6>1, <6>2, <6>4
        <5> QED BY <5>2, <5>3
      <4> QED BY <3>4, <4>1, <4>2
    <3>10. OwnRepliesInOrder'
      BY <3>3, <3>9 DEF OwnRepliesInOrder
    <3>11. RepliesInv'
      BY <2>1, <3>3, <3>8, <3>10 DEF RepliesInv
    <3> QED BY <2>1, <3>5, <3>11, OrderReturn
  <2> QED
    <3>1. Valid(rfd) => fdTable[rfd] = u
      BY DEF Valid
    <3>2. replies' = IF Valid(rfd)
                       THEN [replies EXCEPT ![fdTable[rfd]] =
                               Append(replies[fdTable[rfd]], Reply(k))]
                       ELSE replies
      BY <1>23, <1>s, WriteIs
    <3> QED BY <2>2, <2>3, <3>1, <3>2
<1>24. CASE UNCHANGED vars
  BY <1>24, OrderSame DEF vars
<1>25. ASSUME NEW k \in Tasks, ReadFile(k) PROVE OrderFacts'
  BY <1>25 DEF ReadFile, Strays
<1> QED
  BY <1>1, <1>2, <1>3, <1>4, <1>5, <1>6, <1>7, <1>8, <1>9, <1>10, <1>11, <1>12, <1>13, <1>14,
     <1>15, <1>16, <1>17, <1>18, <1>19, <1>20, <1>21, <1>22, <1>23, <1>24, <1>25
     DEF Next, Main, deal_fun

\* and leaves nothing to do once it has ended its side.
LEMMA QuietNext ==
  ASSUME NEW u, Clients = {u}, Patient, TypeInv, QuietInv, OrderFacts, ~strayed', [Next]_vars
  PROVE  QuietInv'
<1> SUFFICES ASSUME ended'[u] PROVE inbox'[u] = <<>> /\ \A k \in Tasks : step'[k] \notin Busy
  BY DEF QuietInv
<1> DEFINE Quiet == inbox[u] = <<>> /\ \A k \in Tasks : step[k] \notin Busy
<1>t. /\ step \in [Tasks -> {"queued", "read", "reading", "close", "clear", "create", "save",
                             "open", "parse", "readback", "write", "returned"}]
      /\ ended \in [Clients -> BOOLEAN] /\ inbox \in [Clients -> Seq(AllParts)]
  BY DEF TypeInv, TypeOK
<1>e. ended[u] => Quiet
  BY DEF QuietInv
<1>q. ASSUME Quiet, UNCHANGED inbox, \A k \in Tasks : step'[k] \in Busy => step'[k] = step[k]
      PROVE  Quiet'
  BY <1>q
<1>n. ASSUME NEW k \in Tasks, step[k] \in Busy, UNCHANGED ended PROVE FALSE
  BY <1>e, <1>n
<1> USE DEF Goto, At, clientVars
<1>1. ASSUME NEW c \in Clients, Connect(c) PROVE Quiet'
  BY <1>1, <1>e, <1>q DEF Connect, taskVars
<1>2. ASSUME NEW c \in Clients, Send(c) PROVE Quiet'
  BY <1>2 DEF Send, MaySend
<1>3. ASSUME NEW c \in Clients, Shutdown(c) PROVE Quiet'
  <2>1. Quiet
    BY <1>3, AllAnswered DEF Shutdown
  <2> QED BY <1>3, <1>q, <2>1 DEF Shutdown, taskVars
<1>4. CASE Main
  <2>1. UNCHANGED <<ended, inbox, step>>
    BY <1>4 DEF Main, EpollWait, Accept, AcceptFails, DataToRead, AddTask, LastEvent, taskVars
  <2> QED BY <1>e, <1>q, <2>1
<1>5. CASE RunTask
  <2>1. \A k \in Tasks : step'[k] = step[k] \/ step'[k] = "read"
    BY <1>5, <1>t DEF RunTask
  <2>2. UNCHANGED <<ended, inbox>>
    BY <1>5 DEF RunTask
  <2> QED BY <1>e, <1>q, <2>1, <2>2 DEF Busy
<1>6. ASSUME NEW k \in Tasks, Read(k) \/ ReadFails(k) \/ ReadEnd(k) \/ Close(k) \/ Clear(k)
      PROVE  Quiet'
  <2>1. /\ UNCHANGED <<ended, inbox>>
        /\ \A l \in Tasks : step'[l] = step[l]
                          \/ step'[l] \in {"reading", "close", "clear", "returned"}
    BY <1>6, <1>t DEF Read, ReadFails, ReadEnd, Close, Clear, Return
  <2> QED BY <1>e, <1>q, <2>1 DEF Busy
<1>7. ASSUME NEW k \in Tasks, ReadFile(k) PROVE Quiet'
  BY <1>7 DEF ReadFile, Strays
<1>8. ASSUME NEW k \in Tasks, ReadData(k) PROVE Quiet'
  <2>1. conn[k] = u /\ ended[u]
    BY <1>8 DEF ReadData, TypeInv, PhaseInv
  <2>2. inbox[u] = <<>> /\ 1..Len(inbox[u]) # {}
    BY <1>8, <1>e, <2>1 DEF ReadData
  <2> QED BY <2>2
<1>9. ASSUME NEW k \in Tasks, \/ Create(k) \/ Save(k) \/ Open(k) \/ GetLines(k)
                             \/ CloseStreams(k) \/ ReadBack(k) \/ Write(k)
      PROVE  Quiet'
  <2>1. step[k] \in Busy
    BY <1>9 DEF Create, Save, Open, GetLines, CloseStreams, ReadBack, Write, Busy
  <2>2. UNCHANGED ended
    BY <1>9 DEF Create, Save, Open, GetLines, CloseStreams, ReadBack, Write
  <2> QED BY <1>n, <2>1, <2>2
<1>10. CASE UNCHANGED vars
  BY <1>10, <1>e, <1>q DEF vars, taskVars
<1> QED
  BY <1>1, <1>2, <1>3, <1>4, <1>5, <1>6, <1>7, <1>8, <1>9, <1>10 DEF Next, deal_fun

\* OrderInv: what the tasks of one client that waits hold are pieces of the last request, each
\* in files of its own and not yet answered; and none of them goes astray.
THEOREM ServerKeepsOrder ==
  ASSUME NEW u, Clients = {u}, Patient, PartsApart
  PROVE  Spec => []OrderInv
<1> DEFINE All == TypeInv /\ StreamsInv /\ SlotInv /\ OrderInv
<1>1. Init => All
  BY StreamsInit, SlotInit, OrderInit DEF Init, OrderInv, QuietInv
<1>2. All /\ [Next]_vars => All'
  <2> SUFFICES ASSUME All, [Next]_vars PROVE All'
    OBVIOUS
  <2>1. TypeInv' /\ StreamsInv' /\ SlotInv'
    BY TypeNext, StreamsNext, SlotNext
  <2>2. ~strayed'
    BY NoneStrays DEF OrderInv
  <2>3. OrderFacts' /\ QuietInv'
    BY <2>2, OrderNext, QuietNext DEF OrderInv
  <2> QED BY <2>1, <2>2, <2>3 DEF OrderInv
<1> HIDE DEF All
<1>3. All => OrderInv
  BY DEF All
<1> QED BY <1>1, <1>2, <1>3, PTL DEF Spec

\* A client on its own that waits gets its replies in the order of its requests, each made
\* of consecutive parts of one request and named after the first of them, where the parts
\* of one request lead to files of their own: however many tasks are queued for a request,
\* however reads cut it, and though files and slot are shared with earlier requests.
THEOREM ServerRepliesInOrder ==
  ASSUME NEW u, Clients = {u}, Patient, PartsApart
  PROVE  Spec => []OwnRepliesInOrder
<1>1. OrderInv => OwnRepliesInOrder
  BY DEF OrderInv, OrderFacts, RepliesInv
<1> QED BY <1>1, ServerKeepsOrder, PTL

==============================================================================
