--------------------------- MODULE ParserHtmlProofs ---------------------------
(***************************************************************************)
(* What the html of a parser that is alone shows: every line, once, in     *)
(* order, and a fence as a code block.  A step is first reduced to what it *)
(* adds to the html and what waits after it (StepKinds); the rest is about *)
(* the html alone.                                                         *)
(***************************************************************************)
EXTENDS ParserProofs

\* The header is not written yet: it is saved, or in parStr.
Waiting(p) == table = "TABLE_FORMAT" \/ (Late(p) /\ (OpensTable(p) \/ RefusesHeader(p)))

LostInv(p) ==
  \A num \in 1..read :
    \/ \E i \in DOMAIN html : Shows(html[i]) /\ html[i].of.num = num
    \/ Waiting(p) /\ header.num = num
    \/ MidLine(p) /\ num = read

IsBarItem(line) == re_table(line.text) /\ \E k \in Lists : IsItem(k, line)

OnceInv(p) ==
  \A i \in DOMAIN html : Shows(html[i]) =>
    /\ html[i].of.num <= read /\ (MidLine(p) => html[i].of.num # read)
    /\ Waiting(p) /\ html[i].of.num = header.num => html[i].of = header /\ IsBarItem(header)

OrderInv(p) ==
  Waiting(p) =>
    /\ re_table(header.text)
    /\ \A i \in DOMAIN html :
         IsContent(html[i]) /\ html[i].of.num > header.num => ~re_table(html[i].of.text)

FenceInv(p) ==
  \A i \in DOMAIN html :
    LET text == html[i].of.text IN
      IsContent(html[i]) /\ re_codeblock(text) /\ ~re_table(text) =>
        /\ html[i].what = "p"
        /\ HeaderWaitedAt(i) \/ (Waiting(p) /\ header.num < html[i].of.num)

HtmlInv(p) == LostInv(p) /\ OnceInv(p) /\ ShownOnce /\ OrderInv(p) /\ WrittenInOrder /\ FenceInv(p)

------------------------------------------------------------------------------
(* What a step adds *)

\* h grew to g: of the pieces added, only those at Q show anything.
Grown(h, g, Q) ==
  /\ \A i \in DOMAIN h : i \in DOMAIN g /\ g[i] = h[i]
  /\ \A i \in DOMAIN h, j \in DOMAIN g \ DOMAIN h : i < j
  /\ Q \subseteq DOMAIN g \ DOMAIN h
  /\ \A i \in DOMAIN g : i \in DOMAIN h \/ i \in Q \/ ~Shows(g[i])

\* A step shows nothing and nothing else waits,
Passes(p) ==
  /\ Grown(html, html', {}) /\ read' = read /\ header' = header
  /\ Waiting(p)' <=> Waiting(p)
  /\ MidLine(p)' <=> MidLine(p)

\* reads a line,
Reads(p) ==
  /\ Grown(html, html', {}) /\ read' = read + 1 /\ header' = header
  /\ Waiting(p)' <=> Waiting(p)
  /\ ~MidLine(p) /\ MidLine(p)'

\* saves the line as a header,
Saves(p) ==
  /\ Grown(html, html', {}) /\ read' = read /\ header' = in[p]
  /\ ~Waiting(p) /\ Waiting(p)' /\ re_table(in[p].text)
  /\ MidLine(p) /\ MidLine(p)'

\* ends a line that waits,
Holds(p) ==
  /\ Grown(html, html', {}) /\ read' = read /\ header' = header
  /\ Waiting(p) /\ Waiting(p)' /\ header.num = read
  /\ MidLine(p) /\ ~MidLine(p)'

\* shows the line: the waiting header is an item with a bar, or the line has none;
Tells(p) ==
  /\ read' = read /\ header' = header
  /\ Waiting(p)' <=> Waiting(p)
  /\ MidLine(p) /\ ~MidLine(p)'
  /\ Waiting(p) => \/ header = in[p] /\ IsBarItem(header)
                   \/ header.num < read /\ ~re_table(in[p].text)
  /\ \E q \in DOMAIN html' :
       /\ Grown(html, html', {q}) /\ Shows(html'[q]) /\ html'[q].of = in[p]
       /\ IsContent(html'[q]) /\ re_codeblock(in[p].text) /\ ~re_table(in[p].text) =>
            html'[q].what = "p" /\ Waiting(p) /\ header.num < read

\* or shows the header and the line that answered it.
Answers(p) ==
  /\ read' = read /\ header' = header
  /\ Waiting(p) /\ ~Waiting(p)' /\ header.num < read /\ re_table(header.text)
  /\ MidLine(p) /\ ~MidLine(p)'
  /\ \E q, r \in DOMAIN html' :
       /\ q # r /\ Grown(html, html', {q, r})
       /\ IsContent(html'[q]) /\ html'[q].what \in {"th", "p"} /\ html'[q].of = header
       /\ Shows(html'[r]) /\ html'[r].of.num = read
       /\ IsContent(html'[r]) => q < r /\ re_table(html'[r].of.text)

\* Nothing written: nothing shown.
LEMMA GrownNone ==
  ASSUME TypeOK, html' = html
  PROVE  Grown(html, html', {})
BY DEF Grown

\* A write grows the html by its pieces.
LEMMA GrownPut ==
  ASSUME TypeOK, NEW pieces \in Seq(Pieces), Put(pieces)
  PROVE  /\ Len(html) \in Nat /\ DOMAIN html = 1..Len(html)
         /\ DOMAIN html' = 1..(Len(html) + Len(pieces))
         /\ \A i \in DOMAIN html : html'[i] = html[i]
         /\ \A k \in 1..Len(pieces) : html'[Len(html) + k] = pieces[k]
<1> DEFINE n == Len(html)
           m == Len(pieces)
<1>1. html \in Seq(Pieces) /\ html' = html \o pieces
  BY DEF TypeOK, Put
<1>2. /\ n \in Nat /\ DOMAIN html = 1..n /\ m \in Nat /\ html' \in Seq(Pieces) /\ Len(html') = n + m
      /\ \A i \in 1..(n + m) : html'[i] = IF i <= n THEN html[i] ELSE pieces[i - n]
  BY <1>1, ConcatProperties, LenProperties
<1>3. DOMAIN html' = 1..(n + m)
  BY <1>2, LenProperties
<1> HIDE DEF n, m
<1>4. ASSUME NEW i \in DOMAIN html PROVE html'[i] = html[i]
  <2>1. i \in 1..(n + m) /\ i <= n
    BY <1>2
  <2> QED BY <1>2, <2>1
<1>5. ASSUME NEW k \in 1..m PROVE html'[n + k] = pieces[k]
  <2>1. n + k \in 1..(n + m) /\ ~(n + k <= n) /\ (n + k) - n = k
    BY <1>2
  <2> QED BY <1>2, <2>1
<1> QED BY <1>2, <1>3, <1>4, <1>5 DEF n, m

\* A write of one piece or two, of which those numbered in K may show something.
LEMMA GrownBy ==
  ASSUME TypeOK, NEW pieces \in Seq(Pieces), Len(pieces) <= 2, Put(pieces),
         NEW K \in SUBSET {1, 2}, \A k \in K : k <= Len(pieces),
         \A k \in {1, 2} \ K : k <= Len(pieces) => ~Shows(pieces[k])
  PROVE  /\ Grown(html, html', {Len(html) + k : k \in K})
         /\ \A k \in K : Len(html) + k \in DOMAIN html' /\ html'[Len(html) + k] = pieces[k]
<1> DEFINE n == Len(html)
           m == Len(pieces)
<1>1. /\ n \in Nat /\ DOMAIN html = 1..n /\ DOMAIN html' = 1..(n + m)
      /\ \A i \in DOMAIN html : html'[i] = html[i]
      /\ \A k \in 1..m : html'[n + k] = pieces[k]
  BY GrownPut
<1>2. m \in Nat /\ m <= 2 /\ \A k \in K : k \in 1..m /\ k \in Nat \ {0}
  BY LenProperties
<1> HIDE DEF n, m
<1>3. \A i \in DOMAIN html : i \in DOMAIN html' /\ html'[i] = html[i]
  BY <1>1, <1>2
<1>4. \A i \in DOMAIN html, j \in DOMAIN html' \ DOMAIN html : i < j
  BY <1>1, <1>2
<1>5. {n + k : k \in K} \subseteq DOMAIN html' \ DOMAIN html
  BY <1>1, <1>2
<1>6. ASSUME NEW i \in DOMAIN html', i \notin DOMAIN html, i \notin {n + k : k \in K}
      PROVE  ~Shows(html'[i])
  <2>1. PICK k \in 1..m : i = n + k
    BY <1>1, <1>2, <1>6
  <2>2. k \in {1, 2} \ K /\ k <= m
    BY <1>2, <1>6, <2>1
  <2>3. html'[i] = pieces[k]
    BY <1>1, <2>1
  <2> QED BY <2>2, <2>3 DEF m
<1>7. Grown(html, html', {n + k : k \in K})
  BY <1>3, <1>4, <1>5, <1>6 DEF Grown
<1>8. \A k \in K : n + k \in DOMAIN html' /\ html'[n + k] = pieces[k]
  BY <1>1, <1>2, <1>5
<1> QED BY <1>7, <1>8 DEF n

\* Whether the header is in parStr, while its table, its line and parStr stay.
LEMMA WaitingStays ==
  ASSUME NEW p \in Parsers, UNCHANGED <<table, header, code_block, read>>, in'[p] = in[p],
         out'[p] = out[p], Late(p)' <=> Late(p)
  PROVE  Waiting(p)' <=> Waiting(p)
<1>1. /\ OpensTable(p)' <=> OpensTable(p)
      /\ RefusesHeader(p)' <=> RefusesHeader(p)
  BY DEF OpensTable, RefusesHeader, Barred
<1> QED BY <1>1 DEF Waiting

\* The tag that a call writes to the stream shows no line.
LEMMA EndShowsNothing ==
  ASSUME TypeOK, NEW line \in LineRecords, NEW e \in Lists \cup {"table"}, Put(<<End(e, line)>>)
  PROVE  Grown(html, html', {})
<1> DEFINE pieces == <<End(e, line)>>
<1>1. e \in Elements /\ e # "code"
  BY DEF Elements, Lists
<1>2. pieces \in Seq(Pieces) /\ Len(pieces) = 1
  BY <1>1, PieceTypes
<1>3. ~Shows(pieces[1])
  BY <1>1 DEF Shows, End, Piece
<1>4. Put(pieces)
  OBVIOUS
<1> HIDE DEF pieces
<1> DEFINE K == {k \in {1, 2} : k > 2}
<1>5. K \in SUBSET {1, 2} /\ K = {}
  OBVIOUS
<1> HIDE DEF K
<1>6. /\ \A k \in K : k <= Len(pieces)
      /\ \A k \in {1, 2} \ K : k <= Len(pieces) => ~Shows(pieces[k])
      /\ Len(pieces) <= 2
  BY <1>2, <1>3, <1>5
<1>7. Grown(html, html', {Len(html) + k : k \in K})
  BY <1>2, <1>4, <1>5, <1>6, GrownBy
<1>8. {Len(html) + k : k \in K} = {}
  BY <1>5
<1> QED BY <1>7, <1>8

\* start between two lines.
LEMMA BetweenKinds ==
  ASSUME NEW p \in Parsers, LoneInv(p), Open(p) \/ EndOfFile(p) \/ GetLine(p)
  PROVE  Passes(p) \/ Reads(p)
<1>0. TypeOK /\ pc \in [Parsers -> {"idle", "getline"} \cup DOMAIN After \cup {"write"}]
  BY DEF LoneInv, TypeInv, TypeOK
<1>1. /\ Grown(html, html', {}) /\ header' = header /\ table' = table
      /\ ~MidLine(p) /\ ~Late(p) /\ ~Late(p)'
  BY <1>0, GrownNone DEF Open, EndOfFile, GetLine, globals, MidLine, Late
<1>2. Waiting(p)' <=> Waiting(p)
  BY <1>1 DEF Waiting
<1>3. CASE Open(p) \/ EndOfFile(p)
  BY <1>0, <1>1, <1>2, <1>3 DEF Open, EndOfFile, MidLine, Passes
<1>4. CASE GetLine(p)
  BY <1>0, <1>1, <1>2, <1>4 DEF GetLine, MidLine, Reads
<1> QED BY <1>3, <1>4

\* isTable.
LEMMA TableKinds ==
  ASSUME NEW p \in Parsers, LoneInv(p), LineInv(p)', isTable(p)
  PROVE  Passes(p) \/ Saves(p)
<1>0. TypeOK /\ LineInv(p) /\ in[p] \in LineRecords /\ out \in [Parsers -> Seq(Pieces)]
  BY DEF LoneInv, TypeInv, TypeOK
<1>1. pc[p] = "isTable" /\ \E result \in BOOLEAN : Return(p, result)
  BY DEF isTable, SaveHeader, OpenTable, NotATable, Row, EndTable, NoTable
<1>2. /\ pc'[p] = "isCodeBlock" /\ ~Late(p) /\ Late(p)' /\ MidLine(p) /\ MidLine(p)' /\ read' = read
      /\ in[p].num = read /\ out[p] = <<>>
  BY <1>0, <1>1, Returns, AfterCalls DEF Calls, LineInv, Late
<1>3. Waiting(p) <=> table = "TABLE_FORMAT"
  BY <1>2 DEF Waiting
<1>4. CASE SaveHeader(p)
  BY <1>0, <1>2, <1>3, <1>4, GrownNone DEF SaveHeader, InTable, Saves, Waiting
<1>5. CASE OpenTable(p) \/ NotATable(p)
  <2>1. Waiting(p) /\ header' = header /\ html' = html
    BY <1>3, <1>5 DEF OpenTable, NotATable
  <2>2. Len(out'[p]) = 2
    <3>1. ASSUME OpenTable(p)
          PROVE  out'[p] = <<Begin("table", in[p]), Content("th", header)>>
      BY <1>0, <1>2, <3>1 DEF OpenTable, AddOut
    <3>2. ASSUME NotATable(p)
          PROVE  out'[p] = <<Content("p", header), Content("p", Wrap(in[p]))>>
      BY <1>0, <3>2 DEF NotATable, SetOut, Refused
    <3> QED BY <1>5, <3>1, <3>2
  <2>3. Waiting(p)'
    <3>1. out'[p] # <<>> /\ Len(out'[p]) # 1
      BY <2>2
    <3> QED BY <1>2, <3>1 DEF LineInv, Unclaimed, Claimed, SavesHeader, InRow, IsFence, InCode,
                             IsItemOf, Waiting
  <2> QED BY <1>0, <1>2, <2>1, <2>3, GrownNone DEF Passes
<1>6. CASE Row(p)
  <2>1. header' = header /\ html' = html /\ table = "TABLE_LINE" /\ table' = "TABLE_LINE"
    BY <1>6 DEF Row, globals
  <2>2. Len(out'[p]) = 1
    BY <1>0, <1>2, <1>6 DEF Row, AddOut
  <2>3. ~Waiting(p)'
    BY <2>1, <2>2 DEF Waiting, OpensTable, RefusesHeader
  <2> QED BY <1>0, <1>2, <1>3, <2>1, <2>3, GrownNone DEF Passes
<1>7. CASE EndTable(p) \/ NoTable(p)
  <2>1. header' = header /\ out'[p] = <<>> /\ (table' = "TABLE_FORMAT" <=> table = "TABLE_FORMAT")
    BY <1>2, <1>7 DEF EndTable, NoTable, globals
  <2>2. Waiting(p)' <=> table' = "TABLE_FORMAT"
    BY <2>1 DEF Waiting, OpensTable, RefusesHeader
  <2>3. Grown(html, html', {})
    BY <1>0, <1>7, GrownNone, EndShowsNothing DEF EndTable, NoTable
  <2> QED BY <1>2, <1>3, <2>1, <2>2, <2>3 DEF Passes
<1> QED BY <1>4, <1>5, <1>6, <1>7 DEF isTable

\* isCodeBlock, isUnorderList and isOrderList.
LEMMA CallKinds ==
  ASSUME NEW p \in Parsers, LoneInv(p), isCodeBlock(p) \/ \E k \in Lists : isList(p, k)
  PROVE  Passes(p)
<1>0. TypeOK /\ TypeInv /\ LineInv(p) /\ in[p] \in LineRecords /\ out \in [Parsers -> Seq(Pieces)]
  BY DEF LoneInv, TypeInv, TypeOK
<1>1. /\ pc[p] \in Calls \ {"isTable"} /\ \E result \in BOOLEAN : Return(p, result)
      /\ UNCHANGED <<table, header, in>>
  <2>1. CASE isCodeBlock(p)
    BY <2>1 DEF isCodeBlock, OpenCode, CloseCode, CodeLine, NoCode, globals, Calls
  <2>2. ASSUME NEW k \in Lists, isList(p, k)
        PROVE  /\ pc[p] \in Calls \ {"isTable"} /\ \E result \in BOOLEAN : Return(p, result)
               /\ UNCHANGED <<table, header, in>>
    BY <2>2, ListCalls DEF isList, FirstItem, NextItem, EndList, NoList, globals
  <2> QED BY <2>1, <2>2
<1>2. Late(p) /\ Late(p)' /\ MidLine(p) /\ MidLine(p)' /\ read' = read
  BY <1>0, <1>1, Returns
<1>3. SUFFICES Grown(html, html', {}) /\ (Waiting(p)' <=> Waiting(p))
  BY <1>1, <1>2 DEF Passes
<1>4. CASE OpenCode(p) \/ CloseCode(p)
  <2>1. out[p] = <<>> /\ html' = html
    BY <1>0, <1>4, FenceFindsNothing DEF OpenCode, CloseCode
  <2>2. Len(out'[p]) # 2
    <3>1. OpenCode(p) => out'[p] = <<Begin("code", in[p])>>
      BY <1>0, <2>1 DEF OpenCode, AddOut
    <3>2. CloseCode(p) => out'[p] = <<End("code", in[p])>>
      BY <1>0, <2>1 DEF CloseCode, AddOut
    <3> QED BY <1>4, <3>1, <3>2
  <2>3. (Waiting(p) <=> table = "TABLE_FORMAT") /\ (Waiting(p)' <=> table' = "TABLE_FORMAT")
    BY <2>1, <2>2 DEF Waiting, OpensTable, RefusesHeader
  <2> QED BY <1>0, <1>1, <2>1, <2>3, GrownNone
<1>5. CASE CodeLine(p)
  <2>1. /\ html' = html /\ code_block = "MUL_MIDDLE" /\ code_block' = code_block
        /\ table = "TABLE_START"
    BY <1>0, <1>5 DEF CodeLine, globals, LineInv
  <2>2. (Waiting(p) <=> table = "TABLE_FORMAT") /\ (Waiting(p)' <=> table' = "TABLE_FORMAT")
    BY <1>1, <2>1 DEF Waiting, OpensTable, RefusesHeader
  <2> QED BY <1>0, <1>1, <2>1, <2>2, GrownNone
<1>6. CASE NoCode(p)
  <2>1. html' = html /\ UNCHANGED <<code_block, in, out>>
    BY <1>6 DEF NoCode, globals
  <2> QED BY <1>0, <1>1, <1>2, <2>1, GrownNone, WaitingStays
<1>7. ASSUME NEW k \in Lists, isList(p, k) 
      PROVE  Grown(html, html', {}) /\ (Waiting(p)' <=> Waiting(p))
  <2>1. CASE FirstItem(p, k) \/ NextItem(p, k)
    <3>1. html' = html /\ ~Barred(in[p]) /\ ~Barred(in'[p])
      BY <1>0, <1>1, <2>1, LineMarks DEF FirstItem, NextItem
    <3>2. (Waiting(p) <=> table = "TABLE_FORMAT") /\ (Waiting(p)' <=> table' = "TABLE_FORMAT")
      BY <3>1 DEF Waiting, OpensTable, RefusesHeader, Barred
    <3> QED BY <1>0, <1>1, <3>1, <3>2, GrownNone
  <2>2. CASE EndList(p, k) \/ NoList(p, k)
    <3>1. UNCHANGED <<code_block, out>>
      BY <2>2 DEF EndList, NoList, globals
    <3>2. Grown(html, html', {})
      BY <1>0, <2>2, GrownNone, EndShowsNothing DEF EndList, NoList
    <3> QED BY <1>1, <1>2, <3>1, <3>2, WaitingStays
  <2> QED BY <1>7, <2>1, <2>2 DEF isList
<1> QED BY <1>4, <1>5, <1>6, <1>7 DEF isCodeBlock

\* A write shows its K-th piece, if any other is a tag that shows nothing.
LEMMA WriteShows ==
  ASSUME TypeOK, NEW pieces \in Seq(Pieces), Len(pieces) <= 2, Put(pieces),
         NEW k \in {1, 2}, k <= Len(pieces),
         \A j \in {1, 2} \ {k} : j <= Len(pieces) => ~Shows(pieces[j])
  PROVE  \E q \in DOMAIN html' : Grown(html, html', {q}) /\ html'[q] = pieces[k]
<1> DEFINE K == {k}
<1>1. K \in SUBSET {1, 2}
  OBVIOUS
<1>2. \A j \in K : j <= Len(pieces)
  OBVIOUS
<1>3. \A j \in {1, 2} \ K : j <= Len(pieces) => ~Shows(pieces[j])
  OBVIOUS
<1>4. {Len(html) + j : j \in K} = {Len(html) + k}
  OBVIOUS
<1> HIDE DEF K
<1>5. /\ Grown(html, html', {Len(html) + j : j \in K})
      /\ \A j \in K : Len(html) + j \in DOMAIN html' /\ html'[Len(html) + j] = pieces[j]
  BY <1>1, <1>2, <1>3, GrownBy
<1>6. k \in K
  BY DEF K
<1> QED BY <1>4, <1>5, <1>6

\* A write that shows one piece of the line tells it.
LEMMA WriteTells ==
  ASSUME NEW p \in Parsers, LoneInv(p), WriteLine(p), ~OpensTable(p), ~RefusesHeader(p),
         NEW pieces \in Seq(Pieces), Len(pieces) <= 2, Put(pieces),
         NEW k \in {1, 2}, k <= Len(pieces),
         \A j \in {1, 2} \ {k} : j <= Len(pieces) => ~Shows(pieces[j]),
         Shows(pieces[k]), pieces[k].of = in[p],
         table = "TABLE_FORMAT" =>
           \/ header = in[p] /\ IsBarItem(header)
           \/ header.num < read /\ ~re_table(in[p].text),
         IsContent(pieces[k]) /\ re_codeblock(in[p].text) /\ ~re_table(in[p].text) =>
           pieces[k].what = "p" /\ table = "TABLE_FORMAT" /\ header.num < read
  PROVE  Tells(p)
<1>1. TypeOK /\ pc \in [Parsers -> {"idle", "getline"} \cup DOMAIN After \cup {"write"}]
  BY DEF LoneInv, TypeInv, TypeOK
<1>2. /\ MidLine(p) /\ Late(p) /\ ~MidLine(p)' /\ ~Late(p)'
      /\ UNCHANGED <<read, header, table>>
  BY <1>1 DEF WriteLine, MidLine, Late, globals
<1>3. (Waiting(p) <=> table = "TABLE_FORMAT") /\ (Waiting(p)' <=> table = "TABLE_FORMAT")
  BY <1>2 DEF Waiting
<1>4. PICK q \in DOMAIN html' : Grown(html, html', {q}) /\ html'[q] = pieces[k]
  BY <1>1, WriteShows
<1> QED BY <1>2, <1>3, <1>4 DEF Tells

\* start at the end of a line.
LEMMA WriteKinds ==
  ASSUME NEW p \in Parsers, LoneInv(p), WriteLine(p)
  PROVE  Holds(p) \/ Tells(p) \/ Answers(p)
<1>0. TypeOK /\ TypeInv /\ LineInv(p) /\ in[p] \in LineRecords /\ header \in LineRecords
  BY DEF LoneInv, TypeInv, TypeOK
<1>a. pc \in [Parsers -> {"idle", "getline"} \cup DOMAIN After \cup {"write"}]
  BY <1>0 DEF TypeOK
<1>1. /\ pc[p] = "write" /\ MidLine(p) /\ Late(p) /\ ~MidLine(p)' /\ ~Late(p)'
      /\ UNCHANGED <<read, header, table>>
  BY <1>a DEF WriteLine, MidLine, Late, globals
<1>2. /\ in[p].num = read /\ HeaderInv(p) /\ (Unclaimed(p) \/ Claimed(p))
      /\ table = "TABLE_FORMAT" => re_table(header.text)
  BY <1>0, <1>1 DEF LineInv
<1>3. out[p] \in Seq(Pieces) /\ Len(out[p]) <= 2
  BY <1>0, <1>1, HeldPieces
<1>4. multi[p] => Put(out[p])
  BY DEF WriteLine
<1>5. Waiting(p)' <=> table = "TABLE_FORMAT"
  BY <1>1 DEF Waiting
<1>6. CASE Claimed(p) /\ (OpensTable(p) \/ RefusesHeader(p))
  <2> DEFINE pieces == out[p]
             n == Len(html)
  <2>1. /\ Len(pieces) = 2 /\ Put(pieces) /\ pieces \in Seq(Pieces)
        /\ header.num < read /\ re_table(header.text)
    BY <1>3, <1>4, <1>6 DEF Claimed, OpensTable, RefusesHeader
  <2>2. Waiting(p) /\ ~Waiting(p)'
    BY <1>1, <1>5, <1>6 DEF Waiting, OpensTable, RefusesHeader
  <2>3. re_table(in[p].text)
    BY <1>0, <1>6, LineMarks DEF OpensTable, RefusesHeader
  <2> HIDE DEF pieces
  <2>4. /\ n \in Nat
        /\ Grown(html, html', {n + 1, n + 2})
        /\ n + 1 \in DOMAIN html' /\ html'[n + 1] = pieces[1]
        /\ n + 2 \in DOMAIN html' /\ html'[n + 2] = pieces[2]
    <3> DEFINE K == {1, 2}
    <3>1. /\ K \in SUBSET {1, 2} /\ \A k \in K : k <= Len(pieces)
          /\ Len(pieces) <= 2
          /\ \A k \in {1, 2} \ K : k <= Len(pieces) => ~Shows(pieces[k])
      BY <2>1
    <3>2. {n + k : k \in K} = {n + 1, n + 2} /\ 1 \in K /\ 2 \in K
      OBVIOUS
    <3> HIDE DEF K
    <3>3. /\ Grown(html, html', {n + k : k \in K})
          /\ \A k \in K : n + k \in DOMAIN html' /\ html'[n + k] = pieces[k]
      BY <1>0, <2>1, <3>1, GrownBy
    <3>4. n \in Nat
      BY <1>0, LenProperties DEF TypeOK
    <3> QED BY <3>2, <3>3, <3>4
  <2> HIDE DEF n
  <2>5. CASE OpensTable(p)
    <3>1. /\ Shows(pieces[1]) /\ ~IsContent(pieces[1]) /\ pieces[1].of.num = read
          /\ pieces[2] = Content("th", header)
      BY <2>5 DEF OpensTable, pieces, Shows, IsContent
    <3>2. IsContent(pieces[2]) /\ pieces[2].what \in {"th", "p"} /\ pieces[2].of = header
      BY <3>1 DEF IsContent, Content, Piece
    <3>3. {n + 1, n + 2} = {n + 2, n + 1} /\ n + 2 # n + 1
      BY <2>4
    <3> QED BY <1>1, <2>1, <2>2, <2>4, <3>1, <3>2, <3>3 DEF Answers
  <2>6. CASE RefusesHeader(p)
    <3>1. pieces[1] = Content("p", header) /\ pieces[2] = Content("p", in[p])
      BY <2>6 DEF RefusesHeader, pieces
    <3>2. IsContent(pieces[1]) /\ pieces[1].what \in {"th", "p"} /\ pieces[1].of = header
      BY <3>1 DEF IsContent, Content, Piece
    <3>3. Shows(pieces[2]) /\ pieces[2].of.num = read /\ re_table(pieces[2].of.text)
      BY <1>2, <2>3, <3>1 DEF Shows, Content, Piece
    <3>4. n + 1 < n + 2 /\ n + 1 # n + 2
      BY <2>4
    <3> QED BY <1>1, <2>1, <2>2, <2>4, <3>2, <3>3, <3>4 DEF Answers
  <2> QED BY <1>6, <2>5, <2>6
<1>7. CASE Claimed(p) /\ SavesHeader(p)
  <2>1. html' = html
    <3>1. html \in Seq(Pieces) /\ html' = html \o <<>>
      BY <1>0, <1>4, <1>7 DEF Claimed, SavesHeader, Put, TypeOK
    <3> QED BY <3>1
  <2>2. header = in[p] /\ table = "TABLE_FORMAT"
    BY <1>7 DEF SavesHeader
  <2>3. Waiting(p)
    BY <2>2 DEF Waiting
  <2> QED BY <1>0, <1>1, <1>2, <1>5, <2>1, <2>2, <2>3, GrownNone DEF Holds
<1>8. CASE Claimed(p) /\ ~OpensTable(p) /\ ~RefusesHeader(p) /\ ~SavesHeader(p)
  <2>1. CASE InRow(p) \/ IsFence(p) \/ InCode(p)
    <3>1. Len(out[p]) = 1 /\ table # "TABLE_FORMAT"
      BY <1>0, <2>1 DEF InRow, IsFence, InCode, LineInv
    <3>2. Shows(out[p][1]) /\ out[p][1].of = in[p]
      <4>1. CASE InRow(p)
        BY <4>1 DEF InRow, Shows, Content, Piece
      <4>2. CASE IsFence(p)
        BY <4>2 DEF IsFence, Shows, Begin, End, Piece
      <4>3. CASE InCode(p)
        BY <4>3 DEF InCode, Shows, Content, Piece
      <4> QED BY <2>1, <4>1, <4>2, <4>3
    <3>3. ~(IsContent(out[p][1]) /\ re_codeblock(in[p].text) /\ ~re_table(in[p].text))
      <4>1. IsFence(p) => ~IsContent(out[p][1])
        BY DEF IsFence, IsContent, Begin, End, Piece
      <4> QED BY <2>1, <4>1 DEF InRow, InCode
    <3>4. /\ 1 \in {1, 2} /\ 1 <= Len(out[p])
          /\ \A j \in {1, 2} \ {1} : j <= Len(out[p]) => ~Shows(out[p][j])
      BY <3>1
    <3> QED BY <1>3, <1>4, <1>8, <3>1, <3>2, <3>3, <3>4, WriteTells DEF Claimed
  <2>2. ASSUME NEW k \in Lists, IsItemOf(p, k) PROVE Tells(p)
    <3>1. IsItem(k, in[p]) /\ ~re_codeblock(in[p].text)
      BY <1>0, <2>2, LineMarks DEF IsItemOf
    <3>2. table = "TABLE_FORMAT" =>
            \/ header = in[p] /\ IsBarItem(header)
            \/ header.num < read /\ ~re_table(in[p].text)
      BY <1>2, <3>1 DEF HeaderInv, IsBarItem
    <3>3. PICK j \in {1, 2} :
            /\ j <= Len(out[p]) /\ out[p][j] = Content("li", in[p])
            /\ \A i \in {1, 2} \ {j} : i <= Len(out[p]) => ~Shows(out[p][i])
      <4>1. CASE Len(out[p]) = 1 /\ out[p][1] = Content("li", in[p])
        BY <4>1
      <4>2. CASE Len(out[p]) = 2 /\ out[p][1] = Begin(k, in[p]) /\ out[p][2] = Content("li", in[p])
        <5>1. ~Shows(out[p][1])
          BY <4>2 DEF Shows, Begin, Piece, Lists
        <5> QED BY <4>2, <5>1
      <4> QED BY <2>2, <4>1, <4>2 DEF IsItemOf
    <3>4. Shows(out[p][j]) /\ out[p][j].of = in[p]
      BY <3>3 DEF Shows, Content, Piece
    <3> QED BY <1>3, <1>4, <1>8, <3>1, <3>2, <3>3, <3>4, WriteTells DEF Claimed
  <2> QED BY <1>8, <2>1, <2>2 DEF Claimed
<1>9. CASE Unclaimed(p)
  <2> DEFINE pieces == <<Content(Format(in[p]), in[p])>>
  <2>1. /\ pieces \in Seq(Pieces) /\ Len(pieces) = 1 /\ Put(pieces)
        /\ pieces[1] = Content(Format(in[p]), in[p])
    BY <1>0, <1>9, PieceTypes DEF Unclaimed, WriteLine
  <2>2. /\ ~OpensTable(p) /\ ~RefusesHeader(p) /\ header.num < read
        /\ re_codeblock(in[p].text) => table = "TABLE_FORMAT"
    BY <1>1, <1>9 DEF Unclaimed, OpensTable, RefusesHeader
  <2>3. table = "TABLE_FORMAT" => ~re_table(in[p].text)
    BY <1>0, <1>2, <2>2 DEF HeaderInv, LineRecords
  <2> HIDE DEF pieces
  <2>4. /\ Shows(pieces[1]) /\ pieces[1].of = in[p]
        /\ re_codeblock(in[p].text) => pieces[1].what = "p"
    BY <1>0, <2>1, LineMarks DEF Shows, Content, Piece
  <2>5. /\ 1 \in {1, 2} /\ 1 <= Len(pieces) /\ Len(pieces) <= 2
        /\ \A j \in {1, 2} \ {1} : j <= Len(pieces) => ~Shows(pieces[j])
    BY <2>1
  <2>6. table = "TABLE_FORMAT" =>
            \/ header = in[p] /\ IsBarItem(header)
            \/ header.num < read /\ ~re_table(in[p].text)
    BY <2>2, <2>3
  <2>7. IsContent(pieces[1]) /\ re_codeblock(in[p].text) /\ ~re_table(in[p].text) =>
           pieces[1].what = "p" /\ table = "TABLE_FORMAT" /\ header.num < read
    BY <2>2, <2>4
  <2> QED BY <2>1, <2>2, <2>4, <2>5, <2>6, <2>7, WriteTells
<1> QED BY <1>2, <1>6, <1>7, <1>8, <1>9

\* A step is one of the six.
LEMMA StepKinds ==
  ASSUME NEW p \in Parsers, LoneInv(p), LineInv(p)', Step(p)
  PROVE  Passes(p) \/ Reads(p) \/ Saves(p) \/ Holds(p) \/ Tells(p) \/ Answers(p)
BY BetweenKinds, TableKinds, CallKinds, WriteKinds DEF Step

------------------------------------------------------------------------------
(* What each kind of step keeps *)

\* One of the six, from a state that has its types.
Kind(p) ==
  /\ TypeOK /\ TypeOK' /\ (MidLine(p) => in[p].num = read)
  /\ Passes(p) \/ Reads(p) \/ Saves(p) \/ Holds(p) \/ Tells(p) \/ Answers(p)

\* The numbers that lines bear.
LEMMA PieceNumbers ==
  ASSUME NEW h \in Seq(Pieces)
  PROVE  \A i \in DOMAIN h : i \in Nat /\ h[i].of.num \in Nat
<1>1. DOMAIN h = 1..Len(h) /\ Len(h) \in Nat
  BY LenProperties
<1>2. ASSUME NEW i \in DOMAIN h PROVE i \in Nat /\ h[i].of.num \in Nat
  <2>1. h[i] \in Pieces
    BY ElementOfSeq
  <2>2. h[i].of \in LineRecords
    BY <2>1 DEF Pieces
  <2> QED BY <1>1, <2>2, BoundsAssumption DEF LineRecords
<1> QED BY <1>2

LEMMA Numbers ==
  ASSUME TypeOK
  PROVE  /\ read \in Nat /\ header.num \in Nat
         /\ \A i \in DOMAIN html : i \in Nat /\ html[i].of.num \in Nat
BY PieceNumbers, BoundsAssumption DEF TypeOK, LineRecords

\* What was in the html is in it still; what shows or is content was in it, or
\* was added at Q, behind what was in it.
LEMMA GrownKeeps ==
  ASSUME NEW Q, Grown(html, html', Q)
  PROVE  /\ \A i \in DOMAIN html : i \in DOMAIN html' /\ html'[i] = html[i]
         /\ \A i \in DOMAIN html' : Shows(html'[i]) \/ IsContent(html'[i]) => i \in DOMAIN html \cup Q
         /\ \A i \in DOMAIN html, q \in Q : i < q
         /\ \A i \in DOMAIN html : Shows(html'[i]) <=> Shows(html[i])
         /\ \A i \in DOMAIN html : IsContent(html'[i]) <=> IsContent(html[i])
BY DEF Grown, Shows, IsContent

LEMMA LostNext ==
  ASSUME NEW p \in Parsers, Kind(p), LostInv(p)
  PROVE  LostInv(p)'
<1>1. read \in Nat /\ header.num \in Nat
  BY Numbers DEF Kind
<1> SUFFICES ASSUME NEW num \in 1..read'
             PROVE  \/ \E i \in DOMAIN html' : Shows(html'[i]) /\ html'[i].of.num = num
                    \/ Waiting(p)' /\ header'.num = num
                    \/ MidLine(p)' /\ num = read'
  BY DEF LostInv, Shows
<1>2. ASSUME NEW Q, Grown(html, html', Q), num \in 1..read
      PROVE  \/ \E i \in DOMAIN html' : Shows(html'[i]) /\ html'[i].of.num = num
             \/ Waiting(p) /\ header.num = num
             \/ MidLine(p) /\ num = read
  BY <1>2, GrownKeeps DEF LostInv
<1>3. CASE Passes(p) \/ Saves(p) \/ Holds(p)
  BY <1>2, <1>3 DEF Passes, Saves, Holds, Kind
<1>4. CASE Reads(p)
  BY <1>1, <1>2, <1>4 DEF Reads
<1>5. CASE Tells(p)
  <2>1. PICK q \in DOMAIN html' :
          Grown(html, html', {q}) /\ Shows(html'[q]) /\ html'[q].of = in[p]
    BY <1>5 DEF Tells
  <2>2. html'[q].of.num = read
    BY <1>5, <2>1 DEF Tells, Kind
  <2> QED BY <1>2, <1>5, <2>1, <2>2 DEF Tells
<1>6. CASE Answers(p)
  <2>1. PICK q, r \in DOMAIN html' :
          /\ Grown(html, html', {q, r})
          /\ IsContent(html'[q]) /\ html'[q].of = header
          /\ Shows(html'[r]) /\ html'[r].of.num = read
    BY <1>6 DEF Answers
  <2>2. Shows(html'[q]) /\ html'[q].of.num = header.num
    BY <2>1 DEF Shows, IsContent
  <2> QED BY <1>2, <1>6, <2>1, <2>2 DEF Answers
<1> QED BY <1>3, <1>4, <1>5, <1>6 DEF Kind

LEMMA OnceNext ==
  ASSUME NEW p \in Parsers, Kind(p), OnceInv(p)
  PROVE  OnceInv(p)'
<1>1. /\ read \in Nat /\ header.num \in Nat
      /\ \A i \in DOMAIN html : html[i].of.num \in Nat
  BY Numbers DEF Kind
<1> SUFFICES ASSUME NEW i \in DOMAIN html', Shows(html'[i])
             PROVE  /\ html'[i].of.num <= read' /\ (MidLine(p)' => html'[i].of.num # read')
                    /\ Waiting(p)' /\ html'[i].of.num = header'.num =>
                         html'[i].of = header' /\ IsBarItem(header')
  BY DEF OnceInv, Shows, IsBarItem, IsItem
<1>2. ASSUME NEW Q, Grown(html, html', Q), i \notin Q
      PROVE  /\ html'[i].of.num \in Nat
             /\ html'[i].of.num <= read /\ (MidLine(p) => html'[i].of.num # read)
             /\ Waiting(p) /\ html'[i].of.num = header.num =>
                  html'[i].of = header /\ IsBarItem(header)
  BY <1>1, <1>2, GrownKeeps DEF OnceInv
<1>3. CASE Passes(p) \/ Holds(p)
  BY <1>2, <1>3 DEF Passes, Holds
<1>4. CASE Reads(p)
  BY <1>1, <1>2, <1>4 DEF Reads
<1>5. CASE Saves(p)
  BY <1>2, <1>5 DEF Saves, Kind
<1>6. CASE Tells(p)
  <2>1. PICK q \in DOMAIN html' : Grown(html, html', {q}) /\ html'[q].of = in[p]
    BY <1>6 DEF Tells
  <2>2. CASE i = q
    BY <1>1, <1>6, <2>1, <2>2 DEF Tells, Kind
  <2>3. CASE i # q
    BY <1>2, <1>6, <2>1, <2>3 DEF Tells
  <2> QED BY <2>2, <2>3
<1>7. CASE Answers(p)
  <2>1. PICK q, r \in DOMAIN html' :
          Grown(html, html', {q, r}) /\ html'[q].of = header /\ html'[r].of.num = read
    BY <1>7 DEF Answers
  <2>2. CASE i \in {q, r}
    BY <1>1, <1>7, <2>1, <2>2 DEF Answers
  <2>3. CASE i \notin {q, r}
    BY <1>2, <1>7, <2>1, <2>3 DEF Answers
  <2> QED BY <2>2, <2>3
<1> QED BY <1>3, <1>4, <1>5, <1>6, <1>7 DEF Kind

LEMMA ShownNext ==
  ASSUME NEW p \in Parsers, Kind(p), OnceInv(p), ShownOnce
  PROVE  ShownOnce'
<1>1. /\ read \in Nat /\ header.num \in Nat
      /\ \A i \in DOMAIN html : html[i].of.num \in Nat
  BY Numbers DEF Kind
<1> SUFFICES ASSUME NEW i \in DOMAIN html', NEW j \in DOMAIN html',
                    Shows(html'[i]), Shows(html'[j]), html'[i].of.num = html'[j].of.num,
                    ~IsBarItem(html'[i].of)
             PROVE  i = j
  BY DEF ShownOnce, Shows, IsBarItem, IsItem
<1>2. ASSUME NEW Q, Grown(html, html', Q), i \notin Q, j \notin Q
      PROVE  i = j
  BY <1>2, GrownKeeps DEF ShownOnce, IsBarItem
<1>3. CASE Passes(p) \/ Reads(p) \/ Saves(p) \/ Holds(p)
  BY <1>2, <1>3 DEF Passes, Reads, Saves, Holds
<1>4. ASSUME NEW Q, Grown(html, html', Q), NEW k \in DOMAIN html', Shows(html'[k]), k \notin Q,
             MidLine(p)
      PROVE  /\ html'[k].of.num # read
             /\ Waiting(p) /\ html'[k].of.num = header.num =>
                  html'[k].of = header /\ IsBarItem(header)
  BY <1>4, GrownKeeps DEF OnceInv
<1>5. CASE Tells(p)
  <2>1. PICK q \in DOMAIN html' : Grown(html, html', {q}) /\ html'[q].of.num = read
    BY <1>5 DEF Tells, Kind
  <2>2. ASSUME NEW k \in {i, j}, k # q PROVE html'[k].of.num # read
    BY <1>4, <1>5, <2>1, <2>2 DEF Tells
  <2> QED BY <1>2, <2>1, <2>2
<1>6. CASE Answers(p)
  <2>1. PICK q, r \in DOMAIN html' :
          Grown(html, html', {q, r}) /\ html'[q].of = header /\ html'[r].of.num = read
    BY <1>6 DEF Answers
  <2>2. header.num # read
    BY <1>1, <1>6 DEF Answers
  <2>3. ASSUME NEW k \in {i, j}, k \notin {q, r}
        PROVE  html'[k].of.num # read /\ (html'[k].of.num = header.num =>
                  html'[k].of = header /\ IsBarItem(header))
    BY <1>4, <1>6, <2>1, <2>3 DEF Answers
  <2>4. CASE i \in {q, r} /\ j \in {q, r}
    BY <2>1, <2>2, <2>4
  <2>5. CASE i \in {q, r} /\ j \notin {q, r}
    BY <2>1, <2>3, <2>5
  <2>6. CASE i \notin {q, r} /\ j \in {q, r}
    BY <2>1, <2>3, <2>6
  <2>7. CASE i \notin {q, r} /\ j \notin {q, r}
    BY <1>2, <2>1, <2>7
  <2> QED BY <2>4, <2>5, <2>6, <2>7
<1> QED BY <1>3, <1>5, <1>6 DEF Kind

LEMMA OrderNext ==
  ASSUME NEW p \in Parsers, Kind(p), OnceInv(p), OrderInv(p), WrittenInOrder,
         \A i \in DOMAIN html : IsContent(html[i]) => Shows(html[i])
  PROVE  OrderInv(p)' /\ WrittenInOrder'
<1>1. /\ read \in Nat /\ header.num \in Nat
      /\ \A i \in DOMAIN html : i \in Nat /\ html[i].of.num \in Nat
      /\ \A i \in DOMAIN html' : i \in Nat /\ html'[i].of.num \in Nat
  <2>1. TypeOK /\ html' \in Seq(Pieces)
    BY DEF Kind, TypeOK
  <2> QED BY <2>1, PieceNumbers, Numbers
<1>2. ASSUME NEW i \in DOMAIN html, IsContent(html[i])
      PROVE  /\ html[i].of.num <= read
             /\ Waiting(p) /\ html[i].of.num > header.num => ~re_table(html[i].of.text)
  BY <1>2 DEF OnceInv, OrderInv
<1>3. ASSUME NEW Q, Grown(html, html', Q), NEW i \in DOMAIN html', IsContent(html'[i]), i \notin Q
      PROVE  i \in DOMAIN html /\ html[i] = html'[i] /\ IsContent(html[i])
  BY <1>3, GrownKeeps
<1>4. OrderInv(p)'
  <2> SUFFICES ASSUME Waiting(p)'
               PROVE  /\ re_table(header'.text)
                      /\ \A i \in DOMAIN html' : IsContent(html'[i]) /\ html'[i].of.num > header'.num
                           => ~re_table(html'[i].of.text)
    BY DEF OrderInv, IsContent
  <2>1. CASE Passes(p) \/ Reads(p) \/ Holds(p)
    BY <1>2, <1>3, <2>1 DEF Passes, Reads, Holds, OrderInv
  <2>2. CASE Saves(p)
    <3>1. header'.num = read
      BY <2>2 DEF Saves, Kind
    <3>2. ASSUME NEW i \in DOMAIN html', IsContent(html'[i]) PROVE html'[i].of.num <= read
      BY <1>2, <1>3, <2>2, <3>2 DEF Saves
    <3> QED BY <1>1, <2>2, <3>1, <3>2 DEF Saves
  <2>3. CASE Tells(p)
    <3>1. PICK q \in DOMAIN html' : Grown(html, html', {q}) /\ html'[q].of = in[p]
      BY <2>3 DEF Tells
    <3>2. html'[q].of.num > header.num => ~re_table(html'[q].of.text)
      BY <1>1, <2>3, <3>1 DEF Tells
    <3>3. re_table(header.text) /\ header' = header /\ Waiting(p)
      BY <2>3 DEF Tells, OrderInv
    <3> QED BY <1>2, <1>3, <3>1, <3>2, <3>3
  <2>4. CASE Answers(p)
    BY <2>4 DEF Answers
  <2> QED BY <2>1, <2>2, <2>3, <2>4 DEF Kind
<1>5. WrittenInOrder'
  <2> SUFFICES ASSUME NEW i \in DOMAIN html', NEW j \in DOMAIN html', i < j,
                      IsContent(html'[i]), IsContent(html'[j]), html'[i].of.num > html'[j].of.num
               PROVE  /\ html'[j].what \in {"th", "p"} /\ re_table(html'[j].of.text)
                      /\ ~re_table(html'[i].of.text)
    BY DEF WrittenInOrder, IsContent
  <2>1. ASSUME NEW Q, Grown(html, html', Q), i \notin Q, j \notin Q
        PROVE  /\ html'[j].what \in {"th", "p"} /\ re_table(html'[j].of.text)
               /\ ~re_table(html'[i].of.text)
    BY <1>3, <2>1 DEF WrittenInOrder
  <2>2. CASE Passes(p) \/ Reads(p) \/ Saves(p) \/ Holds(p)
    BY <2>1, <2>2 DEF Passes, Reads, Saves, Holds
  <2>3. CASE Tells(p)
    <3>1. PICK q \in DOMAIN html' : Grown(html, html', {q}) /\ html'[q].of.num = read
      BY <2>3 DEF Tells, Kind
    <3>2. CASE i = q
      <4>1. j \in DOMAIN html /\ j < q
        BY <1>1, <1>3, <3>1, <3>2, GrownKeeps
      <4> QED BY <1>1, <3>2, <4>1
    <3>3. CASE j = q /\ i # q
      <4>1. html'[i].of.num <= read
        BY <1>2, <1>3, <3>1, <3>3
      <4> QED BY <1>1, <3>1, <3>3, <4>1
    <3>4. CASE i # q /\ j # q
      BY <2>1, <3>1, <3>4
    <3> QED BY <3>2, <3>3, <3>4
  <2>4. CASE Answers(p)
    <3>1. PICK q, r \in DOMAIN html' :
            /\ q # r /\ Grown(html, html', {q, r})
            /\ html'[q].what \in {"th", "p"} /\ html'[q].of = header
            /\ html'[r].of.num = read
            /\ IsContent(html'[r]) => q < r /\ re_table(html'[r].of.text)
      BY <2>4 DEF Answers
    <3>2. Waiting(p) /\ header.num < read /\ re_table(header.text)
      BY <2>4 DEF Answers
    <3>3. ASSUME NEW k \in {i, j}, k \notin {q, r}
          PROVE  /\ k \in DOMAIN html /\ k < q /\ k < r /\ html'[k].of.num <= read
                 /\ html'[k].of.num > header.num => ~re_table(html'[k].of.text)
      <4>1. k \in DOMAIN html /\ html[k] = html'[k] /\ IsContent(html[k])
        BY <1>3, <3>1, <3>3
      <4> QED BY <1>2, <3>1, <3>2, <4>1, GrownKeeps
    <3>4. CASE i \notin {q, r} /\ j \notin {q, r}
      BY <2>1, <3>1, <3>4
    <3>5. CASE i \notin {q, r} /\ j = q
      BY <3>1, <3>2, <3>3, <3>5
    <3>6. CASE i \notin {q, r} /\ j = r
      BY <1>1, <3>1, <3>3, <3>6
    <3>7. CASE i \in {q, r} /\ j \notin {q, r}
      BY <1>1, <3>1, <3>3, <3>7
    <3>8. CASE i \in {q, r} /\ j \in {q, r}
      BY <1>1, <3>1, <3>2, <3>8
    <3> QED BY <3>4, <3>5, <3>6, <3>7, <3>8
  <2> QED BY <2>2, <2>3, <2>4 DEF Kind
<1> QED BY <1>4, <1>5

\* A header waits that was read before the line numbered num, or was until it
\* was written behind the piece at i.
WaitedAt(p, h, i) ==
  \/ Waiting(p) /\ header.num < h[i].of.num
  \/ \E j \in DOMAIN h : j > i /\ IsContent(h[j]) /\ h[j].of.num < h[i].of.num

LEMMA FenceWaits ==
  ASSUME NEW p \in Parsers
  PROVE  FenceInv(p) <=>
           \A i \in DOMAIN html :
             IsContent(html[i]) /\ re_codeblock(html[i].of.text) /\ ~re_table(html[i].of.text) =>
               html[i].what = "p" /\ WaitedAt(p, html, i)
BY DEF FenceInv, HeaderWaitedAt, WaitedAt, Waiting

LEMMA FenceNext ==
  ASSUME NEW p \in Parsers, Kind(p), FenceInv(p), OrderInv(p)
  PROVE  FenceInv(p)'
<1>1. /\ read \in Nat /\ header.num \in Nat
      /\ \A i \in DOMAIN html : i \in Nat /\ html[i].of.num \in Nat
  BY Numbers DEF Kind
<1> SUFFICES ASSUME NEW i \in DOMAIN html', IsContent(html'[i]),
                    re_codeblock(html'[i].of.text), ~re_table(html'[i].of.text)
             PROVE  /\ html'[i].what = "p"
                    /\ \/ Waiting(p)' /\ header'.num < html'[i].of.num
                       \/ \E j \in DOMAIN html' :
                            j > i /\ IsContent(html'[j]) /\ html'[j].of.num < html'[i].of.num
  <2>1. (\A j \in DOMAIN html' :
           IsContent(html'[j]) /\ re_codeblock(html'[j].of.text) /\ ~re_table(html'[j].of.text) =>
             /\ html'[j].what = "p"
             /\ \/ Waiting(p)' /\ header'.num < html'[j].of.num
                \/ \E k \in DOMAIN html' :
                     k > j /\ IsContent(html'[k]) /\ html'[k].of.num < html'[j].of.num)
          => FenceInv(p)'
    BY DEF FenceInv, HeaderWaitedAt, Waiting, IsContent
  <2> QED BY <2>1
<1>2. ASSUME NEW Q, Grown(html, html', Q), i \notin Q
      PROVE  /\ i \in DOMAIN html /\ html'[i] = html[i] /\ html'[i].what = "p"
             /\ \/ Waiting(p) /\ header.num < html'[i].of.num
                \/ \E j \in DOMAIN html' :
                     j > i /\ IsContent(html'[j]) /\ html'[j].of.num < html'[i].of.num
  <2>1. i \in DOMAIN html /\ html'[i] = html[i] /\ IsContent(html[i])
    BY <1>2, GrownKeeps
  <2>2. html[i].what = "p" /\ WaitedAt(p, html, i)
    BY <2>1, FenceWaits
  <2> QED BY <1>2, <2>1, <2>2, GrownKeeps DEF WaitedAt
<1>3. CASE Passes(p) \/ Reads(p) \/ Holds(p)
  BY <1>2, <1>3 DEF Passes, Reads, Holds
<1>4. CASE Saves(p)
  BY <1>2, <1>4 DEF Saves
<1>5. CASE Tells(p)
  <2>1. PICK q \in DOMAIN html' :
          /\ Grown(html, html', {q}) /\ html'[q].of = in[p]
          /\ IsContent(html'[q]) /\ re_codeblock(in[p].text) /\ ~re_table(in[p].text) =>
               html'[q].what = "p" /\ Waiting(p) /\ header.num < read
    BY <1>5 DEF Tells
  <2>2. CASE i = q
    BY <1>5, <2>1, <2>2 DEF Tells, Kind
  <2>3. CASE i # q
    BY <1>2, <1>5, <2>1, <2>3 DEF Tells
  <2> QED BY <2>2, <2>3
<1>6. CASE Answers(p)
  <2>1. PICK q, r \in DOMAIN html' :
          /\ q # r /\ Grown(html, html', {q, r})
          /\ IsContent(html'[q]) /\ html'[q].of = header
          /\ IsContent(html'[r]) => re_table(html'[r].of.text)
    BY <1>6 DEF Answers
  <2>2. CASE i \in {q, r}
    BY <1>6, <2>1, <2>2 DEF Answers
  <2>3. CASE i \notin {q, r}
    <3>1. i \in DOMAIN html /\ q > i
      BY <1>1, <1>2, <2>1, <2>3, GrownKeeps
    <3> QED BY <1>2, <2>1, <2>3, <3>1
  <2> QED BY <2>2, <2>3
<1> QED BY <1>3, <1>4, <1>5, <1>6 DEF Kind

------------------------------------------------------------------------------
(* The theorems *)

ParserInv(p) == LoneInv(p) /\ HtmlInv(p)

LEMMA HtmlInit == Init => \A p \in Parsers : ParserInv(p)
<1> SUFFICES ASSUME Init, NEW p \in Parsers PROVE HtmlInv(p)
  BY LoneInit DEF ParserInv
<1>1. html = <<>> /\ read = 0 /\ table = "TABLE_START" /\ ~Late(p)
  BY DEF Init, Late
<1>2. DOMAIN html = {} /\ 1..read = {} /\ ~Waiting(p)
  BY <1>1 DEF Waiting
<1> QED BY <1>2 DEF HtmlInv, LostInv, OnceInv, ShownOnce, OrderInv, WrittenInOrder, FenceInv

\* The invariant is inductive.
LEMMA HtmlNext ==
  ASSUME NEW p \in Parsers, Parsers = {p}
  PROVE  ParserInv(p) /\ [Next]_vars => ParserInv(p)'
<1> SUFFICES ASSUME ParserInv(p), [Next]_vars PROVE ParserInv(p)'
  OBVIOUS
<1>1. LoneInv(p)'
  BY LoneNext DEF ParserInv
<1>2. TypeOK /\ LineInv(p) /\ TypeOK' /\ LineInv(p)'
  BY <1>1 DEF ParserInv, LoneInv, TypeInv
<1>3. Kind(p)
  <2>1. MidLine(p) => in[p].num = read
    BY <1>2 DEF LineInv
  <2>2. CASE Step(p)
    BY <1>2, <2>1, <2>2, StepKinds DEF ParserInv, Kind
  <2>3. CASE UNCHANGED vars
    <3>1. UNCHANGED <<table, header, code_block, pc, in, out, html, read>>
      BY <2>3 DEF vars, globals
    <3>2. (Late(p)' <=> Late(p)) /\ (MidLine(p)' <=> MidLine(p))
      BY <3>1 DEF Late, MidLine
    <3>3. Passes(p)
      BY <1>2, <3>1, <3>2, GrownNone, WaitingStays DEF Passes
    <3> QED BY <1>2, <2>1, <3>3 DEF Kind
  <2> QED BY <2>2, <2>3 DEF Next
<1>4. \A i \in DOMAIN html : IsContent(html[i]) => Shows(html[i])
  BY DEF IsContent, Shows
<1>5. HtmlInv(p)'
  BY <1>3, <1>4, LostNext, OnceNext, ShownNext, OrderNext, FenceNext DEF ParserInv, HtmlInv
<1> QED BY <1>1, <1>5 DEF ParserInv

\* What the invariant says between two lines, when only a header waits.
LEMMA HtmlBetween ==
  ASSUME NEW p \in Parsers, ParserInv(p)
  PROVE  NothingLost /\ ShownOnce /\ WrittenInOrder /\ FencesAreSyntax
<1>1. ASSUME BetweenLines PROVE ~MidLine(p) /\ (Waiting(p) <=> table = "TABLE_FORMAT")
  BY <1>1 DEF BetweenLines, MidLine, Waiting, Late
<1>2. NothingLost
  BY <1>1 DEF NothingLost, ParserInv, HtmlInv, LostInv
<1>3. FencesAreSyntax
  BY <1>1 DEF FencesAreSyntax, HeaderWaitedAt, ParserInv, HtmlInv, FenceInv
<1> QED BY <1>2, <1>3 DEF ParserInv, HtmlInv

Inductive == \A p \in Parsers : ParserInv(p)

\* What a parser leaves from line to line and from call to call, in the globals, in
\* parStr and in the html, holds in every state it reaches.
THEOREM AlwaysInductive == ASSUME Alone PROVE Spec => []Inductive
<1> PICK p : Parsers = {p}
  BY DEF Alone
<1>1. Init => ParserInv(p)
  BY HtmlInit
<1>2. ParserInv(p) /\ [Next]_vars => ParserInv(p)'
  BY HtmlNext
<1>3. ParserInv(p) => Inductive
  BY DEF Inductive
<1> QED BY <1>1, <1>2, <1>3, PTL DEF Spec

\* The properties are what it says between two lines.
LEMMA InductiveSays ==
  ASSUME Alone
  PROVE  Inductive => NothingLost /\ ShownOnce /\ WrittenInOrder /\ FencesAreSyntax
BY HtmlBetween DEF Alone, Inductive

\* Between two lines every line read is in the html or waits as a table's header,
\* whichever calls claimed it and rewrote parStr.
THEOREM NoLineLost == ASSUME Alone PROVE Spec => []NothingLost
<1>1. Inductive => NothingLost
  BY InductiveSays
<1> QED BY <1>1, AlwaysInductive, PTL

\* No line is written twice, but for a list item with a bar in it, which isTable
\* takes for a header and a list for its item.
THEOREM NoLineTwice == ASSUME Alone PROVE Spec => []ShownOnce
<1>1. Inductive => ShownOnce
  BY InductiveSays
<1> QED BY <1>1, AlwaysInductive, PTL

\* Only a header is written late, behind lines without a bar.
THEOREM OnlyHeadersLate == ASSUME Alone PROVE Spec => []WrittenInOrder
<1>1. Inductive => WrittenInOrder
  BY InductiveSays
<1> QED BY <1>1, AlwaysInductive, PTL

\* A fence without a bar begins or ends a code block unless a header waits, whatever
\* the documents before it left in the globals.
THEOREM FencesHold == ASSUME Alone PROVE Spec => []FencesAreSyntax
<1>1. Inductive => FencesAreSyntax
  BY InductiveSays
<1> QED BY <1>1, AlwaysInductive, PTL

==============================================================================
