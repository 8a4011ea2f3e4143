----------------------------- MODULE ParserProofs -----------------------------
(***************************************************************************)
(* Parser::start for lines of any characters, any number of documents and  *)
(* lines.  Types hold for any number of parsers; the other theorems are of *)
(* a parser that is alone, as the properties of Parser are.                *)
(***************************************************************************)
EXTENDS Parser, PatternsProofs, FiniteSetTheorems, SequenceTheorems

------------------------------------------------------------------------------
(* Types *)

\* The characters of a line, wrapped or not.  (A literal is a STRING, but the
\* provers do not know.)
Chars == STRING \cup {"|"}

\* What isTable leaves in front of a line that it wrapped.
Barred(line) == line.text # <<>> /\ line.text[1] = "|"

\* isTable finds parStr empty and its line as it was read; if it adds two pieces
\* the line is wrapped, so that no fence adds a third.
RoomInv ==
  \A p \in Parsers :
    /\ pc[p] = "isTable" => out[p] = <<>> /\ in[p].text \in Line
    /\ pc[p] = "isCodeBlock" /\ Len(out[p]) > 1 => Barred(in[p])

TypeInv == TypeOK /\ RoomInv

\* A line read, wrapped.
LEMMA WrapText ==
  ASSUME NEW line, line.text \in Line, line \in LineRecords
  PROVE  /\ Wrap(line) \in LineRecords /\ Barred(Wrap(line))
         /\ Wrap(line).num = line.num /\ Wrap(line).doc = line.doc
<1>1. line.text \in Seq(Chars)
  BY LineAssumption DEF Chars
<1>2. Wrap(line).text = <<"|">> \o line.text \o <<"|">>
  BY DEF Wrap, LineRecords
<1>3. Wrap([text |-> line.text]).text = <<"|">> \o line.text \o <<"|">>
  BY DEF Wrap
<1>4. Wrap(line) \in LineRecords
  <2> DEFINE w == <<"|">> \o line.text \o <<"|">>
  <2>1. [line EXCEPT !.text = w] = [doc |-> line.doc, num |-> line.num, text |-> w]
    <3> HIDE DEF w
    <3> QED BY DEF LineRecords
  <2>2. Wrap(line).text \in {Wrap([text |-> l]).text : l \in Line}
    BY <1>2, <1>3
  <2>3. w \in Texts
    BY <1>2, <2>2 DEF Texts
  <2>4. Wrap(line) = [doc |-> line.doc, num |-> line.num, text |-> w]
    BY <2>1 DEF Wrap
  <2> HIDE DEF w
  <2> QED BY <2>3, <2>4 DEF LineRecords
<1>5. "|" \in Chars
  BY DEF Chars
<1>6. LET w == <<"|">> \o line.text \o <<"|">> IN w # <<>> /\ w[1] = "|"
  BY <1>1, <1>5
<1>7. Wrap(line).num = line.num /\ Wrap(line).doc = line.doc
  BY DEF Wrap, LineRecords
<1> QED BY <1>2, <1>4, <1>6, <1>7 DEF Barred

\* Whatever its calls did to it, a line is a sequence of characters.
LEMMA TextIsSeq ==
  ASSUME NEW line \in LineRecords
  PROVE  line.text \in Seq(Chars)
<1>1. ASSUME NEW l \in Line PROVE l \in Seq(Chars) /\ Wrap([text |-> l]).text \in Seq(Chars)
  <2>1. l \in Seq(Chars)
    BY LineAssumption DEF Chars
  <2>2. Wrap([text |-> l]).text = <<"|">> \o l \o <<"|">>
    BY DEF Wrap
  <2>3. "|" \in Chars
    BY DEF Chars
  <2> QED BY SMTT(30), ZenonT(40), <2>1, <2>2, <2>3
<1>2. <<>> \in Seq(Chars)
  OBVIOUS
<1> QED BY <1>1, <1>2 DEF LineRecords, Texts

\* What the calls ask of a line excludes one another as the patterns do.
LEMMA LineMarks ==
  ASSUME NEW line \in LineRecords
  PROVE  /\ ~(IsItem("ul", line) /\ IsItem("ol", line))
         /\ re_codeblock(line.text) => \A k \in Lists : ~IsItem(k, line)
         /\ Barred(line) => /\ \A k \in Lists : ~IsItem(k, line)
                            /\ ~re_codeblock(line.text)
                            /\ re_table(line.text)
         /\ re_codeblock(line.text) => Format(line) = "p"
<1>1. line.text \in Seq(Chars)
  BY TextIsSeq
<1>2. \A k \in Lists : IsItem(k, line) => re_unorderlist(line.text) \/ re_orderlist(line.text)
  BY DEF IsItem
<1>3. ~(IsItem("ul", line) /\ IsItem("ol", line))
  BY <1>1, MarksExclude DEF IsItem
<1>4. re_codeblock(line.text) => \A k \in Lists : ~IsItem(k, line)
  BY <1>1, <1>2, MarksExclude
<1>5. Barred(line) => /\ \A k \in Lists : ~IsItem(k, line)
                      /\ ~re_codeblock(line.text)
                      /\ re_table(line.text)
  BY <1>1, <1>2, BarredIsNoMark DEF Barred
<1>6. re_codeblock(line.text) => Format(line) = "p"
  BY <1>1, FenceIsText DEF Format
<1> QED BY <1>3, <1>4, <1>5, <1>6

\* Pieces of line records are Pieces.
LEMMA PieceTypes ==
  ASSUME NEW line \in LineRecords
  PROVE  /\ \A e \in Elements : Begin(e, line) \in Pieces /\ End(e, line) \in Pieces
         /\ \A how \in {"th", "td", "li", "code", "br", "h", "hr", "p"} :
              Content(how, line) \in Pieces
         /\ Content(Format(line), line) \in Pieces
<1>1. Format(line) \in {"br", "h", "hr", "p"}
  BY DEF Format
<1>2. \A e \in Elements : Begin(e, line) \in Pieces /\ End(e, line) \in Pieces
  BY DEF Pieces, Begin, End, Piece
<1>3. \A how \in {"th", "td", "li", "code", "br", "h", "hr", "p"} : Content(how, line) \in Pieces
  BY DEF Pieces, Content, Piece
<1> QED BY <1>1, <1>2, <1>3

\* Types hold at first.
LEMMA TypeInit == Init => TypeInv
BY BoundsAssumption DEF Init, TypeInv, RoomInv, TypeOK, LineRecords, Texts, NoLine

\* A call returns to start, which makes the next one.
Calls == {"isTable", "isCodeBlock", "isUnorderList", "isOrderList"}

LEMMA ReturnType ==
  ASSUME TypeOK, NEW p \in Parsers, NEW result \in BOOLEAN, Return(p, result), pc[p] \in Calls
  PROVE  /\ pc' \in [Parsers -> {"idle", "getline"} \cup DOMAIN After \cup {"write"}]
         /\ pc'[p] = After[pc[p]] /\ pc'[p] \in {"isCodeBlock", "isUnorderList", "isOrderList", "write"}
         /\ \A q \in Parsers \ {p} : pc'[q] = pc[q]
         /\ multi' \in [Parsers -> BOOLEAN]
         /\ multi'[p] = (multi[p] \/ result)
         /\ doc' = doc /\ docs' = docs /\ read' = read
<1>1. After[pc[p]] \in {"isCodeBlock", "isUnorderList", "isOrderList", "write"}
  BY DEF After, Calls
<1>2. {"isCodeBlock", "isUnorderList", "isOrderList"} \subseteq DOMAIN After
  BY DEF After
<1>3. pc' = [pc EXCEPT ![p] = After[pc[p]]]
  BY DEF Return
<1>4. (multi[p] \/ result) \in BOOLEAN
  OBVIOUS
<1>5. multi' = [multi EXCEPT ![p] = multi[p] \/ result]
  BY DEF Return
<1>6. multi' \in [Parsers -> BOOLEAN] /\ multi'[p] = (multi[p] \/ result)
  BY <1>5, Zenon DEF TypeOK
<1> QED BY <1>1, <1>2, <1>3, <1>6 DEF Return, TypeOK

\* SetOut and AddOut, while parStr keeps to two pieces.
LEMMA SetOutType ==
  ASSUME TypeOK, NEW p \in Parsers, NEW pieces \in Seq(Pieces), Len(pieces) <= 2,
         SetOut(p, pieces)
  PROVE  /\ out' \in [Parsers -> Seq(Pieces)]
         /\ out'[p] = pieces
         /\ \A q \in Parsers : Len(out'[q]) <= 2
         /\ \A q \in Parsers \ {p} : out'[q] = out[q]
BY DEF SetOut, TypeOK

LEMMA AddOutType ==
  ASSUME TypeOK, NEW p \in Parsers, NEW pieces \in Seq(Pieces), AddOut(p, pieces),
         Len(out[p]) + Len(pieces) <= 2
  PROVE  /\ out' \in [Parsers -> Seq(Pieces)]
         /\ out'[p] = out[p] \o pieces /\ Len(out'[p]) = Len(out[p]) + Len(pieces)
         /\ \A q \in Parsers : Len(out'[q]) <= 2
         /\ \A q \in Parsers \ {p} : out'[q] = out[q]
<1>1. out[p] \in Seq(Pieces) /\ Len(out[p]) <= 2
  BY DEF TypeOK
<1>2. out[p] \o pieces \in Seq(Pieces) /\ Len(out[p] \o pieces) = Len(out[p]) + Len(pieces)
  BY <1>1
<1> QED BY <1>1, <1>2 DEF AddOut, TypeOK

\* The calls that isUnorderList and isOrderList are.
LEMMA ListCalls ==
  /\ ListCall["ul"] = "isUnorderList" /\ ListCall["ol"] = "isOrderList"
  /\ \A k \in Lists : ListCall[k] \in Calls \ {"isTable", "isCodeBlock"}
<1>1. ListCall["ul"] = "isUnorderList" /\ ListCall["ol"] = "isOrderList"
  BY DEF ListCall
<1> QED BY <1>1 DEF Lists, Calls

\* What start writes.
LEMMA PutType ==
  ASSUME TypeOK, NEW pieces \in Seq(Pieces), Put(pieces)
  PROVE  html' \in Seq(Pieces)
BY DEF Put, TypeOK

\* A call keeps the types if what it assigns has them.
LEMMA CallTypes ==
  ASSUME TypeInv, NEW p \in Parsers, NEW result \in BOOLEAN, Return(p, result), pc[p] \in Calls,
         table' \in {"TABLE_START", "TABLE_FORMAT", "TABLE_LINE"},
         header' \in LineRecords,
         code_block' \in {"MUL_START", "MUL_MIDDLE"},
         lists' \in [Lists -> {"MUL_START", "MUL_MIDDLE"}],
         in' \in [Parsers -> LineRecords],
         out' \in [Parsers -> Seq(Pieces)],
         \A q \in Parsers : Len(out'[q]) <= 2,
         \A q \in Parsers \ {p} : in'[q] = in[q] /\ out'[q] = out[q],
         pc[p] = "isTable" /\ Len(out'[p]) > 1 => Barred(in'[p]),
         html' \in Seq(Pieces)
  PROVE  TypeInv'
<1>1. TypeOK /\ RoomInv
  BY DEF TypeInv
<1>2. /\ pc' \in [Parsers -> {"idle", "getline"} \cup DOMAIN After \cup {"write"}]
      /\ pc'[p] = After[pc[p]] /\ pc'[p] \in {"isCodeBlock", "isUnorderList", "isOrderList", "write"}
      /\ \A q \in Parsers \ {p} : pc'[q] = pc[q]
      /\ multi' \in [Parsers -> BOOLEAN]
      /\ doc' = doc /\ docs' = docs /\ read' = read
  BY <1>1, ReturnType
<1>3. TypeOK'
  BY <1>1, <1>2 DEF TypeOK
<1>4. pc'[p] # "isTable"
  BY <1>2
<1>5. pc'[p] = "isCodeBlock" => pc[p] = "isTable"
  BY <1>2 DEF Calls, After
<1>6. \A q \in Parsers \ {p} : (pc'[q] = "isTable" => out'[q] = <<>> /\ in'[q].text \in Line)
                               /\ (pc'[q] = "isCodeBlock" /\ Len(out'[q]) > 1 => Barred(in'[q]))
  BY <1>1, <1>2 DEF RoomInv
<1>7. RoomInv'
  BY <1>4, <1>5, <1>6 DEF RoomInv
<1> QED BY <1>3, <1>7 DEF TypeInv

\* Every step keeps the types.
LEMMA TypeNext == TypeInv /\ [Next]_vars => TypeInv'
<1> SUFFICES ASSUME TypeInv, [Next]_vars PROVE TypeInv'
  OBVIOUS
<1>0. TypeOK /\ RoomInv
  BY DEF TypeInv
<1>a. \A p \in Parsers : in[p] \in LineRecords
  BY <1>0 DEF TypeOK
<1>b. header \in LineRecords
  BY <1>0 DEF TypeOK
<1>c. /\ table \in {"TABLE_START", "TABLE_FORMAT", "TABLE_LINE"}
      /\ code_block \in {"MUL_START", "MUL_MIDDLE"}
      /\ lists \in [Lists -> {"MUL_START", "MUL_MIDDLE"}]
      /\ in \in [Parsers -> LineRecords]
      /\ out \in [Parsers -> Seq(Pieces)] /\ \A p \in Parsers : Len(out[p]) <= 2
      /\ html \in Seq(Pieces)
  BY <1>0 DEF TypeOK
<1>d. ASSUME NEW p \in Parsers, out[p] = <<>>, out' = out PROVE ~(Len(out'[p]) > 1)
  BY <1>d
<1>1. ASSUME NEW p \in Parsers, Open(p) PROVE TypeInv'
  BY <1>0, <1>1, BoundsAssumption DEF Open, TypeInv, TypeOK, RoomInv, globals
<1>2. ASSUME NEW p \in Parsers, GetLine(p) PROVE TypeInv'
  <2>1. PICK l \in Line : in' = [in EXCEPT ![p] = [doc |-> doc[p], num |-> read', text |-> l]]
    BY <1>2 DEF GetLine
  <2>2. read' \in 0..MaxLines /\ doc[p] \in 0..MaxDocs
    BY <1>0, <1>2, BoundsAssumption DEF GetLine, TypeOK
  <2>3. [doc |-> doc[p], num |-> read', text |-> l] \in LineRecords
    BY <2>2 DEF LineRecords, Texts
  <2>4. in' \in [Parsers -> LineRecords] /\ in'[p].text = l
    BY <1>0, <2>1, <2>3 DEF TypeOK
  <2>5. /\ out' \in [Parsers -> Seq(Pieces)]
        /\ out'[p] = <<>>
        /\ \A q \in Parsers : Len(out'[q]) <= 2
    BY <1>0, <1>2 DEF GetLine, ClearOut, TypeOK
  <2>6. TypeOK'
    BY <1>0, <1>2, <2>2, <2>4, <2>5 DEF GetLine, TypeOK, globals, After
  <2>7. RoomInv'
    BY <1>0, <1>2, <2>1, <2>4, <2>5 DEF GetLine, ClearOut, TypeOK, RoomInv
  <2> QED BY <2>6, <2>7 DEF TypeInv
<1>3. ASSUME NEW p \in Parsers, EndOfFile(p) PROVE TypeInv'
  BY <1>0, <1>3 DEF EndOfFile, TypeInv, TypeOK, RoomInv, globals
<1>4. ASSUME NEW p \in Parsers, WriteLine(p) PROVE TypeInv'
  <2>1. <<Content(Format(in[p]), in[p])>> \in Seq(Pieces) /\ out[p] \in Seq(Pieces)
    BY <1>0, <1>a, PieceTypes DEF TypeOK
  <2>2. html' \in Seq(Pieces)
    BY <1>0, <1>4, <2>1, PutType DEF WriteLine
  <2> QED BY <1>0, <1>4, <2>2 DEF WriteLine, TypeInv, TypeOK, RoomInv, globals
<1>5. ASSUME NEW p \in Parsers, SaveHeader(p) PROVE TypeInv'
  <2>1. Return(p, TRUE) /\ pc[p] \in Calls /\ out[p] = <<>> /\ header' = in[p]
        /\ table' = "TABLE_FORMAT" /\ UNCHANGED <<code_block, lists, in, out, html>>
    BY <1>0, <1>5 DEF SaveHeader, Calls, RoomInv
  <2> QED BY <1>0, <1>a, <1>c, <1>d, <2>1, CallTypes
<1>6. ASSUME NEW p \in Parsers, OpenTable(p) PROVE TypeInv'
  <2>1. in[p].text \in Line /\ out[p] = <<>>
    BY <1>0, <1>6 DEF OpenTable, RoomInv
  <2>2. Wrap(in[p]) \in LineRecords /\ Barred(Wrap(in[p]))
    BY <1>a, <2>1, WrapText
  <2>3. /\ in' \in [Parsers -> LineRecords] /\ in'[p] = Wrap(in[p])
        /\ \A q \in Parsers \ {p} : in'[q] = in[q]
    BY <1>0, <1>6, <2>2 DEF OpenTable, TypeOK
  <2>4. <<Begin("table", in[p]), Content("th", header)>> \in Seq(Pieces)
    BY <1>a, <1>b, PieceTypes DEF Elements
  <2>5. /\ out' \in [Parsers -> Seq(Pieces)]
        /\ \A q \in Parsers : Len(out'[q]) <= 2
        /\ \A q \in Parsers \ {p} : out'[q] = out[q]
    <3> DEFINE pieces == <<Begin("table", in[p]), Content("th", header)>>
    <3>1. Len(out[p]) + Len(pieces) <= 2
      BY <2>1
    <3>2. AddOut(p, pieces)
      BY <1>6 DEF OpenTable
    <3> HIDE DEF pieces
    <3> QED BY <1>0, <2>4, <3>1, <3>2, AddOutType DEF pieces
  <2>6. Return(p, TRUE) /\ pc[p] \in Calls /\ table' = "TABLE_LINE"
        /\ UNCHANGED <<header, code_block, lists, html>>
    BY <1>6 DEF OpenTable, Calls
  <2> QED BY <1>0, <1>b, <1>c, <2>2, <2>3, <2>5, <2>6, CallTypes
<1>7. ASSUME NEW p \in Parsers, NotATable(p) PROVE TypeInv'
  <2>1. in[p].text \in Line
    BY <1>0, <1>7 DEF NotATable, RoomInv
  <2>2. Wrap(in[p]) \in LineRecords /\ Barred(Wrap(in[p]))
    BY <1>a, <2>1, WrapText
  <2>3. /\ in' \in [Parsers -> LineRecords] /\ in'[p] = Wrap(in[p])
        /\ \A q \in Parsers \ {p} : in'[q] = in[q]
    BY <1>0, <1>7, <2>2 DEF NotATable, TypeOK
  <2>4. Refused(Wrap(in[p])) \in Seq(Pieces) /\ Len(Refused(Wrap(in[p]))) = 2
    <3>1. Content("p", header) \in Pieces /\ Content("p", Wrap(in[p])) \in Pieces
      BY <1>b, <2>2, PieceTypes
    <3> QED BY <3>1 DEF Refused
  <2>5. /\ out' \in [Parsers -> Seq(Pieces)]
        /\ \A q \in Parsers : Len(out'[q]) <= 2
        /\ \A q \in Parsers \ {p} : out'[q] = out[q]
    <3> DEFINE pieces == Refused(Wrap(in[p]))
    <3>1. SetOut(p, pieces) /\ Len(pieces) <= 2
      BY <1>7, <2>4 DEF NotATable
    <3> HIDE DEF pieces
    <3> QED BY <1>0, <2>4, <3>1, SetOutType DEF pieces
  <2>6. Return(p, TRUE) /\ pc[p] \in Calls /\ table' = "TABLE_START"
        /\ UNCHANGED <<header, code_block, lists, html>>
    BY <1>7 DEF NotATable, Calls
  <2> QED BY <1>0, <1>b, <1>c, <2>2, <2>3, <2>5, <2>6, CallTypes
<1>8. ASSUME NEW p \in Parsers, Row(p) PROVE TypeInv'
  <2> DEFINE pieces == <<Content(IF HasCells(in[p]) THEN "td" ELSE "br", in[p])>>
  <2>1. pieces \in Seq(Pieces) /\ Len(pieces) = 1
    BY <1>a, PieceTypes
  <2>2. AddOut(p, pieces) /\ out[p] = <<>> 
        /\ UNCHANGED <<table, header, code_block, lists, in, html>>
        /\ Return(p, TRUE) /\ pc[p] \in Calls
    BY <1>0, <1>8 DEF Row, RoomInv, Calls, globals
  <2> HIDE DEF pieces
  <2>3. /\ out' \in [Parsers -> Seq(Pieces)]
        /\ Len(out'[p]) = Len(out[p]) + Len(pieces)
        /\ \A q \in Parsers : Len(out'[q]) <= 2
        /\ \A q \in Parsers \ {p} : out'[q] = out[q]
    <3>1. Len(out[p]) + Len(pieces) <= 2
      BY <2>1, <2>2
    <3> QED BY <1>0, <2>1, <2>2, <3>1, AddOutType
  <2>4. ~(Len(out'[p]) > 1)
    <3>1. Len(out[p]) = 0
      BY <2>2
    <3> QED BY <2>1, <2>2, <2>3, <3>1
  <2> QED BY <1>0, <1>b, <1>c, <2>2, <2>3, <2>4, CallTypes
<1>9. ASSUME NEW p \in Parsers, EndTable(p) PROVE TypeInv'
  <2>1. <<End("table", in[p])>> \in Seq(Pieces)
    BY <1>a, PieceTypes DEF Elements
  <2>2. html' \in Seq(Pieces)
    BY <1>0, <1>9, <2>1, PutType DEF EndTable
  <2>3. Return(p, FALSE) /\ pc[p] \in Calls /\ out[p] = <<>> /\ table' = "TABLE_START"
        /\ UNCHANGED <<header, code_block, lists, in, out>>
    BY <1>0, <1>9 DEF EndTable, Calls, RoomInv
  <2> QED BY <1>0, <1>b, <1>c, <1>d, <2>2, <2>3, CallTypes
<1>10. ASSUME NEW p \in Parsers, NoTable(p) PROVE TypeInv'
  <2>1. Return(p, FALSE) /\ pc[p] \in Calls /\ out[p] = <<>>
        /\ UNCHANGED <<table, header, code_block, lists, in, out, html>>
    BY <1>0, <1>10 DEF NoTable, Calls, RoomInv, globals
  <2> QED BY <1>0, <1>b, <1>c, <1>d, <2>1, CallTypes
<1>11. ASSUME NEW p \in Parsers, NEW kind \in {"begin", "end"},
              AddOut(p, <<Piece(kind, "code", in[p])>>), re_codeblock(in[p].text),
              code_block' \in {"MUL_START", "MUL_MIDDLE"}, pc[p] = "isCodeBlock",
              Return(p, TRUE), UNCHANGED <<table, header, lists, in, html>>
       PROVE TypeInv'
  <2>1. Len(out[p]) <= 1
    BY <1>0, <1>a, <1>11, LineMarks DEF RoomInv, TypeOK
  <2>2. <<Piece(kind, "code", in[p])>> \in Seq(Pieces)
    BY <1>a, PieceTypes DEF Elements, Begin, End
  <2>3. /\ out' \in [Parsers -> Seq(Pieces)]
        /\ \A q \in Parsers : Len(out'[q]) <= 2
        /\ \A q \in Parsers \ {p} : out'[q] = out[q]
    <3> DEFINE pieces == <<Piece(kind, "code", in[p])>>
    <3>1. Len(out[p]) + Len(pieces) <= 2
      BY <1>c, <2>1
    <3>2. AddOut(p, pieces)
      BY <1>11
    <3> HIDE DEF pieces
    <3> QED BY <1>0, <2>2, <3>1, <3>2, AddOutType DEF pieces
  <2> QED BY <1>0, <1>b, <1>c, <1>11, <2>3, CallTypes DEF Calls
<1>12. ASSUME NEW p \in Parsers, OpenCode(p) PROVE TypeInv'
  BY <1>11, <1>12 DEF OpenCode, AtFence, Begin
<1>13. ASSUME NEW p \in Parsers, CloseCode(p) PROVE TypeInv'
  BY <1>11, <1>13 DEF CloseCode, AtFence, End
<1>14. ASSUME NEW p \in Parsers, NEW pieces \in Seq(Pieces), Len(pieces) <= 2,
              SetOut(p, pieces), lists' \in [Lists -> {"MUL_START", "MUL_MIDDLE"}],
              pc[p] \in Calls \ {"isTable"}, Return(p, TRUE),
              UNCHANGED <<table, header, code_block, in, html>>
       PROVE TypeInv'
  <2>1. /\ out' \in [Parsers -> Seq(Pieces)]
        /\ \A q \in Parsers : Len(out'[q]) <= 2
        /\ \A q \in Parsers \ {p} : out'[q] = out[q]
    BY <1>0, <1>14, SetOutType
  <2> QED BY <1>0, <1>b, <1>c, <1>14, <2>1, CallTypes
<1>15. ASSUME NEW p \in Parsers, CodeLine(p) PROVE TypeInv'
  <2>1. <<Content("code", in[p])>> \in Seq(Pieces)
    BY <1>a, PieceTypes
  <2> DEFINE pieces == <<Content("code", in[p])>>
  <2>2. SetOut(p, pieces) /\ pc[p] \in Calls \ {"isTable"} /\ Return(p, TRUE)
        /\ UNCHANGED <<table, header, code_block, lists, in, html>>
    BY <1>15 DEF CodeLine, Calls, globals
  <2>3. Len(pieces) <= 2
    OBVIOUS
  <2> HIDE DEF pieces
  <2> QED BY <1>c, <1>14, <2>1, <2>2, <2>3 DEF pieces
<1>16. ASSUME NEW p \in Parsers, NoCode(p) PROVE TypeInv'
  <2>1. Return(p, FALSE) /\ pc[p] \in Calls /\ pc[p] # "isTable"
        /\ UNCHANGED <<table, header, code_block, lists, in, out, html>>
    BY <1>16 DEF NoCode, Calls, globals
  <2> QED BY <1>0, <1>b, <1>c, <2>1, CallTypes
<1>17. ASSUME NEW p \in Parsers, NEW k \in Lists, FirstItem(p, k) PROVE TypeInv'
  <2>1. <<Begin(k, in[p]), Content("li", in[p])>> \in Seq(Pieces)
    BY <1>a, PieceTypes DEF Elements
  <2>2. lists' \in [Lists -> {"MUL_START", "MUL_MIDDLE"}]
    BY <1>0, <1>17 DEF FirstItem, TypeOK
  <2> DEFINE pieces == <<Begin(k, in[p]), Content("li", in[p])>>
  <2>3. SetOut(p, pieces) /\ pc[p] \in Calls \ {"isTable"} /\ Return(p, TRUE)
        /\ UNCHANGED <<table, header, code_block, in, html>>
    BY <1>17, ListCalls DEF FirstItem
  <2>4. Len(pieces) <= 2
    OBVIOUS
  <2> HIDE DEF pieces
  <2> QED BY <1>14, <2>1, <2>2, <2>3, <2>4 DEF pieces
<1>18. ASSUME NEW p \in Parsers, NEW k \in Lists, NextItem(p, k) PROVE TypeInv'
  <2>1. <<Content("li", in[p])>> \in Seq(Pieces)
    BY <1>a, PieceTypes
  <2> DEFINE pieces == <<Content("li", in[p])>>
  <2>2. SetOut(p, pieces) /\ pc[p] \in Calls \ {"isTable"} /\ Return(p, TRUE)
        /\ UNCHANGED <<table, header, code_block, lists, in, html>>
    BY <1>18, ListCalls DEF NextItem, globals
  <2>3. Len(pieces) <= 2
    OBVIOUS
  <2> HIDE DEF pieces
  <2> QED BY <1>c, <1>14, <2>1, <2>2, <2>3 DEF pieces
<1>19. ASSUME NEW p \in Parsers, NEW k \in Lists, EndList(p, k) PROVE TypeInv'
  <2>1. <<End(k, in[p])>> \in Seq(Pieces)
    BY <1>a, PieceTypes DEF Elements
  <2>2. html' \in Seq(Pieces)
    BY <1>0, <1>19, <2>1, PutType DEF EndList
  <2>3. lists' \in [Lists -> {"MUL_START", "MUL_MIDDLE"}]
    BY <1>0, <1>19 DEF EndList, TypeOK
  <2>4. Return(p, FALSE) /\ pc[p] \in Calls \ {"isTable"}
        /\ UNCHANGED <<table, header, code_block, in, out>>
    BY <1>19, ListCalls DEF EndList
  <2> QED BY <1>0, <1>b, <1>c, <2>2, <2>3, <2>4, CallTypes
<1>20. ASSUME NEW p \in Parsers, NEW k \in Lists, NoList(p, k) PROVE TypeInv'
  <2>1. Return(p, FALSE) /\ pc[p] \in Calls \ {"isTable"}
        /\ UNCHANGED <<table, header, code_block, lists, in, out, html>>
    BY <1>20, ListCalls DEF NoList, globals
  <2> QED BY <1>0, <1>b, <1>c, <2>1, CallTypes
<1>21. CASE UNCHANGED vars
  BY <1>0, <1>21 DEF TypeInv, TypeOK, RoomInv, vars, globals
<1> QED
  BY <1>1, <1>2, <1>3, <1>4, <1>5, <1>6, <1>7, <1>8, <1>9, <1>10, <1>12, <1>13, <1>15, <1>16,
     <1>17, <1>18, <1>19, <1>20, <1>21 DEF Next, Step, isTable, isCodeBlock, isList

\* Parser.TypeOK: every variable of any number of parsers keeps its type, whatever
\* the lines; parStr never holds more than the two pieces of one line.
THEOREM ParserTypeCorrect == Spec => []TypeOK
<1>1. Spec => []TypeInv
  BY TypeInit, TypeNext, PTL DEF Spec
<1>2. TypeInv => TypeOK
  BY DEF TypeInv
<1> QED BY <1>1, <1>2, PTL

------------------------------------------------------------------------------
(* What a line leaves between its calls *)

\* p is between getline and the end of the line's last write; one of its calls
\* has returned.
MidLine(p) == pc[p] \notin {"idle", "getline"}
Late(p) == pc[p] \in {"isCodeBlock", "isUnorderList", "isOrderList", "write"}

\* What parStr may hold then, with the globals as the calls left them: nothing,
\* as no call has claimed the line,
Unclaimed(p) ==
  /\ out[p] = <<>> /\ ~multi[p] /\ table # "TABLE_LINE" /\ header.num < read
  /\ pc[p] # "isCodeBlock" =>
       code_block = "MUL_START" /\ (re_codeblock(in[p].text) => table = "TABLE_FORMAT")

\* or as the line waits to be a table's header;
SavesHeader(p) == out[p] = <<>> /\ table = "TABLE_FORMAT" /\ header = in[p]

\* a table that the line of dashes opens, or the two lines of no table;
OpensTable(p) ==
  /\ table = "TABLE_LINE" /\ Barred(in[p]) /\ header.num < read /\ re_table(header.text)
  /\ Len(out[p]) = 2
  /\ out[p][1].kind = "begin" /\ out[p][1].what = "table"
  /\ out[p][1].of.num = read /\ out[p][1].of.doc = in[p].doc
  /\ out[p][2] = Content("th", header)

RefusesHeader(p) ==
  /\ table = "TABLE_START" /\ code_block = "MUL_START"
  /\ Barred(in[p]) /\ header.num < read /\ re_table(header.text)
  /\ Len(out[p]) = 2 /\ out[p][1] = Content("p", header) /\ out[p][2] = Content("p", in[p])

\* a row of a table, a fence or the text of a code block;
InRow(p) ==
  /\ table = "TABLE_LINE" /\ re_table(in[p].text)
  /\ Len(out[p]) = 1 /\ out[p][1] \in {Content("td", in[p]), Content("br", in[p])}

IsFence(p) ==
  /\ table = "TABLE_START" /\ re_codeblock(in[p].text) /\ pc[p] # "isCodeBlock"
  /\ Len(out[p]) = 1
  /\ out[p][1] = IF code_block = "MUL_MIDDLE" THEN Begin("code", in[p]) ELSE End("code", in[p])

InCode(p) ==
  /\ code_block = "MUL_MIDDLE" /\ ~re_codeblock(in[p].text) /\ pc[p] # "isCodeBlock"
  /\ Len(out[p]) = 1 /\ out[p][1] = Content("code", in[p])

\* or a list item, which replaced whatever the others left.
IsItemOf(p, k) ==
  /\ IsItem(k, in[p]) /\ lists[k] = "MUL_MIDDLE"
  /\ pc[p] = "write" \/ (pc[p] = "isOrderList" /\ k = "ul")
  /\ \/ Len(out[p]) = 1 /\ out[p][1] = Content("li", in[p])
     \/ Len(out[p]) = 2 /\ out[p][1] = Begin(k, in[p]) /\ out[p][2] = Content("li", in[p])

Claimed(p) ==
  /\ multi[p]
  /\ \/ SavesHeader(p) \/ OpensTable(p) \/ RefusesHeader(p) \/ InRow(p)
     \/ IsFence(p) \/ InCode(p) \/ \E k \in Lists : IsItemOf(p, k)

\* The header is this line, or one above it, and then this line has no bar.
HeaderInv(p) ==
  table = "TABLE_FORMAT" => header = in[p] \/ (header.num < read /\ ~re_table(in[p].text))

\* After its call a list is open exactly if the line is an item of it.
ListsInv(p) ==
  /\ pc[p] \in {"isOrderList", "write"} => (lists["ul"] = "MUL_MIDDLE" <=> IsItem("ul", in[p]))
  /\ pc[p] = "write" => (lists["ol"] = "MUL_MIDDLE" <=> IsItem("ol", in[p]))

LineInv(p) ==
  /\ code_block = "MUL_MIDDLE" => table = "TABLE_START"
  /\ table = "TABLE_FORMAT" => re_table(header.text)
  /\ header.num <= read
  /\ MidLine(p) => in[p].num = read
  /\ pc[p] = "isTable" => out[p] = <<>> /\ ~multi[p] /\ header.num < read
  /\ Late(p) => HeaderInv(p) /\ ListsInv(p) /\ (Unclaimed(p) \/ Claimed(p))

\* The call after each call.
LEMMA AfterCalls ==
  /\ After["isTable"] = "isCodeBlock" /\ After["isCodeBlock"] = "isUnorderList"
  /\ After["isUnorderList"] = "isOrderList" /\ After["isOrderList"] = "write"
BY DEF After

\* What a return changes of its own parser.
LEMMA Returns ==
  ASSUME TypeOK, NEW p \in Parsers, NEW result \in BOOLEAN, Return(p, result), pc[p] \in Calls
  PROVE  /\ pc'[p] = After[pc[p]] /\ Late(p)' /\ MidLine(p) /\ MidLine(p)'
         /\ multi'[p] = (multi[p] \/ result)
         /\ read' = read
         /\ pc[p] # "isTable" => Late(p)
BY ReturnType DEF Late, MidLine, Calls

\* Initially no line is read.
LEMMA LineInit == Init => \A p \in Parsers : LineInv(p)
BY DEF Init, LineInv, Late, MidLine, NoLine

\* A line keeps what the calls found while it is passed on.
LEMMA LinePasses ==
  ASSUME TypeInv, NEW p \in Parsers, LineInv(p), Late(p), pc[p] \in Calls, Return(p, FALSE),
         UNCHANGED <<table, header, code_block, in, out>>,
         \A k \in Lists : IsItem(k, in[p]) => lists'[k] = lists[k],
         ListsInv(p)',
         pc[p] = "isCodeBlock" => code_block = "MUL_START"
                                  /\ ~(table = "TABLE_START" /\ re_codeblock(in[p].text))
  PROVE  LineInv(p)'
<1>1. TypeOK
  BY DEF TypeInv
<1>2. /\ pc'[p] = After[pc[p]] /\ Late(p)' /\ MidLine(p) /\ MidLine(p)'
      /\ multi'[p] = multi[p] /\ read' = read
  <2>1. multi[p] \in BOOLEAN
    BY <1>1 DEF TypeOK
  <2> QED BY <1>1, <2>1, Returns
<1>3. pc'[p] \notin {"isTable", "isCodeBlock"}
  BY <1>2, AfterCalls DEF Late, Calls
<1>4. HeaderInv(p)'
  BY <1>2 DEF LineInv, HeaderInv
<1>5. Unclaimed(p) => Unclaimed(p)'
  BY <1>1, <1>2, <1>3 DEF Unclaimed, TypeOK
<1>6. Claimed(p) => Claimed(p)'
  <2>1. SavesHeader(p) => SavesHeader(p)'
    BY DEF SavesHeader
  <2>2. OpensTable(p) => OpensTable(p)'
    BY <1>2 DEF OpensTable, Barred
  <2>3. RefusesHeader(p) => RefusesHeader(p)'
    BY <1>2 DEF RefusesHeader, Barred
  <2>4. InRow(p) => InRow(p)'
    BY <1>2 DEF InRow
  <2>5. IsFence(p) => IsFence(p)'
    BY <1>2, <1>3 DEF IsFence
  <2>6. InCode(p) => InCode(p)'
    BY <1>2, <1>3 DEF InCode
  <2>7. ASSUME NEW k \in Lists, IsItemOf(p, k) PROVE IsItemOf(p, k)'
    <3>1. pc'[p] = "write"
      BY <1>2, <2>7, AfterCalls DEF IsItemOf, Calls
    <3> QED BY <1>2, <1>3, <2>7, <3>1 DEF IsItemOf, IsItem
  <2> QED BY <1>2, <2>1, <2>2, <2>3, <2>4, <2>5, <2>6, <2>7 DEF Claimed
<1>7. Unclaimed(p)' \/ Claimed(p)'
  BY <1>5, <1>6 DEF LineInv
<1> QED BY <1>2, <1>3, <1>4, <1>7 DEF LineInv

\* A fence that counts finds parStr empty.
LEMMA FenceFindsNothing ==
  ASSUME TypeInv, NEW p \in Parsers, LineInv(p), pc[p] = "isCodeBlock", AtFence(p)
  PROVE  out[p] = <<>>
<1>1. in[p] \in LineRecords /\ Late(p)
  BY DEF TypeInv, TypeOK, Late
<1>2. re_codeblock(in[p].text) /\ table = "TABLE_START"
  BY DEF AtFence
<1>3. ~Barred(in[p])
  BY <1>1, <1>2, LineMarks
<1> QED BY <1>1, <1>2, <1>3 DEF LineInv, Unclaimed, Claimed, SavesHeader, OpensTable, RefusesHeader,
                               InRow, IsFence, InCode, IsItemOf

\* Every step of a parser keeps it.
LEMMA LineNext ==
  ASSUME TypeInv, NEW p \in Parsers, LineInv(p), Step(p)
  PROVE  LineInv(p)'
<1>0. TypeOK /\ RoomInv
  BY DEF TypeInv
<1>a. /\ in \in [Parsers -> LineRecords] /\ in[p] \in LineRecords
      /\ out \in [Parsers -> Seq(Pieces)] /\ out[p] \in Seq(Pieces)
      /\ pc \in [Parsers -> {"idle", "getline"} \cup DOMAIN After \cup {"write"}]
      /\ multi \in [Parsers -> BOOLEAN]
      /\ lists \in [Lists -> {"MUL_START", "MUL_MIDDLE"}]
      /\ table \in {"TABLE_START", "TABLE_FORMAT", "TABLE_LINE"}
      /\ code_block \in {"MUL_START", "MUL_MIDDLE"}
  BY <1>0 DEF TypeOK
<1>b. read \in Nat /\ header.num \in Nat
  BY <1>0, BoundsAssumption DEF TypeOK, LineRecords
<1>1. CASE Open(p) \/ EndOfFile(p) \/ WriteLine(p)
  <2>1. pc'[p] \in {"idle", "getline"} /\ UNCHANGED <<table, header, code_block, read>>
    BY <1>a, <1>1 DEF Open, EndOfFile, WriteLine, globals
  <2> QED BY <2>1 DEF LineInv, MidLine, Late
<1>2. CASE GetLine(p)
  <2>1. /\ pc'[p] = "isTable" /\ read' = read + 1 /\ out'[p] = <<>> /\ multi'[p] = FALSE
        /\ UNCHANGED <<table, header, code_block>>
    BY <1>a, <1>2 DEF GetLine, ClearOut, globals
  <2>2. in'[p].num = read'
    BY <1>a, <1>2 DEF GetLine
  <2> QED BY <1>b, <2>1, <2>2 DEF LineInv, MidLine, Late
<1>3. CASE isTable(p)
  <2>1. pc[p] = "isTable" /\ \E result \in BOOLEAN : Return(p, result)
    BY <1>3 DEF isTable, SaveHeader, OpenTable, NotATable, Row, EndTable, NoTable
  <2>2. /\ pc'[p] = "isCodeBlock" /\ Late(p)' /\ MidLine(p) /\ MidLine(p)' /\ read' = read
        /\ in[p].num = read /\ out[p] = <<>> /\ ~multi[p] /\ header.num < read
        /\ in[p].text \in Line
    BY <1>0, <2>1, Returns, AfterCalls DEF Calls, LineInv, RoomInv
  <2>3. ListsInv(p)'
    BY <2>2 DEF ListsInv
  <2>4. ASSUME Return(p, TRUE) PROVE multi'[p]
    BY <1>0, <2>1, <2>4, Returns DEF Calls
  <2>5. ASSUME Return(p, FALSE) PROVE ~multi'[p]
    BY <1>0, <2>1, <2>2, <2>5, Returns DEF Calls
  <2>6. CASE SaveHeader(p)
    <3>1. SavesHeader(p)' /\ HeaderInv(p)' /\ Claimed(p)'
      BY <2>2, <2>4, <2>6 DEF SaveHeader, SavesHeader, HeaderInv, Claimed
    <3> QED BY <1>b, <2>2, <2>3, <2>6, <3>1 DEF SaveHeader, LineInv, InTable
  <2>7. CASE OpenTable(p)
    <3>1. /\ in'[p] = Wrap(in[p]) /\ table' = "TABLE_LINE"
          /\ UNCHANGED <<header, code_block, lists>>
      BY <1>a, <2>7 DEF OpenTable
    <3>2. Barred(in'[p]) /\ in'[p].num = read /\ in'[p].doc = in[p].doc
      BY <1>a, <2>2, <3>1, WrapText
    <3>3. out'[p] = <<Begin("table", in[p]), Content("th", header)>>
      BY <1>a, <2>2, <2>7 DEF OpenTable, AddOut
    <3>4. OpensTable(p)'
      BY <2>2, <2>7, <3>1, <3>2, <3>3 DEF OpensTable, OpenTable, LineInv, Begin, Piece, Barred
    <3>5. Claimed(p)' /\ HeaderInv(p)'
      BY <2>4, <2>7, <3>1, <3>4 DEF Claimed, HeaderInv, OpenTable
    <3> QED BY <1>b, <2>2, <2>3, <2>7, <3>1, <3>2, <3>5 DEF OpenTable, LineInv, InTable
  <2>8. CASE NotATable(p)
    <3>1. /\ in'[p] = Wrap(in[p]) /\ table' = "TABLE_START" /\ code_block = "MUL_START"
          /\ UNCHANGED <<header, code_block, lists>>
      BY <1>a, <2>8 DEF NotATable, InTable
    <3>2. Barred(in'[p]) /\ in'[p].num = read
      BY <1>a, <2>2, <3>1, WrapText
    <3>3. out'[p] = <<Content("p", header), Content("p", in'[p])>>
      BY <1>a, <2>8, <3>1 DEF NotATable, SetOut, Refused
    <3>4. RefusesHeader(p)'
      BY <2>2, <2>8, <3>1, <3>2, <3>3 DEF RefusesHeader, NotATable, LineInv, Barred
    <3>5. Claimed(p)' /\ HeaderInv(p)'
      BY <2>4, <2>8, <3>1, <3>4 DEF Claimed, HeaderInv, NotATable
    <3> QED BY <1>b, <2>2, <2>3, <3>1, <3>2, <3>5 DEF LineInv
  <2>9. CASE Row(p)
    <3>1. UNCHANGED <<table, header, code_block, lists, in>>
      BY <2>9 DEF Row, globals
    <3>2. out'[p] = <<Content(IF HasCells(in[p]) THEN "td" ELSE "br", in[p])>>
      BY <1>a, <2>2, <2>9 DEF Row, AddOut
    <3>3. InRow(p)'
      BY <2>9, <3>1, <3>2 DEF InRow, Row, InTable
    <3>4. Claimed(p)' /\ HeaderInv(p)'
      BY <2>4, <2>9, <3>1, <3>3 DEF Claimed, HeaderInv, Row
    <3> QED BY <1>b, <2>2, <2>3, <2>9, <3>1, <3>4 DEF LineInv, Row, InTable
  <2>10. CASE EndTable(p)
    <3>1. table' = "TABLE_START" /\ UNCHANGED <<header, code_block, lists, in, out>>
      BY <2>10 DEF EndTable
    <3>2. Unclaimed(p)' /\ HeaderInv(p)'
      BY <2>2, <2>5, <2>10, <3>1 DEF EndTable, Unclaimed, HeaderInv
    <3> QED BY <1>b, <2>2, <2>3, <3>1, <3>2 DEF LineInv
  <2>11. CASE NoTable(p)
    <3>1. UNCHANGED <<table, header, code_block, lists, in, out>>
      BY <2>11 DEF NoTable, globals
    <3>2. HeaderInv(p)'
      BY <1>a, <2>2, <2>11, <3>1 DEF NoTable, HeaderInv, InTable, LineInv
    <3>3. Unclaimed(p)'
      BY <2>2, <2>5, <2>11, <3>1 DEF NoTable, Unclaimed
    <3> QED BY <1>b, <2>2, <2>3, <3>1, <3>2, <3>3 DEF LineInv
  <2> QED BY <1>3, <2>6, <2>7, <2>8, <2>9, <2>10, <2>11 DEF isTable
<1>4. CASE isCodeBlock(p)
  <2>1. /\ pc[p] = "isCodeBlock" /\ \E result \in BOOLEAN : Return(p, result)
        /\ UNCHANGED <<table, header, lists, in>>
    BY <1>4 DEF isCodeBlock, OpenCode, CloseCode, CodeLine, NoCode, globals
  <2>2. /\ pc'[p] = "isUnorderList" /\ Late(p) /\ Late(p)' /\ MidLine(p) /\ MidLine(p)'
        /\ read' = read /\ in[p].num = read
    BY <1>0, <2>1, Returns, AfterCalls DEF Calls, LineInv
  <2>3. ListsInv(p)' /\ HeaderInv(p)'
    BY <2>1, <2>2 DEF ListsInv, HeaderInv, LineInv
  <2>4. ASSUME Return(p, TRUE) PROVE multi'[p]
    BY <1>0, <2>1, <2>4, Returns DEF Calls
  <2>5. ASSUME OpenCode(p) \/ CloseCode(p) PROVE out[p] = <<>>
    BY <2>1, <2>5, FenceFindsNothing DEF OpenCode, CloseCode
  <2>6. CASE OpenCode(p)
    <3>1. /\ code_block' = "MUL_MIDDLE" /\ out'[p] = <<Begin("code", in[p])>>
          /\ table = "TABLE_START" /\ re_codeblock(in[p].text)
      BY <1>a, <2>5, <2>6 DEF OpenCode, AddOut, AtFence
    <3>2. Claimed(p)'
      BY <2>1, <2>2, <2>4, <2>6, <3>1 DEF Claimed, IsFence, OpenCode
    <3> QED BY <1>b, <2>1, <2>2, <2>3, <3>1, <3>2 DEF LineInv
  <2>7. CASE CloseCode(p)
    <3>1. /\ code_block' = "MUL_START" /\ out'[p] = <<End("code", in[p])>>
          /\ table = "TABLE_START" /\ re_codeblock(in[p].text)
      BY <1>a, <2>5, <2>7 DEF CloseCode, AddOut, AtFence
    <3>2. Claimed(p)'
      BY <2>1, <2>2, <2>4, <2>7, <3>1 DEF Claimed, IsFence, CloseCode
    <3> QED BY <1>b, <2>1, <2>2, <2>3, <3>1, <3>2 DEF LineInv
  <2>8. CASE CodeLine(p)
    <3>1. /\ code_block = "MUL_MIDDLE" /\ code_block' = "MUL_MIDDLE"
          /\ out'[p] = <<Content("code", in[p])>>
          /\ ~(table = "TABLE_START" /\ re_codeblock(in[p].text))
      BY <1>a, <2>8 DEF CodeLine, SetOut, AtFence, globals
    <3>2. Claimed(p)'
      BY <2>1, <2>2, <2>4, <2>8, <3>1 DEF Claimed, InCode, CodeLine, LineInv
    <3> QED BY <1>b, <2>1, <2>2, <2>3, <3>1, <3>2 DEF LineInv
  <2>9. CASE NoCode(p)
    <3>1. /\ Return(p, FALSE) /\ UNCHANGED <<table, header, code_block, lists, in, out>>
          /\ code_block = "MUL_START" /\ ~(table = "TABLE_START" /\ re_codeblock(in[p].text))
      BY <2>9 DEF NoCode, AtFence, globals
    <3> QED BY <2>1, <2>2, <2>3, <3>1, LinePasses DEF Calls
  <2> QED BY <1>4, <2>6, <2>7, <2>8, <2>9 DEF isCodeBlock
<1>5. ASSUME NEW k \in Lists, isList(p, k) PROVE LineInv(p)'
  <2>1. /\ pc[p] = ListCall[k] /\ \E result \in BOOLEAN : Return(p, result)
        /\ UNCHANGED <<table, header, code_block, in>>
    BY <1>5 DEF isList, FirstItem, NextItem, EndList, NoList, globals
  <2>2. /\ pc[p] \in Calls \ {"isTable", "isCodeBlock"}
        /\ (k = "ul" /\ pc[p] = "isUnorderList") \/ (k = "ol" /\ pc[p] = "isOrderList")
    BY <2>1, ListCalls DEF Lists
  <2>3. /\ pc'[p] = After[pc[p]] /\ Late(p) /\ Late(p)' /\ MidLine(p) /\ MidLine(p)'
        /\ read' = read /\ in[p].num = read
    BY <1>0, <2>1, <2>2, Returns DEF LineInv
  <2>4. HeaderInv(p)'
    BY <2>1, <2>3 DEF HeaderInv, LineInv
  <2>5. /\ lists'[k] = "MUL_MIDDLE" <=> IsItem(k, in[p])
        /\ \A j \in Lists \ {k} : lists'[j] = lists[j]
    BY <1>a, <1>5 DEF isList, FirstItem, NextItem, EndList, NoList, globals
  <2>6. ListsInv(p)'
    BY <2>1, <2>2, <2>3, <2>5, AfterCalls DEF ListsInv, LineInv, Lists, IsItem
  <2>7. CASE FirstItem(p, k) \/ NextItem(p, k)
    <3>1. /\ IsItem(k, in[p]) /\ Return(p, TRUE) /\ lists'[k] = "MUL_MIDDLE"
          /\ \/ out'[p] = <<Content("li", in[p])>>
             \/ out'[p] = <<Begin(k, in[p]), Content("li", in[p])>>
      BY <1>a, <2>5, <2>7 DEF FirstItem, NextItem, SetOut
    <3>2. multi'[p]
      BY <1>0, <2>2, <3>1, Returns
    <3>3. IsItemOf(p, k)'
      BY <2>1, <2>2, <2>3, <3>1, AfterCalls DEF IsItemOf, IsItem
    <3>4. Claimed(p)'
      BY <3>2, <3>3 DEF Claimed
    <3>5. pc'[p] # "isTable"
      BY <2>3 DEF Late
    <3> QED BY <2>1, <2>3, <2>4, <2>6, <3>4, <3>5 DEF LineInv
  <2>8. CASE EndList(p, k) \/ NoList(p, k)
    <3>1. /\ Return(p, FALSE) /\ UNCHANGED <<table, header, code_block, in, out>>
          /\ ~IsItem(k, in[p])
      BY <2>8 DEF EndList, NoList, globals
    <3>2. \A j \in Lists : IsItem(j, in[p]) => lists'[j] = lists[j]
      BY <2>5, <3>1
    <3> QED BY <2>2, <2>3, <2>6, <3>1, <3>2, LinePasses
  <2> QED BY <1>5, <2>7, <2>8 DEF isList
<1> QED BY <1>1, <1>2, <1>3, <1>4, <1>5 DEF Step

------------------------------------------------------------------------------
(* The html, in terms of what waits to be written *)

\* The globals have the element open.
InElement(e) ==
  \/ e = "table" /\ table = "TABLE_LINE"
  \/ e = "code" /\ code_block = "MUL_MIDDLE"
  \/ e \in Lists /\ lists[e] = "MUL_MIDDLE"

\* parStr holds a tag, which the globals already count.
HoldsTag(p, kind, e) ==
  Late(p) /\ out[p] # <<>> /\ out[p][1].kind = kind /\ out[p][1].what = e

WrittenOpen(p, e) == (InElement(e) /\ ~HoldsTag(p, "begin", e)) \/ HoldsTag(p, "end", e)

TagInv(p) == \A e \in Elements : IF WrittenOpen(p, e) THEN IsOpen(e) ELSE IsShut(e)

\* How often h has begun, or ended, e: Tags, for any html.
Count(h, kind, e) == Cardinality({i \in DOMAIN h : h[i].kind = kind /\ h[i].what = e})

\* One more piece is one more tag, if it is one.
LEMMA CountAppend ==
  ASSUME NEW S, NEW h \in Seq(S), NEW x \in S, NEW kind, NEW e
  PROVE  /\ Count(h, kind, e) \in Nat
         /\ Count(Append(h, x), kind, e) =
              IF x.kind = kind /\ x.what = e THEN Count(h, kind, e) + 1 ELSE Count(h, kind, e)
<1> DEFINE is(y) == y.kind = kind /\ y.what = e
           A == {i \in DOMAIN h : is(h[i])}
           B == {i \in DOMAIN Append(h, x) : is(Append(h, x)[i])}
           n == Len(h) + 1
<1>1. Len(h) \in Nat /\ DOMAIN h = 1..Len(h)
  OBVIOUS
<1>2. IsFiniteSet(A)
  <2>1. IsFiniteSet(1..Len(h))
    BY <1>1, FS_Interval
  <2> QED BY <1>1, <2>1, FS_Subset
<1>3. DOMAIN Append(h, x) = (1..Len(h)) \cup {n}
  BY <1>1
<1>4. Append(h, x)[n] = x /\ \A i \in 1..Len(h) : Append(h, x)[i] = h[i]
  BY <1>1
<1>5. n \notin A
  BY <1>1
<1>6. B = IF is(x) THEN A \cup {n} ELSE A
  BY <1>1, <1>3, <1>4
<1>7. Cardinality(A) \in Nat
  BY <1>2, FS_CardinalityType
<1>8. Cardinality(A \cup {n}) = Cardinality(A) + 1
  <2> HIDE DEF A, n
  <2> QED BY <1>2, <1>5, FS_AddElement
<1>9. Cardinality(B) = IF is(x) THEN Cardinality(A) + 1 ELSE Cardinality(A)
  <2> HIDE DEF A, B, n
  <2> QED BY <1>6, <1>8
<1> QED BY <1>7, <1>9 DEF Count

\* Pieces are written one after the other.
LEMMA ConcatTwo ==
  ASSUME NEW S, NEW h \in Seq(S), NEW s \in Seq(S)
  PROVE  /\ Len(s) = 1 => h \o s = Append(h, s[1])
         /\ Len(s) = 2 => h \o s = Append(Append(h, s[1]), s[2])
<1>0. /\ Len(h) \in Nat /\ Len(h \o s) = Len(h) + Len(s) /\ h \o s \in Seq(S)
      /\ \A i \in 1..(Len(h) + Len(s)) : (h \o s)[i] = IF i <= Len(h) THEN h[i] ELSE s[i - Len(h)]
  BY ConcatProperties
<1>1. ASSUME Len(s) = 1 PROVE h \o s = Append(h, s[1])
  <2>1. s[1] \in S
    BY <1>1, ElementOfSeq
  <2>2. Append(h, s[1]) \in Seq(S) /\ Len(Append(h, s[1])) = Len(h) + 1
    BY <2>1
  <2>3. \A i \in 1..(Len(h) + 1) : Append(h, s[1])[i] = IF i <= Len(h) THEN h[i] ELSE s[1]
    BY <1>0, <2>1
  <2>4. \A i \in 1..(Len(h) + 1) : (h \o s)[i] = Append(h, s[1])[i]
    BY <1>0, <1>1, <2>3
  <2> QED BY <1>0, <1>1, <2>2, <2>4, SeqEqual
<1>2. ASSUME Len(s) = 2 PROVE h \o s = Append(Append(h, s[1]), s[2])
  <2> DEFINE g == Append(h, s[1])
  <2>1. s[1] \in S /\ s[2] \in S
    <3>1. 1 \in 1..Len(s) /\ 2 \in 1..Len(s)
      BY <1>2
    <3> QED BY <3>1, ElementOfSeq
  <2>2. g \in Seq(S) /\ Len(g) = Len(h) + 1
    BY <2>1
  <2>3. \A i \in 1..(Len(h) + 1) : g[i] = IF i <= Len(h) THEN h[i] ELSE s[1]
    BY <1>0, <2>1
  <2> HIDE DEF g
  <2>4. Append(g, s[2]) \in Seq(S) /\ Len(Append(g, s[2])) = Len(h) + 2
    BY <1>0, <2>1, <2>2
  <2>5. \A i \in 1..(Len(h) + 2) : Append(g, s[2])[i] = IF i <= Len(h) + 1 THEN g[i] ELSE s[2]
    BY <1>0, <2>1, <2>2
  <2>6. \A i \in 1..(Len(h) + 2) : (h \o s)[i] = Append(g, s[2])[i]
    <3> DEFINE n == Len(h)
    <3>1. n \in Nat /\ 1..(n + 2) = (1..n) \cup {n + 1, n + 2}
      BY <1>0
    <3>2. \A i \in 1..(n + 2) : (h \o s)[i] = IF i <= n THEN h[i] ELSE s[i - n]
      BY <1>0, <1>2
    <3> HIDE DEF n
    <3>3. ASSUME NEW i \in 1..n PROVE (h \o s)[i] = h[i]
      <4>1. i \in 1..(n + 2) /\ i <= n
        BY <3>1
      <4> QED BY <3>2, <4>1
    <3>4. (h \o s)[n + 1] = s[1] /\ (h \o s)[n + 2] = s[2]
      <4>1. ~(n + 1 <= n) /\ ~(n + 2 <= n) /\ (n + 1) - n = 1 /\ (n + 2) - n = 2
        BY <3>1
      <4> QED BY <3>1, <3>2, <4>1
    <3>5. ASSUME NEW i \in 1..n PROVE g[i] = h[i] /\ Append(g, s[2])[i] = g[i]
      <4>1. i \in 1..(n + 1) /\ i \in 1..(n + 2) /\ i <= n /\ i <= n + 1
        BY <3>1
      <4> QED BY <2>3, <2>5, <4>1 DEF n
    <3>6. g[n + 1] = s[1] /\ Append(g, s[2])[n + 1] = g[n + 1] /\ Append(g, s[2])[n + 2] = s[2]
      <4>1. n + 1 \in 1..(n + 1) /\ n + 1 \in 1..(n + 2) /\ n + 2 \in 1..(n + 2)
            /\ ~(n + 1 <= n) /\ n + 1 <= n + 1 /\ ~(n + 2 <= n + 1)
        BY <3>1
      <4> QED BY <2>3, <2>5, <4>1 DEF n
    <3> QED BY <3>1, <3>3, <3>4, <3>5, <3>6 DEF n
  <2>7. h \o s = Append(g, s[2])
    BY <1>0, <1>2, <2>4, <2>6, SeqEqual
  <2> QED BY <2>7 DEF g
<1> QED BY <1>1, <1>2

\* What one write does to the tags: only its first piece may be one.
LEMMA TagsPut ==
  ASSUME TypeOK, NEW pieces \in Seq(Pieces), Len(pieces) <= 2, Put(pieces),
         Len(pieces) = 2 => pieces[2].kind = "content",
         NEW kind \in {"begin", "end"}, NEW e
  PROVE  Tags(kind, e)' = IF pieces # <<>> /\ pieces[1].kind = kind /\ pieces[1].what = e
                          THEN Tags(kind, e) + 1 ELSE Tags(kind, e)
<1>1. html \in Seq(Pieces) /\ html' = html \o pieces
  BY DEF TypeOK, Put
<1>2. Tags(kind, e) = Count(html, kind, e) /\ Tags(kind, e)' = Count(html', kind, e)
  BY DEF Tags, Count
<1>3. CASE pieces = <<>>
  BY <1>1, <1>2, <1>3, ConcatEmptySeq
<1>4. CASE Len(pieces) = 1
  <2>1. html' = Append(html, pieces[1]) /\ pieces[1] \in Pieces /\ pieces # <<>>
    BY <1>1, <1>4, ConcatTwo
  <2> QED BY <1>1, <1>2, <2>1, CountAppend
<1>5. CASE Len(pieces) = 2
  <2>1. /\ html' = Append(Append(html, pieces[1]), pieces[2])
        /\ pieces[1] \in Pieces /\ pieces[2] \in Pieces /\ pieces # <<>>
    BY <1>1, <1>5, ConcatTwo
  <2>2. Append(html, pieces[1]) \in Seq(Pieces)
    BY <1>1, <2>1
  <2>3. pieces[2].kind # kind
    BY <1>5
  <2>4. Count(html', kind, e) = Count(Append(html, pieces[1]), kind, e)
    <3> DEFINE g == Append(html, pieces[1])
    <3> HIDE DEF g
    <3>1. html' = Append(g, pieces[2]) /\ g \in Seq(Pieces)
      BY <2>1, <2>2 DEF g
    <3>2. Count(html', kind, e) = Count(g, kind, e)
      BY <2>1, <2>3, <3>1, CountAppend
    <3> QED BY <3>2 DEF g
  <2> QED BY <1>1, <1>2, <2>1, <2>4, CountAppend
<1>6. Len(pieces) \in {1, 2} \/ pieces = <<>>
  <2>1. Len(pieces) \in Nat /\ (pieces # <<>> => Len(pieces) \in Nat \ {0})
    BY EmptySeq, LenProperties
  <2> DEFINE n == Len(pieces)
  <2>2. n \in Nat /\ n <= 2 /\ (pieces # <<>> => n # 0)
    BY <2>1
  <2> HIDE DEF n
  <2>3. pieces # <<>> => n \in {1, 2}
    BY <2>2
  <2> QED BY <2>3 DEF n
<1> QED BY <1>3, <1>4, <1>5, <1>6

\* A step that writes nothing changes no count.
LEMMA TagsKept ==
  ASSUME html' = html
  PROVE  \A kind, e : Tags(kind, e)' = Tags(kind, e)
BY DEF Tags

LEMMA TagsNat ==
  ASSUME TypeOK
  PROVE  \A kind, e : Tags(kind, e) \in Nat
<1> SUFFICES ASSUME NEW kind, NEW e PROVE Tags(kind, e) \in Nat
  OBVIOUS
<1>1. html \in Seq(Pieces \cup {0}) /\ 0 \in Pieces \cup {0}
  BY DEF TypeOK
<1>2. Count(html, kind, e) \in Nat
  BY <1>1, CountAppend
<1> QED BY <1>2 DEF Tags, Count

\* Which tags parStr may hold.
LEMMA HeldTags ==
  ASSUME TypeInv, NEW p \in Parsers, LineInv(p), NEW kind \in {"begin", "end"}, NEW e \in Elements,
         HoldsTag(p, kind, e)
  PROVE  /\ multi[p]
         /\ \/ e = "table" /\ kind = "begin" /\ OpensTable(p)
            \/ e = "code" /\ IsFence(p) /\ (kind = "begin" <=> code_block = "MUL_MIDDLE")
            \/ e \in Lists /\ kind = "begin" /\ IsItemOf(p, e)
<1>1. Late(p) /\ out[p] # <<>> /\ out[p][1].kind = kind /\ out[p][1].what = e
  BY DEF HoldsTag
<1>2. Claimed(p)
  BY <1>1 DEF LineInv, Unclaimed
<1>3. CASE SavesHeader(p)
  BY <1>1, <1>3 DEF SavesHeader
<1>4. CASE OpensTable(p)
  BY <1>1, <1>2, <1>4 DEF OpensTable, Claimed
<1>5. CASE RefusesHeader(p) \/ InRow(p) \/ InCode(p)
  <2>1. out[p][1].kind = "content"
    BY <1>5 DEF RefusesHeader, InRow, InCode, Content, Piece
  <2> QED BY <1>1, <2>1
<1>6. CASE IsFence(p)
  BY <1>1, <1>2, <1>6 DEF IsFence, Begin, End, Piece, Claimed
<1>7. ASSUME NEW k \in Lists, IsItemOf(p, k)
      PROVE  kind = "begin" /\ e = k
  <2>1. out[p][1] \in {Content("li", in[p]), Begin(k, in[p])}
    BY <1>7 DEF IsItemOf
  <2> QED BY <1>1, <2>1 DEF Content, Begin, Piece
<1> QED BY <1>2, <1>3, <1>4, <1>5, <1>6, <1>7 DEF Claimed

\* A claimed line has one piece or two, and the second is no tag.
LEMMA HeldPieces ==
  ASSUME TypeInv, NEW p \in Parsers, LineInv(p), Late(p)
  PROVE  /\ out[p] \in Seq(Pieces) /\ Len(out[p]) <= 2
         /\ Len(out[p]) = 2 => out[p][2].kind = "content"
<1>1. out[p] \in Seq(Pieces) /\ Len(out[p]) <= 2
  BY DEF TypeInv, TypeOK
<1>2. ASSUME Len(out[p]) = 2 PROVE out[p][2].kind = "content"
  <2>1. out[p] # <<>> /\ Len(out[p]) # 1
    BY <1>2
  <2>2. \/ OpensTable(p) \/ RefusesHeader(p) \/ \E k \in Lists : IsItemOf(p, k)
    BY <2>1 DEF LineInv, Unclaimed, Claimed, SavesHeader, InRow, IsFence, InCode
  <2>3. \E how, line : out[p][2] = Content(how, line)
    BY <2>1, <2>2 DEF OpensTable, RefusesHeader, IsItemOf
  <2> QED BY <2>3 DEF Content, Piece
<1> QED BY <1>1, <1>2

\* The html begins with no tag at all.
LEMMA TagInit == Init => \A p \in Parsers : TagInv(p)
<1> SUFFICES ASSUME Init, NEW p \in Parsers PROVE TagInv(p)
  OBVIOUS
<1>1. \A kind, e : Tags(kind, e) = 0
  <2>1. html = <<>>
    BY DEF Init
  <2>2. ASSUME NEW kind, NEW e
        PROVE  {i \in DOMAIN html : html[i].kind = kind /\ html[i].what = e} = {}
    BY <2>1
  <2> QED BY <2>2, FS_EmptySet DEF Tags
<1>2. \A e \in Elements : ~WrittenOpen(p, e)
  BY DEF Init, WrittenOpen, InElement, HoldsTag, Late, Lists
<1> QED BY <1>1, <1>2 DEF TagInv, IsShut

\* A step that writes nothing, and leaves open what was.
LEMMA TagsStay ==
  ASSUME NEW p \in Parsers, TagInv(p), html' = html,
         \A e \in Elements : WrittenOpen(p, e)' <=> WrittenOpen(p, e)
  PROVE  TagInv(p)'
BY TagsKept DEF TagInv, IsOpen, IsShut

\* A step that writes, and opens or shuts what it writes a tag of.
LEMMA TagsMove ==
  ASSUME TypeInv, NEW p \in Parsers, TagInv(p),
         NEW pieces \in Seq(Pieces), Len(pieces) <= 2, Put(pieces),
         Len(pieces) = 2 => pieces[2].kind = "content",
         \A e \in Elements :
           CASE pieces # <<>> /\ pieces[1].kind = "begin" /\ pieces[1].what = e ->
                  ~WrittenOpen(p, e) /\ WrittenOpen(p, e)'
             [] pieces # <<>> /\ pieces[1].kind = "end" /\ pieces[1].what = e ->
                  WrittenOpen(p, e) /\ ~WrittenOpen(p, e)'
             [] OTHER -> WrittenOpen(p, e)' <=> WrittenOpen(p, e)
  PROVE  TagInv(p)'
<1> SUFFICES ASSUME NEW e \in Elements
             PROVE  (IF WrittenOpen(p, e) THEN IsOpen(e) ELSE IsShut(e))'
  BY DEF TagInv
<1>1. TypeOK /\ IF WrittenOpen(p, e) THEN IsOpen(e) ELSE IsShut(e)
  BY DEF TypeInv, TagInv
<1> DEFINE b == Tags("begin", e)
           d == Tags("end", e)
<1>2. b \in Nat /\ d \in Nat
  BY <1>1, TagsNat
<1>3. b' = IF pieces # <<>> /\ pieces[1].kind = "begin" /\ pieces[1].what = e THEN b + 1 ELSE b
  BY <1>1, TagsPut
<1>4. d' = IF pieces # <<>> /\ pieces[1].kind = "end" /\ pieces[1].what = e THEN d + 1 ELSE d
  BY <1>1, TagsPut
<1>5. IF WrittenOpen(p, e) THEN b = d + 1 ELSE b = d
  BY <1>1 DEF IsOpen, IsShut
<1> HIDE DEF b, d
<1>6. IF WrittenOpen(p, e)' THEN b' = d' + 1 ELSE b' = d'
  <2>1. CASE pieces # <<>> /\ pieces[1].kind = "begin" /\ pieces[1].what = e
    BY <1>2, <1>3, <1>4, <1>5, <2>1
  <2>2. CASE pieces # <<>> /\ pieces[1].kind = "end" /\ pieces[1].what = e
    BY <1>2, <1>3, <1>4, <1>5, <2>2
  <2>3. CASE ~(pieces # <<>> /\ pieces[1].kind \in {"begin", "end"} /\ pieces[1].what = e)
    BY <1>2, <1>3, <1>4, <1>5, <2>3
  <2> QED BY <2>1, <2>2, <2>3
<1> QED BY <1>6 DEF b, d, IsOpen, IsShut

\* Between its lines a parser holds no tag, and the html says what the globals do.
LEMMA OpenBetween ==
  ASSUME NEW p \in Parsers, ~Late(p), NEW e \in Elements
  PROVE  WrittenOpen(p, e) <=> InElement(e)
BY DEF WrittenOpen, HoldsTag

\* Every step of a parser keeps TagInv.
LEMMA TagNext ==
  ASSUME TypeInv, NEW p \in Parsers, LineInv(p), TagInv(p), Step(p)
  PROVE  TagInv(p)'
<1>0. TypeOK /\ LineInv(p)' /\ TypeInv'
  BY LineNext, TypeNext DEF TypeInv, Next
<1>a. /\ in[p] \in LineRecords /\ out \in [Parsers -> Seq(Pieces)]
      /\ lists \in [Lists -> {"MUL_START", "MUL_MIDDLE"}]
      /\ pc \in [Parsers -> {"idle", "getline"} \cup DOMAIN After \cup {"write"}]
      /\ code_block \in {"MUL_START", "MUL_MIDDLE"}
  BY <1>0 DEF TypeOK
<1>1. CASE Open(p) \/ GetLine(p) \/ EndOfFile(p)
  <2>1. /\ ~Late(p) /\ ~Late(p)' /\ html' = html
        /\ UNCHANGED <<table, code_block, lists>>
    BY <1>a, <1>1 DEF Open, GetLine, EndOfFile, Late, globals
  <2> QED BY <2>1, TagsStay DEF WrittenOpen, HoldsTag, InElement
<1>2. CASE WriteLine(p)
  <2> DEFINE pieces == IF multi[p] THEN out[p] ELSE <<Content(Format(in[p]), in[p])>>
  <2>1. /\ Late(p) /\ ~Late(p)' /\ Put(pieces) /\ UNCHANGED <<table, code_block, lists>>
    BY <1>a, <1>2 DEF WriteLine, Late, globals
  <2>2. /\ pieces \in Seq(Pieces) /\ Len(pieces) <= 2
        /\ Len(pieces) = 2 => pieces[2].kind = "content"
    <3>1. CASE multi[p]
      BY <2>1, <3>1, HeldPieces
    <3>2. CASE ~multi[p]
      BY <1>a, <3>2, PieceTypes
    <3> QED BY <3>1, <3>2
  <2>3. ASSUME NEW kind \in {"begin", "end"}, NEW e \in Elements
        PROVE  (pieces # <<>> /\ pieces[1].kind = kind /\ pieces[1].what = e)
                 <=> HoldsTag(p, kind, e)
    <3>1. CASE multi[p]
      BY <2>1, <3>1 DEF HoldsTag
    <3>2. CASE ~multi[p]
      <4>1. ~HoldsTag(p, kind, e)
        BY <3>2, HeldTags
      <4> QED BY <3>2, <4>1 DEF Content, Piece
    <3> QED BY <3>1, <3>2
  <2> HIDE DEF pieces
  <2>4. ASSUME NEW e \in Elements
        PROVE  /\ WrittenOpen(p, e)' <=> InElement(e)
               /\ HoldsTag(p, "begin", e) => InElement(e) /\ ~HoldsTag(p, "end", e)
               /\ HoldsTag(p, "end", e) => ~InElement(e)
    <3>1. WrittenOpen(p, e)' <=> InElement(e)
      BY <2>1 DEF WrittenOpen, HoldsTag, InElement
    <3>2. HoldsTag(p, "begin", e) => InElement(e) /\ ~HoldsTag(p, "end", e)
      <4>1. HoldsTag(p, "begin", e) => InElement(e)
        BY HeldTags DEF OpensTable, IsItemOf, InElement
      <4> QED BY <4>1 DEF HoldsTag
    <3>3. HoldsTag(p, "end", e) => ~InElement(e)
      BY HeldTags DEF InElement, Lists
    <3> QED BY <3>1, <3>2, <3>3
  <2>5. \A e \in Elements :
          CASE pieces # <<>> /\ pieces[1].kind = "begin" /\ pieces[1].what = e ->
                 ~WrittenOpen(p, e) /\ WrittenOpen(p, e)'
            [] pieces # <<>> /\ pieces[1].kind = "end" /\ pieces[1].what = e ->
                 WrittenOpen(p, e) /\ ~WrittenOpen(p, e)'
            [] OTHER -> WrittenOpen(p, e)' <=> WrittenOpen(p, e)
    BY <2>3, <2>4 DEF WrittenOpen
  <2> QED BY <2>1, <2>2, <2>5, TagsMove
<1>3. CASE EndTable(p)
  <2> DEFINE pieces == <<End("table", in[p])>>
  <2>1. /\ ~Late(p) /\ out'[p] = <<>> /\ Put(pieces) /\ table = "TABLE_LINE"
        /\ table' = "TABLE_START" /\ UNCHANGED <<code_block, lists>>
    BY <1>3 DEF EndTable, Late, LineInv
  <2>2. /\ pieces \in Seq(Pieces) /\ Len(pieces) = 1
        /\ pieces # <<>> /\ pieces[1].kind = "end" /\ pieces[1].what = "table"
    BY <1>a, PieceTypes DEF Elements, End, Piece
  <2>2a. Len(pieces) <= 2 /\ Len(pieces) # 2
    BY <2>2
  <2> HIDE DEF pieces
  <2>3. \A e \in Elements : WrittenOpen(p, e) <=> InElement(e)
    BY <2>1, OpenBetween
  <2>4. \A e \in Elements : WrittenOpen(p, e)' <=> InElement(e)'
    BY <2>1 DEF WrittenOpen, HoldsTag
  <2>5. \A e \in Elements :
          CASE pieces # <<>> /\ pieces[1].kind = "begin" /\ pieces[1].what = e ->
                 ~WrittenOpen(p, e) /\ WrittenOpen(p, e)'
            [] pieces # <<>> /\ pieces[1].kind = "end" /\ pieces[1].what = e ->
                 WrittenOpen(p, e) /\ ~WrittenOpen(p, e)'
            [] OTHER -> WrittenOpen(p, e)' <=> WrittenOpen(p, e)
    BY <2>1, <2>2, <2>3, <2>4 DEF InElement, Lists
  <2> QED BY <2>1, <2>2, <2>2a, <2>5, TagsMove
<1>4. ASSUME NEW k \in Lists, EndList(p, k) PROVE TagInv(p)'
  <2> DEFINE pieces == <<End(k, in[p])>>
  <2>1. /\ Late(p) /\ Late(p)' /\ out'[p] = out[p] /\ Put(pieces) /\ lists[k] = "MUL_MIDDLE"
        /\ lists' = [lists EXCEPT ![k] = "MUL_START"] /\ UNCHANGED <<table, code_block>>
        /\ ~IsItem(k, in[p])
    <3>1. pc[p] \in Calls \ {"isTable"} /\ Return(p, FALSE)
      BY <1>4, ListCalls DEF EndList
    <3>2. Late(p) /\ Late(p)'
      BY <1>0, <3>1, Returns
    <3> QED BY <1>4, <3>2 DEF EndList
  <2>2. /\ pieces \in Seq(Pieces) /\ Len(pieces) = 1
        /\ pieces # <<>> /\ pieces[1].kind = "end" /\ pieces[1].what = k
    BY <1>a, PieceTypes DEF Elements, End, Piece
  <2> HIDE DEF pieces
  <2>3. \A kind, e : HoldsTag(p, kind, e)' <=> HoldsTag(p, kind, e)
    BY <2>1 DEF HoldsTag
  <2>4. ~HoldsTag(p, "begin", k) /\ ~HoldsTag(p, "end", k)
    <3>1. k \in Elements /\ k # "table" /\ k # "code"
      BY DEF Elements, Lists
    <3> QED BY <2>1, <3>1, HeldTags DEF IsItemOf
  <2>5. /\ InElement(k) /\ ~InElement(k)'
        /\ \A e \in Elements \ {k} : InElement(e)' <=> InElement(e)
    BY <1>a, <2>1 DEF InElement, Lists
  <2>6. \A e \in Elements :
          CASE pieces # <<>> /\ pieces[1].kind = "begin" /\ pieces[1].what = e ->
                 ~WrittenOpen(p, e) /\ WrittenOpen(p, e)'
            [] pieces # <<>> /\ pieces[1].kind = "end" /\ pieces[1].what = e ->
                 WrittenOpen(p, e) /\ ~WrittenOpen(p, e)'
            [] OTHER -> WrittenOpen(p, e)' <=> WrittenOpen(p, e)
    BY <2>2, <2>3, <2>4, <2>5 DEF WrittenOpen
  <2> QED BY <2>1, <2>2, <2>6, TagsMove
<1>5. CASE isTable(p) /\ ~EndTable(p)
  <2>1. /\ pc[p] = "isTable" /\ ~Late(p) /\ out[p] = <<>> /\ html' = html
        /\ UNCHANGED <<code_block, lists>>
    BY <1>5 DEF isTable, SaveHeader, OpenTable, NotATable, Row, EndTable, NoTable, Late, LineInv,
                globals
  <2>2. Late(p)'
    <3>1. \E result \in BOOLEAN : Return(p, result)
      BY <1>5 DEF isTable, SaveHeader, OpenTable, NotATable, Row, NoTable
    <3> QED BY <1>0, <2>1, <3>1, Returns DEF Calls
  <2>3. \A e \in Elements : WrittenOpen(p, e) <=> InElement(e)
    BY <2>1, OpenBetween
  <2>4. CASE OpenTable(p)
    <3>1. /\ table = "TABLE_FORMAT" /\ table' = "TABLE_LINE"
          /\ out'[p] = <<Begin("table", in[p]), Content("th", header)>>
      BY <1>a, <2>1, <2>4 DEF OpenTable, AddOut
    <3>2. \A kind, e : HoldsTag(p, kind, e)' <=> kind = "begin" /\ e = "table"
      BY <2>2, <3>1 DEF HoldsTag, Begin, Piece
    <3>3. /\ ~InElement("table") /\ InElement("table")'
          /\ \A e \in Elements \ {"table"} : InElement(e)' <=> InElement(e)
      BY <2>1, <3>1 DEF InElement, Lists
    <3>4. \A e \in Elements : WrittenOpen(p, e)' <=> WrittenOpen(p, e)
      BY <2>3, <3>2, <3>3 DEF WrittenOpen
    <3> QED BY <2>1, <3>4, TagsStay
  <2>5. CASE ~OpenTable(p)
    <3>1. /\ (table = "TABLE_LINE") <=> (table' = "TABLE_LINE")
          /\ out'[p] = <<>> \/ \E how, line : out'[p][1] = Content(how, line)
      <4>1. CASE SaveHeader(p) \/ NoTable(p)
        BY <1>a, <2>1, <4>1 DEF SaveHeader, NoTable, globals
      <4>2. CASE NotATable(p)
        <5>1. out'[p] = <<Content("p", header), Content("p", Wrap(in[p]))>>
          BY <1>a, <4>2 DEF NotATable, SetOut, Refused
        <5> QED BY <4>2, <5>1 DEF NotATable
      <4>3. CASE Row(p)
        <5>1. out'[p] = <<Content(IF HasCells(in[p]) THEN "td" ELSE "br", in[p])>>
          BY <1>a, <2>1, <4>3 DEF Row, AddOut
        <5> QED BY <4>3, <5>1 DEF Row, globals
      <4> QED BY <1>5, <2>5, <4>1, <4>2, <4>3 DEF isTable
    <3>2. \A e : HoldsTag(p, "begin", e)' = FALSE /\ HoldsTag(p, "end", e)' = FALSE
      <4>1. out'[p] = <<>> \/ out'[p][1].kind = "content"
        <5>1. \A how, line : Content(how, line).kind = "content"
          BY DEF Content, Piece
        <5> QED BY <3>1, <5>1
      <4> QED BY <4>1 DEF HoldsTag
    <3>3. \A e : InElement(e)' <=> InElement(e)
      BY <2>1, <3>1 DEF InElement
    <3>4. \A e \in Elements : WrittenOpen(p, e)' <=> WrittenOpen(p, e)
      BY <2>3, <3>2, <3>3 DEF WrittenOpen
    <3> QED BY <2>1, <3>4, TagsStay
  <2> QED BY <2>4, <2>5
<1>6. CASE isCodeBlock(p)
  <2>1. /\ pc[p] = "isCodeBlock" /\ Late(p) /\ html' = html /\ UNCHANGED <<table, lists>>
        /\ \E result \in BOOLEAN : Return(p, result)
    BY <1>6 DEF isCodeBlock, OpenCode, CloseCode, CodeLine, NoCode, Late, globals
  <2>2. Late(p)'
    BY <1>0, <2>1, Returns DEF Calls
  <2>3. ASSUME code_block = "MUL_MIDDLE" \/ AtFence(p)
        PROVE  \A e \in Elements : ~HoldsTag(p, "begin", e) /\ ~HoldsTag(p, "end", e)
    BY <2>1, <2>3, HeldTags DEF AtFence, OpensTable, IsFence, IsItemOf, LineInv
  <2>4. /\ \A e \in Elements \ {"code"} : InElement(e)' <=> InElement(e)
        /\ InElement("code") <=> code_block = "MUL_MIDDLE"
        /\ InElement("code")' <=> code_block' = "MUL_MIDDLE"
    BY <2>1 DEF InElement, Lists
  <2>5. CASE OpenCode(p)
    <3>1. /\ code_block # "MUL_MIDDLE" /\ code_block' = "MUL_MIDDLE"
          /\ out'[p] = <<Begin("code", in[p])>>
      <4>1. out[p] = <<>>
        BY <2>1, <2>5, FenceFindsNothing DEF OpenCode
      <4> QED BY <1>a, <2>5, <4>1 DEF OpenCode, AddOut
    <3>2. \A kind, e : HoldsTag(p, kind, e)' <=> kind = "begin" /\ e = "code"
      BY <2>2, <3>1 DEF HoldsTag, Begin, Piece
    <3>3. \A e \in Elements : WrittenOpen(p, e)' <=> WrittenOpen(p, e)
      BY <2>3, <2>4, <2>5, <3>1, <3>2 DEF WrittenOpen, OpenCode
    <3> QED BY <2>1, <3>3, TagsStay
  <2>6. CASE CloseCode(p)
    <3>1. /\ code_block = "MUL_MIDDLE" /\ code_block' # "MUL_MIDDLE"
          /\ out'[p] = <<End("code", in[p])>>
      <4>1. out[p] = <<>>
        BY <2>1, <2>6, FenceFindsNothing DEF CloseCode
      <4> QED BY <1>a, <2>6, <4>1 DEF CloseCode, AddOut
    <3>2. \A kind, e : HoldsTag(p, kind, e)' <=> kind = "end" /\ e = "code"
      BY <2>2, <3>1 DEF HoldsTag, End, Piece
    <3>3. \A e \in Elements : WrittenOpen(p, e)' <=> WrittenOpen(p, e)
      BY <2>3, <2>4, <2>6, <3>1, <3>2 DEF WrittenOpen, CloseCode
    <3> QED BY <2>1, <3>3, TagsStay
  <2>7. CASE CodeLine(p)
    <3>1. /\ code_block = "MUL_MIDDLE" /\ code_block' = "MUL_MIDDLE"
          /\ out'[p] = <<Content("code", in[p])>>
      BY <1>a, <2>7 DEF CodeLine, SetOut, globals
    <3>2. \A e : HoldsTag(p, "begin", e)' = FALSE /\ HoldsTag(p, "end", e)' = FALSE
      BY <3>1 DEF HoldsTag, Content, Piece
    <3>3. \A e \in Elements : WrittenOpen(p, e)' <=> WrittenOpen(p, e)
      BY <2>3, <2>4, <3>1, <3>2 DEF WrittenOpen
    <3> QED BY <2>1, <3>3, TagsStay
  <2>8. CASE NoCode(p)
    <3>1. code_block' = code_block /\ out' = out
      BY <2>8 DEF NoCode, globals
    <3>2. \A e \in Elements : WrittenOpen(p, e)' <=> WrittenOpen(p, e)
      BY <2>1, <2>2, <3>1 DEF WrittenOpen, HoldsTag, InElement
    <3> QED BY <2>1, <3>2, TagsStay
  <2> QED BY <1>6, <2>5, <2>6, <2>7, <2>8 DEF isCodeBlock
<1>7. ASSUME NEW k \in Lists, isList(p, k), ~EndList(p, k) PROVE TagInv(p)'
  <2>1. /\ pc[p] = ListCall[k] /\ html' = html /\ UNCHANGED <<table, code_block>>
        /\ \E result \in BOOLEAN : Return(p, result)
    BY <1>7 DEF isList, FirstItem, NextItem, EndList, NoList, globals
  <2>2. Late(p) /\ Late(p)'
    BY <1>0, <2>1, Returns, ListCalls
  <2>3. ASSUME IsItem(k, in[p]), NEW kind \in {"begin", "end"}, NEW e \in Elements
        PROVE  ~HoldsTag(p, kind, e)
    <3>1. ~OpensTable(p) /\ ~IsFence(p)
      BY <1>a, <2>3, LineMarks DEF OpensTable, IsFence
    <3>2. e \in Lists => ~IsItemOf(p, e)
      <4>1. ~IsItemOf(p, k)
        BY <2>1, ListCalls DEF IsItemOf, Lists
      <4>2. e \in Lists \ {k} => ~IsItem(e, in[p])
        BY <1>a, <2>3, LineMarks DEF Lists
      <4> QED BY <4>1, <4>2 DEF IsItemOf
    <3> QED BY <3>1, <3>2, HeldTags
  <2>4. CASE FirstItem(p, k)
    <3>1. /\ IsItem(k, in[p]) /\ lists[k] = "MUL_START"
          /\ lists' = [lists EXCEPT ![k] = "MUL_MIDDLE"]
          /\ out'[p] = <<Begin(k, in[p]), Content("li", in[p])>>
      BY <1>a, <2>4 DEF FirstItem, SetOut
    <3>2. \A kind, e : HoldsTag(p, kind, e)' <=> kind = "begin" /\ e = k
      BY <2>2, <3>1 DEF HoldsTag, Begin, Piece
    <3>3. /\ ~InElement(k) /\ InElement(k)'
          /\ \A e \in Elements \ {k} : InElement(e)' <=> InElement(e)
      BY <1>a, <2>1, <3>1 DEF InElement, Lists
    <3>4. \A e \in Elements : WrittenOpen(p, e)' <=> WrittenOpen(p, e)
      BY <2>3, <3>1, <3>2, <3>3 DEF WrittenOpen
    <3> QED BY <2>1, <3>4, TagsStay
  <2>5. CASE NextItem(p, k)
    <3>1. /\ IsItem(k, in[p]) /\ lists' = lists /\ out'[p] = <<Content("li", in[p])>>
      BY <1>a, <2>5 DEF NextItem, SetOut, globals
    <3>2. \A e : HoldsTag(p, "begin", e)' = FALSE /\ HoldsTag(p, "end", e)' = FALSE
      BY <3>1 DEF HoldsTag, Content, Piece
    <3>3. \A e \in Elements : WrittenOpen(p, e)' <=> WrittenOpen(p, e)
      BY <2>1, <2>3, <3>1, <3>2 DEF WrittenOpen, InElement
    <3> QED BY <2>1, <3>3, TagsStay
  <2>6. CASE NoList(p, k)
    <3>1. lists' = lists /\ out' = out
      BY <2>6 DEF NoList, globals
    <3>2. \A e \in Elements : WrittenOpen(p, e)' <=> WrittenOpen(p, e)
      BY <2>1, <2>2, <3>1 DEF WrittenOpen, HoldsTag, InElement
    <3> QED BY <2>1, <3>2, TagsStay
  <2> QED BY <1>7, <2>4, <2>5, <2>6 DEF isList
<1> QED BY <1>1, <1>2, <1>3, <1>4, <1>5, <1>6, <1>7 DEF Step

------------------------------------------------------------------------------
(* The documents *)

\* A parser that is alone is at the document opened last, which no tag is ahead of.
DocInv(p) ==
  /\ doc[p] = docs
  /\ MidLine(p) => in[p].doc = docs
  /\ \A i \in DOMAIN html : html[i].kind = "begin" => html[i].of.doc <= docs

LEMMA DocInit == Init => \A p \in Parsers : DocInv(p)
BY DEF Init, DocInv, MidLine

\* What a line begins it begins in its own document.
LEMMA HeldDoc ==
  ASSUME TypeInv, NEW p \in Parsers, LineInv(p), Late(p), out[p] # <<>>, out[p][1].kind = "begin"
  PROVE  out[p][1].of.doc = in[p].doc
<1>1. out[p][1].kind # "content"
  OBVIOUS
<1>2. \/ SavesHeader(p) \/ OpensTable(p) \/ RefusesHeader(p) \/ InRow(p)
      \/ IsFence(p) \/ InCode(p) \/ \E k \in Lists : IsItemOf(p, k)
  BY DEF LineInv, Unclaimed, Claimed
<1>3. \/ OpensTable(p) \/ IsFence(p) \/ \E k \in Lists : IsItemOf(p, k)
  BY <1>1, <1>2 DEF SavesHeader, RefusesHeader, InRow, InCode, Content, Piece
<1>4. CASE OpensTable(p)
  BY <1>4 DEF OpensTable
<1>5. CASE IsFence(p)
  BY <1>5 DEF IsFence, Begin, End, Piece
<1>6. ASSUME NEW k \in Lists, IsItemOf(p, k) PROVE out[p][1].of.doc = in[p].doc
  BY <1>1, <1>6 DEF IsItemOf, Content, Begin, Piece
<1> QED BY <1>3, <1>4, <1>5, <1>6

\* What one write adds to the html.
LEMMA PutEntries ==
  ASSUME TypeOK, NEW pieces \in Seq(Pieces), Len(pieces) <= 2, Put(pieces)
  PROVE  \E n \in Nat, m \in {0, 1, 2} :
           /\ m = Len(pieces)
           /\ pieces = <<>> <=> m = 0
           /\ DOMAIN html = 1..n
           /\ DOMAIN html' = 1..(n + m)
           /\ \A i \in 1..n : html'[i] = html[i]
           /\ m > 0 => html'[n + 1] = pieces[1]
           /\ m = 2 => html'[n + 2] = pieces[2]
<1> DEFINE n == Len(html)
           m == Len(pieces)
<1>1. html \in Seq(Pieces) /\ html' = html \o pieces
  BY DEF TypeOK, Put
<1>2. /\ n \in Nat /\ m \in Nat /\ m <= 2 /\ Len(html') = n + m
      /\ \A i \in 1..(n + m) : html'[i] = IF i <= n THEN html[i] ELSE pieces[i - n]
  BY <1>1, ConcatProperties
<1>3. DOMAIN html = 1..n /\ DOMAIN html' = 1..(n + m)
  <2>1. html' \in Seq(Pieces)
    BY <1>1
  <2> QED BY <1>1, <1>2, <2>1
<1>4. pieces = <<>> <=> m = 0
  BY EmptySeq
<1>5. m = Len(pieces)
  OBVIOUS
<1> HIDE DEF n, m
<1>6. m \in {0, 1, 2}
  BY <1>2
<1>7. \A i \in 1..n : html'[i] = html[i]
  BY <1>2
<1>8. m > 0 => html'[n + 1] = pieces[1]
  BY <1>2
<1>9. m = 2 => html'[n + 2] = pieces[2]
  BY <1>2
<1> QED BY <1>2, <1>3, <1>4, <1>5, <1>6, <1>7, <1>8, <1>9

\* A write whose tag, if it begins something, is of the document at hand.
LEMMA DocPut ==
  ASSUME TypeOK, NEW p \in Parsers, DocInv(p), docs' = docs,
         NEW pieces \in Seq(Pieces), Len(pieces) <= 2, Put(pieces),
         Len(pieces) = 2 => pieces[2].kind = "content",
         pieces # <<>> /\ pieces[1].kind = "begin" => pieces[1].of.doc = docs
  PROVE  \A i \in DOMAIN html' : html'[i].kind = "begin" => html'[i].of.doc <= docs'
<1>1. PICK n \in Nat, m \in {0, 1, 2} :
        /\ m = Len(pieces)
        /\ pieces = <<>> <=> m = 0
        /\ DOMAIN html = 1..n
        /\ DOMAIN html' = 1..(n + m)
        /\ \A i \in 1..n : html'[i] = html[i]
        /\ m > 0 => html'[n + 1] = pieces[1]
        /\ m = 2 => html'[n + 2] = pieces[2]
  BY PutEntries
<1> SUFFICES ASSUME NEW i \in DOMAIN html', html'[i].kind = "begin"
             PROVE  html'[i].of.doc <= docs'
  OBVIOUS
<1>2. docs \in Nat
  BY BoundsAssumption DEF TypeOK
<1>3. CASE i \in 1..n
  BY <1>1, <1>3 DEF DocInv
<1>4. CASE i \notin 1..n
  <2>1. m > 0 /\ i \in {n + 1, n + 2} /\ (i = n + 2 => m = 2)
    BY <1>1, <1>4
  <2>2. i = n + 1
    BY <1>1, <2>1
  <2> QED BY <1>1, <1>2, <2>1, <2>2
<1> QED BY <1>3, <1>4

\* Its calls pass the document on with the line.
LEMMA CallKeepsDoc ==
  ASSUME TypeInv, NEW p \in Parsers, isTable(p) \/ isCodeBlock(p) \/ \E k \in Lists : isList(p, k)
  PROVE  /\ pc[p] \in Calls /\ docs' = docs /\ doc' = doc /\ in'[p].doc = in[p].doc
         /\ html' = html \/ EndTable(p) \/ \E k \in Lists : EndList(p, k)
<1>0. in \in [Parsers -> LineRecords]
  BY DEF TypeInv, TypeOK
<1>1. CASE isTable(p)
  <2>1. pc[p] = "isTable" /\ (Return(p, TRUE) \/ Return(p, FALSE))
    BY <1>1 DEF isTable, SaveHeader, OpenTable, NotATable, Row, EndTable, NoTable
  <2>2. in[p].text \in Line /\ in[p] \in LineRecords
    BY <1>0, <2>1 DEF TypeInv, RoomInv
  <2>3. in' = in \/ in' = [in EXCEPT ![p] = Wrap(@)]
    BY <1>1 DEF isTable, SaveHeader, OpenTable, NotATable, Row, EndTable, NoTable
  <2>4. in'[p].doc = in[p].doc
    BY <1>0, <2>2, <2>3, WrapText
  <2>5. html' = html \/ EndTable(p)
    BY <1>1 DEF isTable, SaveHeader, OpenTable, NotATable, Row, NoTable
  <2> QED BY <2>1, <2>4, <2>5 DEF Return, Calls
<1>2. CASE isCodeBlock(p)
  BY <1>2 DEF isCodeBlock, OpenCode, CloseCode, CodeLine, NoCode, Return, Calls
<1>3. ASSUME NEW k \in Lists, isList(p, k)
      PROVE  /\ pc[p] \in Calls /\ docs' = docs /\ doc' = doc /\ in'[p].doc = in[p].doc
             /\ html' = html \/ EndList(p, k)
  BY <1>3, ListCalls DEF isList, FirstItem, NextItem, EndList, NoList, Return
<1> QED BY <1>1, <1>2, <1>3

\* What WriteLine writes: at most two pieces, of which the first may be a tag, in
\* the document at hand if it begins something.
LEMMA LineWritten ==
  ASSUME TypeInv, NEW p \in Parsers, LineInv(p), DocInv(p), WriteLine(p)
  PROVE  \E pieces \in Seq(Pieces) :
           /\ Put(pieces) /\ Len(pieces) <= 2
           /\ Len(pieces) = 2 => pieces[2].kind = "content"
           /\ pieces # <<>> /\ pieces[1].kind = "begin" => pieces[1].of.doc = docs
           /\ \A kind \in {"begin", "end"}, e \in Elements :
                pieces # <<>> /\ pieces[1].kind = kind /\ pieces[1].what = e =>
                  HoldsTag(p, kind, e)
<1>0. TypeOK /\ in[p] \in LineRecords
  BY DEF TypeInv, TypeOK
<1>1. pc[p] = "write" /\ Late(p) /\ MidLine(p)
  BY DEF WriteLine, Late, MidLine
<1>2. CASE multi[p]
  <2>1. out[p] \in Seq(Pieces) /\ Put(out[p])
    BY <1>0, <1>2 DEF WriteLine, TypeOK
  <2>2. Len(out[p]) <= 2 /\ (Len(out[p]) = 2 => out[p][2].kind = "content")
    BY <1>1, <1>2, HeldPieces
  <2>3. out[p] # <<>> /\ out[p][1].kind = "begin" => out[p][1].of.doc = docs
    BY <1>1, HeldDoc DEF DocInv
  <2> QED BY <1>1, <2>1, <2>2, <2>3 DEF HoldsTag
<1>3. CASE ~multi[p]
  <2> DEFINE c == Content(Format(in[p]), in[p])
  <2>1. <<c>> \in Seq(Pieces) /\ Put(<<c>>)
    BY <1>0, <1>3, PieceTypes DEF WriteLine
  <2>2. c.kind = "content"
    BY DEF Content, Piece
  <2> HIDE DEF c
  <2>3. PICK pieces : pieces = <<c>>
    OBVIOUS
  <2>4. Len(pieces) = 1 /\ pieces[1].kind = "content" /\ pieces \in Seq(Pieces) /\ Put(pieces)
    BY <2>1, <2>2, <2>3
  <2>5. Len(pieces) <= 2 /\ Len(pieces) # 2 /\ pieces[1].kind \notin {"begin", "end"}
    BY <2>4
  <2> QED BY <2>4, <2>5
<1> QED BY <1>2, <1>3

\* No step leaves a tag ahead of its document.
LEMMA DocNext ==
  ASSUME TypeInv, NEW p \in Parsers, LineInv(p), DocInv(p), Step(p)
  PROVE  DocInv(p)'
<1>0. TypeOK /\ in[p] \in LineRecords /\ docs \in Nat
      /\ doc \in [Parsers -> 0..MaxDocs] /\ pc \in [Parsers -> {"idle", "getline"} \cup DOMAIN After \cup {"write"}]
      /\ in \in [Parsers -> LineRecords]
  BY BoundsAssumption DEF TypeInv, TypeOK
<1>1. CASE Open(p)
  <2>1. doc'[p] = docs' /\ docs' = docs + 1 /\ pc'[p] = "getline" /\ html' = html
    BY <1>0, <1>1 DEF Open
  <2>2. \A i \in DOMAIN html : html[i].kind = "begin" => html[i].of.doc <= docs'
    <3> SUFFICES ASSUME NEW i \in DOMAIN html, html[i].kind = "begin"
                 PROVE  html[i].of.doc <= docs'
      OBVIOUS
    <3>1. html[i] \in Pieces
      BY <1>0 DEF TypeOK
    <3>2. html[i].of.doc \in Nat
      BY <3>1 DEF Pieces, LineRecords
    <3>3. html[i].of.doc <= docs
      BY DEF DocInv
    <3> QED BY <1>0, <2>1, <3>2, <3>3
  <2> QED BY <2>1, <2>2 DEF DocInv, MidLine
<1>2. CASE GetLine(p)
  <2>1. PICK l \in Line : in' = [in EXCEPT ![p] = [doc |-> doc[p], num |-> read', text |-> l]]
    BY <1>2 DEF GetLine
  <2>2. in'[p].doc = doc[p]
    BY <1>0, <2>1
  <2> QED BY <1>2, <2>2 DEF GetLine, DocInv
<1>3. CASE EndOfFile(p)
  BY <1>0, <1>3 DEF EndOfFile, DocInv, MidLine
<1>4. CASE WriteLine(p)
  <2>1. doc' = doc /\ docs' = docs /\ pc'[p] = "getline"
    BY <1>0, <1>4 DEF WriteLine
  <2>2. PICK pieces \in Seq(Pieces) :
          /\ Put(pieces) /\ Len(pieces) <= 2
          /\ Len(pieces) = 2 => pieces[2].kind = "content"
          /\ pieces # <<>> /\ pieces[1].kind = "begin" => pieces[1].of.doc = docs
    BY <1>4, LineWritten
  <2>3. \A i \in DOMAIN html' : html'[i].kind = "begin" => html'[i].of.doc <= docs'
    BY <1>0, <2>1, <2>2, DocPut
  <2> QED BY <2>1, <2>3 DEF DocInv, MidLine
<1>5. CASE isTable(p) \/ isCodeBlock(p) \/ \E k \in Lists : isList(p, k)
  <2>1. /\ pc[p] \in Calls /\ docs' = docs /\ doc' = doc /\ in'[p].doc = in[p].doc
        /\ html' = html \/ EndTable(p) \/ \E k \in Lists : EndList(p, k)
    BY <1>5, CallKeepsDoc
  <2>2. ASSUME NEW e \in Elements, Put(<<End(e, in[p])>>)
        PROVE  \A i \in DOMAIN html' : html'[i].kind = "begin" => html'[i].of.doc <= docs'
    <3>1. <<End(e, in[p])>> \in Seq(Pieces)
      BY <1>0, PieceTypes
    <3>2. Len(<<End(e, in[p])>>) = 1 /\ <<End(e, in[p])>>[1].kind = "end"
      BY DEF End, Piece
    <3>3. PICK pieces : pieces = <<End(e, in[p])>>
      OBVIOUS
    <3>4. pieces \in Seq(Pieces) /\ Len(pieces) = 1 /\ pieces[1].kind = "end" /\ Put(pieces)
      BY <2>2, <3>1, <3>2, <3>3
    <3>5. TypeOK /\ docs' = docs
      BY <1>0, <2>1
    <3>6. Len(pieces) <= 2 /\ Len(pieces) # 2 /\ pieces[1].kind # "begin"
      BY <3>4
    <3> QED BY <3>4, <3>5, <3>6, DocPut
  <2>3. \A i \in DOMAIN html' : html'[i].kind = "begin" => html'[i].of.doc <= docs'
    <3>1. CASE html' = html
      BY <2>1, <3>1 DEF DocInv
    <3>2. CASE EndTable(p)
      BY <2>2, <3>2 DEF EndTable, Elements
    <3>3. ASSUME NEW k \in Lists, EndList(p, k)
          PROVE  \A i \in DOMAIN html' : html'[i].kind = "begin" => html'[i].of.doc <= docs'
      BY <2>2, <3>3 DEF EndList, Elements
    <3> QED BY <2>1, <3>1, <3>2, <3>3
  <2> QED BY <2>1, <2>3 DEF DocInv, MidLine, Calls
<1> QED BY <1>1, <1>2, <1>3, <1>4, <1>5 DEF Step

\* The elements that the document at hand has begun and not ended.
Here == {html[i].what : i \in Unended(docs)}

LEMMA HereMember ==
  ASSUME NEW e
  PROVE  e \in Here <=>
           \E i \in DOMAIN html :
             /\ html[i].kind = "begin" /\ html[i].of.doc = docs /\ html[i].what = e
             /\ \A j \in DOMAIN html : html[j].kind = "end" /\ html[j].what = e => j < i
BY DEF Here, Unended

\* One write begins its first piece's element, or ends it.
LEMMA HerePut ==
  ASSUME TypeOK, docs' = docs,
         NEW pieces \in Seq(Pieces), Len(pieces) <= 2, Put(pieces),
         Len(pieces) = 2 => pieces[2].kind = "content",
         pieces # <<>> /\ pieces[1].kind = "begin" => pieces[1].of.doc = docs,
         NEW e
  PROVE  /\ pieces # <<>> /\ pieces[1].kind = "begin" /\ pieces[1].what = e => e \in Here'
         /\ pieces # <<>> /\ pieces[1].kind = "end" /\ pieces[1].what = e => e \notin Here'
         /\ ~(pieces # <<>> /\ pieces[1].kind \in {"begin", "end"} /\ pieces[1].what = e) =>
              (e \in Here' <=> e \in Here)
<1>1. PICK n \in Nat, m \in {0, 1, 2} :
        /\ m = Len(pieces)
        /\ pieces = <<>> <=> m = 0
        /\ DOMAIN html = 1..n
        /\ DOMAIN html' = 1..(n + m)
        /\ \A i \in 1..n : html'[i] = html[i]
        /\ m > 0 => html'[n + 1] = pieces[1]
        /\ m = 2 => html'[n + 2] = pieces[2]
  BY PutEntries
<1>2. e \in Here <=>
        \E i \in 1..n :
          /\ html[i].kind = "begin" /\ html[i].of.doc = docs /\ html[i].what = e
          /\ \A j \in 1..n : html[j].kind = "end" /\ html[j].what = e => j < i
  BY <1>1, HereMember
<1>3. e \in Here' <=>
        \E i \in 1..(n + m) :
          /\ html'[i].kind = "begin" /\ html'[i].of.doc = docs /\ html'[i].what = e
          /\ \A j \in 1..(n + m) : html'[j].kind = "end" /\ html'[j].what = e => j < i
  <2>1. \A x : x \in Here' <=>
          \E i \in DOMAIN html' :
            /\ html'[i].kind = "begin" /\ html'[i].of.doc = docs' /\ html'[i].what = x
            /\ \A j \in DOMAIN html' : html'[j].kind = "end" /\ html'[j].what = x => j < i
    BY DEF Here, Unended
  <2>2. DOMAIN html' = 1..(n + m) /\ docs' = docs
    BY <1>1
  <2> QED BY SMTT(30), ZenonT(40), <2>1, <2>2
<1>4. ASSUME NEW j \in 1..(n + m), j \notin 1..n
      PROVE  /\ pieces # <<>>
             /\ \/ j = n + 1 /\ html'[j] = pieces[1]
                \/ j = n + 2 /\ html'[j].kind = "content"
  BY <1>1, <1>4
<1>5. ASSUME pieces # <<>>, pieces[1].kind = "begin", pieces[1].what = e PROVE e \in Here'
  <2>1. n + 1 \in 1..(n + m) /\ html'[n + 1] = pieces[1]
    BY <1>1, <1>5
  <2>2. \A j \in 1..(n + m) : html'[j].kind = "end" => j < n + 1
    BY <1>4, <1>5
  <2> QED BY <1>3, <1>5, <2>1, <2>2
<1>6. ASSUME pieces # <<>>, pieces[1].kind = "end", pieces[1].what = e PROVE e \notin Here'
  <2>1. n + 1 \in 1..(n + m) /\ html'[n + 1].kind = "end" /\ html'[n + 1].what = e
    BY <1>1, <1>6
  <2>2. \A i \in 1..(n + m) : html'[i].kind = "begin" => ~(n + 1 < i)
    BY <1>4
  <2> QED BY <1>3, <2>1, <2>2
<1>7. ASSUME ~(pieces # <<>> /\ pieces[1].kind \in {"begin", "end"} /\ pieces[1].what = e)
      PROVE  e \in Here' <=> e \in Here
  <2>1. \A j \in 1..(n + m) :
          html'[j].kind \in {"begin", "end"} /\ html'[j].what = e => j \in 1..n
    BY <1>4, <1>7
  <2>2. 1..n \subseteq 1..(n + m)
    BY <1>1
  <2>3. e \in Here => e \in Here'
    BY <1>1, <1>2, <1>3, <2>1, <2>2
  <2>4. e \in Here' => e \in Here
    BY <1>1, <1>2, <1>3, <2>1, <2>2
  <2> QED BY <2>3, <2>4
<1> QED BY <1>5, <1>6, <1>7

------------------------------------------------------------------------------
(* Theorems of a parser that is alone, about the elements it opens *)

\* What holds of a parser that is alone, whatever documents it parses.
LoneInv(p) == TypeInv /\ LineInv(p) /\ TagInv(p) /\ DocInv(p)

LEMMA LoneInit == Init => \A p \in Parsers : LoneInv(p)
BY TypeInit, LineInit, TagInit, DocInit DEF LoneInv

LEMMA LoneNext ==
  ASSUME NEW p \in Parsers, Parsers = {p}
  PROVE  LoneInv(p) /\ [Next]_vars => LoneInv(p)'
<1> SUFFICES ASSUME LoneInv(p), [Next]_vars PROVE LoneInv(p)'
  OBVIOUS
<1>1. TypeInv'
  BY TypeNext DEF LoneInv
<1>2. CASE Step(p)
  BY <1>1, <1>2, LineNext, TagNext, DocNext DEF LoneInv
<1>3. CASE UNCHANGED vars
  <2>1. UNCHANGED <<table, header, code_block, lists, pc, in, out, multi, html, read>>
    BY <1>3 DEF vars, globals
  <2>2. UNCHANGED <<Late(p), MidLine(p)>>
    BY <2>1 DEF Late, MidLine
  <2>3. LineInv(p)'
    BY <2>1, <2>2 DEF LoneInv, LineInv, HeaderInv, ListsInv, Unclaimed, Claimed, SavesHeader,
       OpensTable, RefusesHeader, InRow, IsFence, InCode, IsItemOf, Barred, IsItem
  <2>4. \A e \in Elements : WrittenOpen(p, e)' <=> WrittenOpen(p, e)
    BY <2>1, <2>2 DEF WrittenOpen, HoldsTag, InElement
  <2>5. TagInv(p)'
    BY <2>1, <2>4, TagsStay DEF LoneInv
  <2>6. DocInv(p)'
    BY <1>3, <2>1 DEF LoneInv, DocInv, MidLine, vars
  <2> QED BY <1>1, <2>3, <2>5, <2>6 DEF LoneInv
<1> QED BY <1>2, <1>3 DEF Next

\* One thread parses.
Alone == \E p : Parsers = {p}

\* Parser.GlobalsMatchHtml: whatever documents and lines came before, between two
\* lines the globals have an element open exactly if the html has.
THEOREM GlobalsAlwaysMatch == ASSUME Alone PROVE Spec => []GlobalsMatchHtml
<1> PICK p : Parsers = {p}
  BY DEF Alone
<1>1. Init => LoneInv(p)
  BY LoneInit
<1>2. LoneInv(p) /\ [Next]_vars => LoneInv(p)'
  BY LoneNext
<1>3. LoneInv(p) => GlobalsMatchHtml
  <2> SUFFICES ASSUME LoneInv(p), BetweenLines PROVE GlobalsMatchHtml
    BY DEF GlobalsMatchHtml
  <2>1. ~Late(p)
    BY DEF BetweenLines, Late
  <2>2. \A e \in Elements : IF InElement(e) THEN IsOpen(e) ELSE IsShut(e)
    BY <2>1, OpenBetween DEF LoneInv, TagInv
  <2> QED BY <2>2 DEF GlobalsMatchHtml, InElement, Elements, Lists
<1> QED BY <1>1, <1>2, <1>3, PTL DEF Spec

\* The elements that the outline sees open are those the invariant says.
LEMMA WhichOpen ==
  ASSUME NEW p \in Parsers, LoneInv(p), NEW e \in Elements
  PROVE  /\ e \in Html!open <=> WrittenOpen(p, e)
         /\ Tags("begin", e) \in Nat /\ Tags("end", e) \in Nat
<1>1. TypeOK /\ IF WrittenOpen(p, e) THEN IsOpen(e) ELSE IsShut(e)
  BY DEF LoneInv, TypeInv, TagInv
<1>2. Tags("begin", e) \in Nat /\ Tags("end", e) \in Nat
  BY <1>1, TagsNat
<1>3. e \in Html!Elements
  BY DEF Html!Elements, Elements, Html!Lists, Lists
<1>4. e \in Html!open <=> Tags("begin", e) > Tags("end", e)
  BY <1>3 DEF Html!open
<1> QED BY <1>1, <1>2, <1>4 DEF IsOpen, IsShut

\* A write with no tag is a stuttering step of the outline; one with a tag begins
\* or ends its element.
LEMMA OutlineMoves ==
  ASSUME NEW p \in Parsers, LoneInv(p),
         NEW pieces \in Seq(Pieces), Len(pieces) <= 2, Put(pieces),
         Len(pieces) = 2 => pieces[2].kind = "content",
         docs' = docs,
         pieces # <<>> /\ pieces[1].kind = "begin" => pieces[1].of.doc = docs,
         \A e \in Elements :
           /\ pieces # <<>> /\ pieces[1].kind = "begin" /\ pieces[1].what = e =>
                /\ ~WrittenOpen(p, e)
                /\ \A f \in Elements : e \notin Lists \/ f \in Lists => ~WrittenOpen(p, f)
           /\ pieces # <<>> /\ pieces[1].kind = "end" /\ pieces[1].what = e =>
                /\ WrittenOpen(p, e)
                /\ e = "code" => \A f \in Elements \ {e} : ~WrittenOpen(p, f)
                /\ e = "table" => ~WrittenOpen(p, "code")
  PROVE  [Html!OutlineNext]_(Html!outlineVars)
<1> DEFINE begun == [e \in Elements |-> Tags("begin", e)]
           ended == [e \in Elements |-> Tags("end", e)]
           first(kind, e) == pieces # <<>> /\ pieces[1].kind = kind /\ pieces[1].what = e
<1>0. TypeOK
  BY DEF LoneInv, TypeInv
<1>1. \A e \in Elements :
        /\ Tags("begin", e)' = IF first("begin", e) THEN Tags("begin", e) + 1 ELSE Tags("begin", e)
        /\ Tags("end", e)' = IF first("end", e) THEN Tags("end", e) + 1 ELSE Tags("end", e)
  BY <1>0, TagsPut
<1>2. \A e \in Elements : e \in Html!open <=> WrittenOpen(p, e)
  BY WhichOpen
<1>3. Html!open \subseteq Elements /\ Html!Elements = Elements /\ Html!Lists = Lists
  BY DEF Html!open, Html!Elements, Elements, Html!Lists, Lists
<1>4. ASSUME NEW e
      PROVE  /\ first("begin", e) => e \in Here'
             /\ first("end", e) => e \notin Here'
             /\ ~first("begin", e) /\ ~first("end", e) => (e \in Here' <=> e \in Here)
  BY <1>0, HerePut
<1> HIDE DEF first
<1>5. ASSUME NEW kind, NEW other, NEW e, NEW f, first(kind, e), first(other, f)
      PROVE  kind = other /\ e = f
  BY <1>5 DEF first
<1>6. ASSUME NEW e \in Elements, first("begin", e) PROVE Html!Begin(e)
  <2>1. e \notin Html!open /\ IF e \in Html!Lists THEN Html!open \cap Html!Lists = {}
                                                ELSE Html!open = {}
    BY <1>2, <1>3, <1>6 DEF first
  <2>2. begun' = [begun EXCEPT ![e] = @ + 1]
    BY <1>1, <1>6, <1>5
  <2>3. ended' = ended
    BY <1>1, <1>6, <1>5
  <2>4. Here' = Here \cup {e}
    BY <1>6, <1>4, <1>5
  <2> QED BY <2>1, <2>2, <2>3, <2>4 DEF Html!Begin, Here
<1>7. ASSUME NEW e \in Elements, first("end", e) PROVE Html!OutlineNext
  <2>1. /\ e \in Html!open
        /\ e = "code" => Html!open = {"code"}
        /\ e = "table" => Html!open = {"table"} \/ Html!open \cap Html!Lists # {}
    <3>1. /\ WrittenOpen(p, e)
          /\ e = "code" => \A f \in Elements \ {e} : ~WrittenOpen(p, f)
          /\ e = "table" => ~WrittenOpen(p, "code")
      BY <1>7 DEF first
    <3>2. e = "code" => Html!open = {"code"}
      BY <1>2, <1>3, <3>1
    <3>3. e = "table" => Html!open \subseteq {"table"} \cup Lists /\ "table" \in Html!open
      BY <1>2, <1>3, <3>1 DEF Elements
    <3> QED BY <1>2, <1>3, <3>1, <3>2, <3>3
  <2>2. ended' = [ended EXCEPT ![e] = @ + 1]
    BY <1>1, <1>7, <1>5
  <2>3. begun' = begun
    BY <1>1, <1>7, <1>5
  <2>4. Here' = Here \ {e}
    BY <1>7, <1>4, <1>5
  <2>5. Html!WriteEnd(e)
    BY <2>2, <2>3, <2>4 DEF Html!WriteEnd, Here
  <2>6. CASE e \notin Here
    <3>1. e \in Html!owed
      BY <2>1, <2>6 DEF Html!owed, Here
    <3>2. Html!EndOwed(e)
      BY <2>1, <2>5, <3>1 DEF Html!EndOwed
    <3> QED BY <1>3, <3>2 DEF Html!OutlineNext
  <2>7. CASE e \in Here /\ (e \in Lists \/ Html!open = {e})
    <3>1. Html!End(e)
      BY <1>3, <2>5, <2>7 DEF Html!End, Here
    <3> QED BY <1>3, <3>1 DEF Html!OutlineNext
  <2>8. CASE e \in Here /\ e \notin Lists /\ Html!open # {e}
    <3>1. e = "table"
      BY <2>1, <2>8 DEF Elements
    <3>2. Html!EndAround
      BY <2>1, <2>5, <2>8, <3>1 DEF Html!EndAround, Here
    <3> QED BY <3>2 DEF Html!OutlineNext
  <2> QED BY <2>6, <2>7, <2>8
<1>8. CASE \A e \in Elements : ~first("begin", e) /\ ~first("end", e)
  <2>1. begun' = begun /\ ended' = ended
    BY <1>1, <1>8
  <2>2. \A e : first("begin", e) \/ first("end", e) => e \in Elements
    <3>1. pieces # <<>> => pieces[1] \in Pieces
      <4>1. pieces = <<>> <=> Len(pieces) = 0
        BY EmptySeq
      <4> QED BY <4>1
    <3> QED BY <3>1 DEF first, Pieces
  <2>3. Here' = Here
    BY <1>8, <1>4, <2>2
  <2> QED BY <2>1, <2>3 DEF Html!outlineVars, Here
<1> QED BY <1>3, <1>6, <1>7, <1>8 DEF Html!OutlineNext

\* At the end of its calls no list is open but that of the item.
LEMMA ListsAtWrite ==
  ASSUME NEW p \in Parsers, LoneInv(p), pc[p] = "write"
  PROVE  /\ \A k \in Lists : InElement(k) <=> IsItem(k, in[p])
         /\ OpensTable(p) \/ IsFence(p) => \A k \in Lists : ~InElement(k)
         /\ \A k \in Lists : IsItemOf(p, k) => \A j \in Lists \ {k} : ~InElement(j)
<1>1. in[p] \in LineRecords /\ Late(p)
  BY DEF LoneInv, TypeInv, TypeOK, Late
<1>2. \A k \in Lists : InElement(k) <=> IsItem(k, in[p])
  BY <1>1 DEF LoneInv, LineInv, ListsInv, InElement, Lists
<1>3. OpensTable(p) \/ IsFence(p) => \A k \in Lists : ~IsItem(k, in[p])
  BY <1>1, LineMarks DEF OpensTable, IsFence
<1>4. \A k \in Lists : IsItemOf(p, k) => \A j \in Lists \ {k} : ~IsItem(j, in[p])
  BY <1>1, LineMarks DEF IsItemOf, Lists
<1> QED BY <1>2, <1>3, <1>4

\* Every step of a parser is a step of the outline, or none.
LEMMA OutlineStep ==
  ASSUME NEW p \in Parsers, LoneInv(p), Step(p)
  PROVE  [Html!OutlineNext]_(Html!outlineVars)
<1>0. TypeInv /\ TypeOK /\ LineInv(p) /\ in[p] \in LineRecords /\ code_block \in {"MUL_START", "MUL_MIDDLE"}
  BY DEF LoneInv, TypeInv, TypeOK
<1>1. ASSUME html' = html
      PROVE  \A e \in Elements : Tags("begin", e)' = Tags("begin", e) /\ Tags("end", e)' = Tags("end", e)
  BY <1>1, TagsKept
<1>2. CASE html' = html /\ docs' = docs
  <2>1. Here' = Here
    BY <1>2 DEF Here, Unended
  <2> QED BY <1>1, <1>2, <2>1 DEF Html!outlineVars, Here
<1>3. CASE Open(p)
  <2>1. html' = html /\ docs' = docs + 1 /\ docs \in Nat
    BY <1>0, <1>3, BoundsAssumption DEF Open, TypeOK
  <2>2. ASSUME NEW i \in DOMAIN html, html[i].kind = "begin" PROVE html[i].of.doc # docs'
    <3>1. html[i] \in Pieces
      BY <1>0 DEF TypeOK
    <3>2. html[i].of.doc \in Nat
      BY <3>1 DEF Pieces, LineRecords
    <3>3. html[i].of.doc <= docs
      BY <2>2 DEF LoneInv, DocInv
    <3> QED BY <2>1, <3>2, <3>3
  <2>3. Here' = {}
    BY <2>1, <2>2 DEF Here, Unended
  <2>4. Html!NextDocument
    BY <1>1, <2>1, <2>3 DEF Html!NextDocument, Here
  <2> QED BY <2>4 DEF Html!OutlineNext
<1>4. CASE WriteLine(p)
  <2>1. pc[p] = "write" /\ Late(p) /\ docs' = docs
    BY <1>4 DEF WriteLine, Late
  <2>2. PICK pieces \in Seq(Pieces) :
          /\ Put(pieces) /\ Len(pieces) <= 2
          /\ Len(pieces) = 2 => pieces[2].kind = "content"
          /\ pieces # <<>> /\ pieces[1].kind = "begin" => pieces[1].of.doc = docs
          /\ \A kind \in {"begin", "end"}, e \in Elements :
               pieces # <<>> /\ pieces[1].kind = kind /\ pieces[1].what = e => HoldsTag(p, kind, e)
    BY <1>0, <1>4, LineWritten DEF LoneInv
  <2>4. ASSUME NEW e \in Elements, HoldsTag(p, "begin", e)
        PROVE  /\ ~WrittenOpen(p, e)
               /\ \A f \in Elements : e \notin Lists \/ f \in Lists => ~WrittenOpen(p, f)
    <3>1. \A f \in Elements : ~HoldsTag(p, "end", f)
      BY <2>4 DEF HoldsTag
    <3>2. \A f \in Elements : WrittenOpen(p, f) => InElement(f) /\ f # e
      BY <2>4, <3>1 DEF WrittenOpen
    <3>3. CASE e = "table"
      <4>1. OpensTable(p)
        BY <1>0, <2>4, <3>3, HeldTags DEF Lists
      <4>2. code_block # "MUL_MIDDLE"
        BY <1>0, <4>1 DEF OpensTable, LineInv
      <4> QED BY <2>1, <3>2, <3>3, <4>1, <4>2, ListsAtWrite DEF InElement, Elements, Lists
    <3>4. CASE e = "code"
      <4>1. IsFence(p)
        BY <1>0, <2>4, <3>4, HeldTags DEF Lists
      <4>2. table = "TABLE_START"
        BY <4>1 DEF IsFence
      <4> QED BY <2>1, <3>2, <3>4, <4>1, <4>2, ListsAtWrite DEF InElement, Elements, Lists
    <3>5. CASE e \in Lists
      <4>1. IsItemOf(p, e)
        BY <1>0, <2>4, <3>5, HeldTags DEF Lists
      <4> QED BY <2>1, <3>2, <3>5, <4>1, ListsAtWrite
    <3> QED BY <3>3, <3>4, <3>5 DEF Elements
  <2>5. ASSUME NEW e \in Elements, HoldsTag(p, "end", e)
        PROVE  /\ WrittenOpen(p, e)
               /\ e = "code" => \A f \in Elements \ {e} : ~WrittenOpen(p, f)
               /\ e # "table"
    <3>1. e = "code" /\ IsFence(p)
      BY <1>0, <2>5, HeldTags
    <3>2. table = "TABLE_START"
      BY <3>1 DEF IsFence
    <3>3. \A f \in Elements \ {e} : ~HoldsTag(p, "end", f)
      BY <2>5 DEF HoldsTag
    <3> QED BY <2>1, <2>5, <3>1, <3>2, <3>3, ListsAtWrite DEF WrittenOpen, InElement, Elements
  <2> QED BY <2>1, <2>2, <2>4, <2>5, OutlineMoves
<1>5. CASE EndTable(p)
  <2> DEFINE pieces == <<End("table", in[p])>>
  <2>1. pieces \in Seq(Pieces) /\ Len(pieces) <= 2 /\ Len(pieces) # 2
        /\ pieces[1].kind = "end" /\ pieces[1].what = "table"
    BY <1>0, PieceTypes DEF Elements, End, Piece
  <2>2. Put(pieces) /\ table = "TABLE_LINE" /\ ~Late(p) /\ docs' = docs
    BY <1>5 DEF EndTable, Late, Return
  <2>3. WrittenOpen(p, "table")
    BY <2>2 DEF WrittenOpen, InElement, HoldsTag
  <2>4. ~WrittenOpen(p, "code")
    BY <1>0, <2>2 DEF WrittenOpen, InElement, HoldsTag, LineInv, Lists
  <2> HIDE DEF pieces
  <2> QED BY <2>1, <2>2, <2>3, <2>4, OutlineMoves
<1>6. ASSUME NEW k \in Lists, EndList(p, k) PROVE [Html!OutlineNext]_(Html!outlineVars)
  <2> DEFINE pieces == <<End(k, in[p])>>
  <2>1. k \in Elements /\ k # "code" /\ k # "table"
    BY DEF Elements, Lists
  <2>2. pieces \in Seq(Pieces) /\ Len(pieces) <= 2 /\ Len(pieces) # 2
        /\ pieces[1].kind = "end" /\ pieces[1].what = k
    BY <1>0, <2>1, PieceTypes DEF End, Piece
  <2>3. Put(pieces) /\ lists[k] = "MUL_MIDDLE" /\ ~IsItem(k, in[p]) /\ docs' = docs
    BY <1>6 DEF EndList, Return
  <2>4. WrittenOpen(p, k)
    <3>1. ~HoldsTag(p, "begin", k)
      BY <1>0, <2>1, <2>3, HeldTags DEF IsItemOf
    <3> QED BY <2>3, <3>1 DEF WrittenOpen, InElement
  <2> HIDE DEF pieces
  <2> QED BY <2>1, <2>2, <2>3, <2>4, OutlineMoves
<1>7. CASE \/ GetLine(p) \/ EndOfFile(p)
           \/ isTable(p) \/ isCodeBlock(p) \/ \E k \in Lists : isList(p, k)
  <2>1. docs' = docs /\ (html' = html \/ EndTable(p) \/ \E k \in Lists : EndList(p, k))
    BY <1>0, <1>7, CallKeepsDoc DEF GetLine, EndOfFile
  <2> QED BY <1>5, <1>6, <1>2, <2>1
<1> QED BY <1>4, <1>3, <1>7 DEF Step

\* Parser.ImplementsOutline: a parser that is alone writes the tags of any number of
\* documents in the order that Outline allows: no element begins where it would have
\* to nest and could not, no list outlives a code block, and an end that its
\* document did not begin is of an element that an earlier one left open.  Elements
\* nest but for a table around a list (Parser.cpp:410 before :259).
THEOREM ParserImplementsOutline == ASSUME Alone PROVE Spec => ImplementsOutline
<1> PICK p : Parsers = {p}
  BY DEF Alone
<1>1. Init => LoneInv(p)
  BY LoneInit
<1>2. LoneInv(p) /\ [Next]_vars => LoneInv(p)'
  BY LoneNext
<1>3. Init => Html!OutlineInit
  <2> SUFFICES ASSUME Init PROVE Html!OutlineInit
    OBVIOUS
  <2>1. html = <<>>
    BY DEF Init
  <2>2. ASSUME NEW kind, NEW e PROVE Tags(kind, e) = 0
    <3>1. {i \in DOMAIN html : html[i].kind = kind /\ html[i].what = e} = {}
      BY <2>1
    <3> QED BY <3>1, FS_EmptySet DEF Tags
  <2>3. Here = {}
    BY <2>1 DEF Here, Unended
  <2> QED BY <2>2, <2>3 DEF Html!OutlineInit, Html!Elements, Elements, Html!Lists, Lists, Here
<1>4. LoneInv(p) /\ [Next]_vars => [Html!OutlineNext]_(Html!outlineVars)
  <2> SUFFICES ASSUME LoneInv(p), [Next]_vars PROVE [Html!OutlineNext]_(Html!outlineVars)
    OBVIOUS
  <2>1. CASE Step(p)
    BY <2>1, OutlineStep
  <2>2. CASE UNCHANGED vars
    <3>1. html' = html
      BY <2>2 DEF vars
    <3>2. \A e \in Elements : Tags("begin", e)' = Tags("begin", e) /\ Tags("end", e)' = Tags("end", e)
      BY <3>1, TagsKept
    <3>3. Here' = Here
      BY <2>2 DEF Here, Unended, vars
    <3> QED BY <3>2, <3>3 DEF Html!outlineVars, Here
  <2> QED BY <2>1, <2>2 DEF Next
<1> QED BY <1>1, <1>2, <1>3, <1>4, PTL DEF Spec, ImplementsOutline, Html!OutlineSpec

==============================================================================
