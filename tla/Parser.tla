------------------------------- MODULE Parser --------------------------------
(***************************************************************************)
(* Parser::start and the syntax that spans lines.  Whether a line is       *)
(* inside a table, a code block or a list is kept in global variables,     *)
(* which every document and every thread that parses shares and nothing    *)
(* resets.  Each line goes through isTable, isCodeBlock, isUnorderList and *)
(* isOrderList, in this order, whatever the earlier ones answered; they    *)
(* pass the line `in' and the html `out' along, and write the tag that     *)
(* ends an element straight to the stream, ahead of `out'.                 *)
(*                                                                         *)
(* A call is one step, so that parsers in several threads interleave       *)
(* between calls.  Calls that overlap race on the globals, which C++       *)
(* leaves undefined: they are not modelled.                                *)
(***************************************************************************)
EXTENDS Patterns, FiniteSets

CONSTANTS
  Parsers,   \* the threads that run Parser::start
  Line,      \* the lines a document may hold, as Patterns reads them
  MaxDocs,   \* bound on the documents parsed
  MaxLines   \* bound on the lines read, over all documents

ASSUME BoundsAssumption == MaxDocs \in Nat /\ MaxLines \in Nat

ASSUME LineAssumption == Line \subseteq Seq(STRING)

VARIABLES
  table,         \* TABLE_START, TABLE_FORMAT or TABLE_LINE
  header,        \* TABLE_HEADER_STR
  code_block,    \* MUL_START or MUL_MIDDLE
  lists,         \* unorder_list and order_list, by the element they open
  pc,            \* the call a parser makes next
  doc,           \* the document it parses
  in,            \* oriStr, as the calls rewrite it
  out,           \* parStr
  multi,         \* whether one of the calls for this line returned true
  html,          \* what the parsers wrote to their streams, in this order
  docs,          \* number of documents opened
  read           \* number of lines read

globals == <<table, header, code_block, lists>>
vars == <<globals, pc, doc, in, out, multi, html, docs, read>>

Lists == {"ul", "ol"}
Elements == Lists \cup {"table", "code"}

NoLine == [doc |-> 0, num |-> 0, text |-> <<>>]

Piece(kind, what, line) == [kind |-> kind, what |-> what, of |-> line]
Begin(e, line) == Piece("begin", e, line)
End(e, line) == Piece("end", e, line)
Content(how, line) == Piece("content", how, line)

(* Slips: variants of definitions below that break a property each. *)
ListsFirst == [isTable |-> "isUnorderList", isUnorderList |-> "isOrderList",
               isOrderList |-> "isCodeBlock", isCodeBlock |-> "write"]
NoWrap(line) == line
RefusedLine(line) == <<Content("p", line)>>
KeepOut(p) == UNCHANGED out
BarIsTable(p) == re_table(in[p].text)
LineFirst(line) == <<Content("p", line), Content("p", header)>>

(* The order of the calls in start. *)
After == [isTable |-> "isCodeBlock", isCodeBlock |-> "isUnorderList",
          isUnorderList |-> "isOrderList", isOrderList |-> "write"]

ListCall == [ul |-> "isUnorderList", ol |-> "isOrderList"]

(* isTable rewrites its line, so that for the calls after it the line begins *)
(* with a bar.                                                               *)
Wrap(line) == [line EXCEPT !.text = <<"|">> \o @ \o <<"|">>]

HasCells(line) == strSplit(line.text) # <<>>

(* A header that no dashes follow is written ahead of the line that refused it. *)
Refused(line) == <<Content("p", header), Content("p", line)>>

IsItem(k, line) == IF k = "ul" THEN re_unorderlist(line.text) ELSE re_orderlist(line.text)

(* What becomes of a line outside the syntax that spans lines. *)
Format(line) ==
  CASE line.text = <<>>           -> "br"
    [] re_header(line.text) > 0   -> "h"
    [] re_underline(line.text)    -> "hr"
    [] OTHER                      -> "p"

Init ==
  /\ table = "TABLE_START"
  /\ header = NoLine
  /\ code_block = "MUL_START"
  /\ lists = [k \in Lists |-> "MUL_START"]
  /\ pc = [p \in Parsers |-> "idle"]
  /\ doc = [p \in Parsers |-> 0]
  /\ in = [p \in Parsers |-> NoLine]
  /\ out = [p \in Parsers |-> <<>>]
  /\ multi = [p \in Parsers |-> FALSE]
  /\ html = <<>>
  /\ docs = 0
  /\ read = 0

------------------------------------------------------------------------------
(* Parser::start around the calls *)

(* A parser for the next document; the globals are what they were. *)
Open(p) ==
  /\ pc[p] = "idle"
  /\ docs < MaxDocs
  /\ docs' = docs + 1
  /\ doc' = [doc EXCEPT ![p] = docs']
  /\ pc' = [pc EXCEPT ![p] = "getline"]
  /\ UNCHANGED <<globals, in, out, multi, html, read>>

ClearOut(p) == out' = [out EXCEPT ![p] = <<>>]

GetLine(p) ==
  /\ pc[p] = "getline"
  /\ read < MaxLines
  /\ read' = read + 1
  /\ \E l \in Line :
       in' = [in EXCEPT ![p] = [doc |-> doc[p], num |-> read', text |-> l]]
  /\ ClearOut(p)
  /\ multi' = [multi EXCEPT ![p] = FALSE]
  /\ pc' = [pc EXCEPT ![p] = "isTable"]
  /\ UNCHANGED <<globals, doc, html, docs>>

(* The end of the file ends no element. *)
EndOfFile(p) ==
  /\ pc[p] = "getline"
  /\ pc' = [pc EXCEPT ![p] = "idle"]
  /\ UNCHANGED <<globals, doc, in, out, multi, html, docs, read>>

Put(pieces) == html' = html \o pieces

WriteLine(p) ==
  /\ pc[p] = "write"
  /\ Put(IF multi[p] THEN out[p] ELSE <<Content(Format(in[p]), in[p])>>)
  /\ pc' = [pc EXCEPT ![p] = "getline"]
  /\ UNCHANGED <<globals, doc, in, out, multi, docs, read>>

------------------------------------------------------------------------------
(* The calls.  Return(p, result) is their return statement. *)

Return(p, result) ==
  /\ pc' = [pc EXCEPT ![p] = After[@]]
  /\ multi' = [multi EXCEPT ![p] = @ \/ result]
  /\ UNCHANGED <<doc, docs, read>>

AddOut(p, pieces) == out' = [out EXCEPT ![p] = @ \o pieces]
SetOut(p, pieces) == out' = [out EXCEPT ![p] = pieces]

InTable(p) == code_block = "MUL_START" /\ re_table(in[p].text)

SaveHeader(p) ==
  /\ pc[p] = "isTable"
  /\ InTable(p) /\ table = "TABLE_START"
  /\ header' = in[p]
  /\ table' = "TABLE_FORMAT"
  /\ Return(p, TRUE)
  /\ UNCHANGED <<code_block, lists, in, out, html>>

SetsFormat(p) == IsFormat(Wrap(in[p]).text) /\ HasCells(header)

OpenTable(p) ==
  /\ pc[p] = "isTable"
  /\ InTable(p) /\ table = "TABLE_FORMAT" /\ SetsFormat(p)
  /\ in' = [in EXCEPT ![p] = Wrap(@)]
  /\ AddOut(p, <<Begin("table", in[p]), Content("th", header)>>)
  /\ table' = "TABLE_LINE"
  /\ Return(p, TRUE)
  /\ UNCHANGED <<header, code_block, lists, html>>

NotATable(p) ==
  /\ pc[p] = "isTable"
  /\ InTable(p) /\ table = "TABLE_FORMAT" /\ ~SetsFormat(p)
  /\ in' = [in EXCEPT ![p] = Wrap(@)]
  /\ SetOut(p, Refused(Wrap(in[p])))
  /\ table' = "TABLE_START"
  /\ Return(p, TRUE)
  /\ UNCHANGED <<header, code_block, lists, html>>

Row(p) ==
  /\ pc[p] = "isTable"
  /\ InTable(p) /\ table = "TABLE_LINE"
  /\ AddOut(p, <<Content(IF HasCells(in[p]) THEN "td" ELSE "br", in[p])>>)
  /\ Return(p, TRUE)
  /\ UNCHANGED <<globals, in, html>>

EndTable(p) ==
  /\ pc[p] = "isTable"
  /\ ~InTable(p) /\ table = "TABLE_LINE"
  /\ table' = "TABLE_START"
  /\ Put(<<End("table", in[p])>>)
  /\ Return(p, FALSE)
  /\ UNCHANGED <<header, code_block, lists, in, out>>

NoTable(p) ==
  /\ pc[p] = "isTable"
  /\ ~InTable(p) /\ table # "TABLE_LINE"
  /\ Return(p, FALSE)
  /\ UNCHANGED <<globals, in, out, html>>

isTable(p) ==
  \/ SaveHeader(p) \/ OpenTable(p) \/ NotATable(p)
  \/ Row(p) \/ EndTable(p) \/ NoTable(p)

(* A fence counts only while no table header waits and no table is open. *)
AtFence(p) == table = "TABLE_START" /\ re_codeblock(in[p].text)

OpenCode(p) ==
  /\ pc[p] = "isCodeBlock"
  /\ AtFence(p) /\ code_block = "MUL_START"
  /\ AddOut(p, <<Begin("code", in[p])>>)
  /\ code_block' = "MUL_MIDDLE"
  /\ Return(p, TRUE)
  /\ UNCHANGED <<table, header, lists, in, html>>

CloseCode(p) ==
  /\ pc[p] = "isCodeBlock"
  /\ AtFence(p) /\ code_block = "MUL_MIDDLE"
  /\ AddOut(p, <<End("code", in[p])>>)
  /\ code_block' = "MUL_START"
  /\ Return(p, TRUE)
  /\ UNCHANGED <<table, header, lists, in, html>>

CodeLine(p) ==
  /\ pc[p] = "isCodeBlock"
  /\ ~AtFence(p) /\ code_block = "MUL_MIDDLE"
  /\ SetOut(p, <<Content("code", in[p])>>)
  /\ Return(p, TRUE)
  /\ UNCHANGED <<globals, in, html>>

NoCode(p) ==
  /\ pc[p] = "isCodeBlock"
  /\ ~AtFence(p) /\ code_block = "MUL_START"
  /\ Return(p, FALSE)
  /\ UNCHANGED <<globals, in, out, html>>

isCodeBlock(p) == OpenCode(p) \/ CloseCode(p) \/ CodeLine(p) \/ NoCode(p)

(* isUnorderList and isOrderList are the same but for their pattern, their *)
(* state and their tags.  An item replaces what earlier calls left in out. *)
FirstItem(p, k) ==
  /\ pc[p] = ListCall[k]
  /\ IsItem(k, in[p]) /\ lists[k] = "MUL_START"
  /\ SetOut(p, <<Begin(k, in[p]), Content("li", in[p])>>)
  /\ lists' = [lists EXCEPT ![k] = "MUL_MIDDLE"]
  /\ Return(p, TRUE)
  /\ UNCHANGED <<table, header, code_block, in, html>>

NextItem(p, k) ==
  /\ pc[p] = ListCall[k]
  /\ IsItem(k, in[p]) /\ lists[k] = "MUL_MIDDLE"
  /\ SetOut(p, <<Content("li", in[p])>>)
  /\ Return(p, TRUE)
  /\ UNCHANGED <<globals, in, html>>

EndList(p, k) ==
  /\ pc[p] = ListCall[k]
  /\ ~IsItem(k, in[p]) /\ lists[k] = "MUL_MIDDLE"
  /\ lists' = [lists EXCEPT ![k] = "MUL_START"]
  /\ Put(<<End(k, in[p])>>)
  /\ Return(p, FALSE)
  /\ UNCHANGED <<table, header, code_block, in, out>>

NoList(p, k) ==
  /\ pc[p] = ListCall[k]
  /\ ~IsItem(k, in[p]) /\ lists[k] = "MUL_START"
  /\ Return(p, FALSE)
  /\ UNCHANGED <<globals, in, out, html>>

isList(p, k) == FirstItem(p, k) \/ NextItem(p, k) \/ EndList(p, k) \/ NoList(p, k)

Step(p) ==
  \/ Open(p) \/ GetLine(p) \/ EndOfFile(p) \/ WriteLine(p)
  \/ isTable(p) \/ isCodeBlock(p)
  \/ \E k \in Lists : isList(p, k)

Next == \E p \in Parsers : Step(p)

Spec == Init /\ [][Next]_vars

------------------------------------------------------------------------------
(* Properties of a parser that is alone, over all the documents it parses. *)

(* How often the html has begun, or ended, e. *)
Tags(kind, e) == Cardinality({i \in DOMAIN html : html[i].kind = kind /\ html[i].what = e})

IsOpen(e) == Tags("begin", e) = Tags("end", e) + 1
IsShut(e) == Tags("begin", e) = Tags("end", e)

Texts == Line \cup {<<>>} \cup {Wrap([text |-> l]).text : l \in Line}

LineRecords == [doc : 0..MaxDocs, num : 0..MaxLines, text : Texts]

Pieces ==
  [kind : {"begin", "end"}, what : Elements, of : LineRecords]
    \cup [kind : {"content"}, what : {"th", "td", "li", "code", "br", "h", "hr", "p"},
          of : LineRecords]

(* Every variable keeps its type; parStr is emptied for each line (Parser.cpp:45), *)
(* so what the calls `+=' to it stays within one line's worth.                     *)
TypeOK ==
  /\ table \in {"TABLE_START", "TABLE_FORMAT", "TABLE_LINE"}
  /\ header \in LineRecords
  /\ code_block \in {"MUL_START", "MUL_MIDDLE"}
  /\ lists \in [Lists -> {"MUL_START", "MUL_MIDDLE"}]
  /\ pc \in [Parsers -> {"idle", "getline"} \cup DOMAIN After \cup {"write"}]
  /\ doc \in [Parsers -> 0..MaxDocs]
  /\ in \in [Parsers -> LineRecords]
  /\ out \in [Parsers -> Seq(Pieces)]
  /\ \A p \in Parsers : Len(out[p]) <= 2
  /\ multi \in [Parsers -> BOOLEAN]
  /\ html \in Seq(Pieces)
  /\ docs \in 0..MaxDocs
  /\ read \in 0..MaxLines

BetweenLines == \A p \in Parsers : pc[p] \in {"idle", "getline"}

(* Between two lines the globals say what the html says: an element is open *)
(* in the output exactly if its state is not its start.  It would break if  *)
(* a later call overwrote the `out' that opened an element, which is why    *)
(* isTable rewrites the line of dashes (Parser.cpp:335).                    *)
GlobalsMatchHtml ==
  BetweenLines =>
    /\ IF table = "TABLE_LINE" THEN IsOpen("table") ELSE IsShut("table")
    /\ IF code_block = "MUL_MIDDLE" THEN IsOpen("code") ELSE IsShut("code")
    /\ \A k \in Lists : IF lists[k] = "MUL_MIDDLE" THEN IsOpen(k) ELSE IsShut(k)

(* The tags in the file of document d that nothing behind them ends. *)
Unended(d) ==
  {i \in DOMAIN html :
     /\ html[i].kind = "begin" /\ html[i].of.doc = d
     /\ \A j \in DOMAIN html : html[j].kind = "end" /\ html[j].what = html[i].what => j < i}

Html == INSTANCE Outline WITH
  begun <- [e \in Elements |-> Tags("begin", e)],
  ended <- [e \in Elements |-> Tags("end", e)],
  here <- {html[i].what : i \in Unended(docs)}

(* Where elements begin and end: see Outline.  A list is over before a fence *)
(* is written (Parser.cpp:428) and before a list of the other kind begins    *)
(* (Parser.cpp:434); a code block never meets a table, and nothing but a     *)
(* list begins in either; no end is written of what nothing began.  Elements *)
(* do not always nest: a table may end around a list (Parser.cpp:410 comes   *)
(* before :259), and a document may end what an earlier one left open, as    *)
(* the globals (Parser.cpp:30-33) outlast it.                                *)
ImplementsOutline == Html!OutlineSpec

(* The piece is what the html has of its line, if only as a tag. *)
Shows(piece) ==
  \/ piece.kind = "content"
  \/ piece.what = "code"
  \/ piece.kind = "begin" /\ piece.what = "table"

(* Between two lines none read so far was dropped, whichever calls claimed   *)
(* it and overwrote each other's `out': it is in the html, or waits as a     *)
(* table's header.                                                           *)
NothingLost ==
  BetweenLines =>
    \A num \in 1..read :
      \/ \E i \in DOMAIN html : Shows(html[i]) /\ html[i].of.num = num
      \/ table = "TABLE_FORMAT" /\ header.num = num

(* No line appears twice, except that a list item with a bar in it is taken  *)
(* both for an item and for a table's header.                                *)
ShownOnce ==
  \A i, j \in DOMAIN html :
    /\ Shows(html[i]) /\ Shows(html[j])
    /\ html[i].of.num = html[j].of.num
    /\ ~(re_table(html[i].of.text) /\ \E k \in Lists : IsItem(k, html[i].of))
    => i = j

IsContent(piece) == piece.kind = "content"

(* The text is written in the order of the lines, but for a header, which    *)
(* waits for the next line with a bar outside a code block: it comes after   *)
(* lines without one, never after a line that could have answered it         *)
(* (Parser.cpp:330 and :297: no code block opens while a header waits).      *)
WrittenInOrder ==
  \A i, j \in DOMAIN html :
    i < j /\ IsContent(html[i]) /\ IsContent(html[j]) /\ html[i].of.num > html[j].of.num =>
      /\ html[j].what \in {"th", "p"} /\ re_table(html[j].of.text)
      /\ ~re_table(html[i].of.text)

(* A header waits that was read before this line, or was until it was shown  *)
(* further down.                                                             *)
HeaderWaitedAt(i) ==
  \/ table = "TABLE_FORMAT" /\ header.num < html[i].of.num
  \/ \E j \in DOMAIN html : j > i /\ IsContent(html[j]) /\ html[j].of.num < html[i].of.num

(* A fence begins or ends a code block, unless it holds a bar or a header    *)
(* waits (Parser.cpp:297): whatever table, list or document came before, a   *)
(* state left over never turns a fence into text.  Parser/README.md:68 knows *)
(* of no exception.                                                          *)
FencesAreSyntax ==
  BetweenLines => \A i \in DOMAIN html :
    LET text == html[i].of.text IN
      IsContent(html[i]) /\ re_codeblock(text) /\ ~re_table(text) =>
        html[i].what = "p" /\ HeaderWaitedAt(i)

------------------------------------------------------------------------------
(* What the documentation says and the code does not do. *)

IsCode(piece) == IsContent(piece) /\ piece.what = "code"

AfterFence(i) ==
  \E j \in 1..(i - 1) : html[j] = Begin("code", html[j].of) /\ html[j].of.doc = html[i].of.doc

(* Parser/README.md:68: a code block begins and ends with a fence.  A line is *)
(* code only after a fence in its own                                        *)
(* document.  Stated of the first document, to which no earlier one left a   *)
(* state.                                                                    *)
FirstCodeHasItsFence ==
  \A i \in DOMAIN html : IsCode(html[i]) /\ html[i].of.doc = 1 => AfterFence(i)

==============================================================================
