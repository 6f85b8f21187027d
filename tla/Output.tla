------------------------------- MODULE Output -------------------------------
(***************************************************************************)
(* How the client shows what the server answered (Client::formatOutput in  *)
(* src/client/Client.cpp): as JSON, as one value, or as a table, of the    *)
(* columns of the command or of columns the user chose, sorted by one.     *)
(*                                                                         *)
(* A text is a sequence of codes in their order, one for a digit, another  *)
(* character or a whole word.                                              *)
(***************************************************************************)
EXTENDS Naturals, FiniteSets, SequencesExt

CONSTANTS
  MaxItems,     \* bound: how many objects an answer has
  MaxCodes      \* bound: how long the columns in an option are

ASSUME OutputAssumption == {MaxItems, MaxCodes} \subseteq Nat

VARIABLES
  view,     \* the option, the file it names, the answer, the column to order by
  display     \* what is printed

outputVars == <<view, display>>

\* characters, and the words of options, labels and cells
CommaMark == 10
ColonMark == 11
Equals == 12
Null == 20
Id == 21
Name == 22
NoHeaders == 30
Json == 31
JsonPointer == 32
JsonPointerFile == 33
CustomColumns == 34
CustomColumnsFile == 35

Refused == [kind |-> "refused"]        \* an exception
Undefined == [kind |-> "undefined"]    \* the program reads what is not there
Whole == [kind |-> "json"]
Nothing == [kind |-> "nothing"]

-----------------------------------------------------------------------------
(* Cells.                                                                  *)

(* A number is shown by its digits, the constants by their names; anything *)
(* else than a scalar cannot be shown.                                     *)
NumberText[n \in Nat] == IF n < 10 THEN <<n>> ELSE Append(NumberText[n \div 10], n % 10)
Displayable(v) == v.type \in {"string", "number", "null"}
jsonValueToString(v) ==
  CASE v.type = "string" -> v.text
    [] v.type = "number" -> NumberText[v.number]
    [] v.type = "null"   -> <<Null>>

Less(s, t) ==
  \E i \in 1..Len(t) :
    /\ i <= Len(s) + 1
    /\ \A j \in 1..(i - 1) : s[j] = t[j]
    /\ i <= Len(s) => s[i] < t[i]

-----------------------------------------------------------------------------
(* Tables.  A column has a label and the attribute it shows.               *)

Known(item, c) == c.attribute \in DOMAIN item
CellOf(item, c) == IF Known(item, c) THEN jsonValueToString(item[c.attribute]) ELSE <<>>
RowOf(item, columns) == [i \in DOMAIN columns |-> CellOf(item, columns[i])]
Showable(items, columns) ==
  \A k \in DOMAIN items, i \in DOMAIN columns :
    IF Known(items[k], columns[i]) THEN Displayable(items[k][columns[i].attribute])
    ELSE columns[i].optional

(* The column to sort by: the first one unless the user names one; none    *)
(* when there is no column of that name.                                   *)
Indexer(columns, orderBy) ==
  IF orderBy = <<>> THEN 1 ELSE SelectInSeq(columns, LAMBDA c : c.label = orderBy)

(* std::sort keeps no order among equals: any sorted arrangement.          *)
Sorted(rows, n) == \A i, j \in DOMAIN rows : i < j => ~Less(rows[j][n], rows[i][n])
Arranged(rows, n) ==
  IF n = 0 THEN {rows}
  ELSE {a \in {[i \in DOMAIN rows |-> rows[p[i]]] :
                 p \in {q \in [DOMAIN rows -> DOMAIN rows] : IsInjective(q)}} : Sorted(a, n)}

LabelRow(columns, headers) == IF headers THEN <<[i \in DOMAIN columns |-> columns[i].label]>> ELSE <<>>
Rows(items, columns) == [k \in DOMAIN items |-> RowOf(items[k], columns)]
Table(lines, columns, headers) ==
  [kind |-> "table", lines |-> lines, columns |-> columns, headers |-> headers]

(* A faulty variant: the line of labels is sorted with the others.         *)
jsonListToTableAll(items, columns, headers, orderBy) ==
  IF ~Showable(items, columns) THEN {Refused}
  ELSE {Table(a, columns, headers) :
          a \in Arranged(LabelRow(columns, headers) \o Rows(items, columns), Indexer(columns, orderBy))}

(* One row per object, below the labels.  Two rows without any cell are    *)
(* compared by their first.                                                *)
jsonListToTable(items, columns, headers, orderBy) ==
  LET n == Indexer(columns, orderBy) IN
  CASE ~Showable(items, columns) -> {Refused}
    [] columns = <<>> /\ Len(items) > 1 /\ n # 0 -> {Undefined}
    [] OTHER -> {Table(LabelRow(columns, headers) \o a, columns, headers) :
                   a \in Arranged(Rows(items, columns), IF columns = <<>> THEN 0 ELSE n)}

-----------------------------------------------------------------------------
(* The columns a user chooses.                                             *)

Where(text, code) == SelectInSeq(text, LAMBDA c : c = code)
Mentions(text, code) == Where(text, code) # 0
After(text, code) == SubSeq(text, Where(text, code) + 1, Len(text))
Before(text, code) == SubSeq(text, 1, Where(text, code) - 1)

NewColumn(label, attribute) == [label |-> label, attribute |-> attribute, optional |-> FALSE]

(* "label:attribute,label:attribute": the label ends at the first colon,   *)
(* the attribute at the next comma, which may also be the last character.  *)
RECURSIVE inlineColumns(_, _)
inlineColumns(cols, before) ==
  LET rest == After(cols, ColonMark) IN
  CASE cols = <<>> -> [columns |-> before, refused |-> FALSE]
    [] cols # <<>> /\ (~Mentions(cols, ColonMark) \/ rest = <<>>) -> [columns |-> <<>>, refused |-> TRUE]
    [] OTHER ->
         IF Mentions(rest, CommaMark)
         THEN inlineColumns(After(rest, CommaMark),
                            Append(before, NewColumn(Before(cols, ColonMark), Before(rest, CommaMark))))
         ELSE inlineColumns(<<>>, Append(before, NewColumn(Before(cols, ColonMark), rest)))

(* A file: the first line with words has the labels, the next one their    *)
(* attributes; any further line is refused, an empty one too.              *)
readLine(c, words) ==
  CASE c.labels = <<>> -> [c EXCEPT !.labels = words]
    [] c.labels # <<>> /\ c.data = <<>> -> [c EXCEPT !.data = words]
    [] OTHER -> [c EXCEPT !.refused = TRUE]

fileColumns(v) ==
  LET c == FoldLeft(readLine, [labels |-> <<>>, data |-> <<>>, refused |-> FALSE], v.file) IN
  CASE c.refused -> {Refused}
    [] ~c.refused /\ Len(c.labels) > Len(c.data) -> {Undefined}
    [] OTHER -> jsonListToTable(v.items, [i \in DOMAIN c.labels |->
                                            NewColumn(<<c.labels[i]>>, <<c.data[i]>>)], TRUE, v.orderBy)

-----------------------------------------------------------------------------
(* One value of the answer (here of its first object), read as a text.     *)

readJsonPointer(items, pointer) ==
  CASE items = <<>> \/ pointer \notin DOMAIN items[1] -> {Refused}
    [] items # <<>> /\ pointer \in DOMAIN items[1] ->
         IF items[1][pointer].type = "string"
         THEN {[kind |-> "value", text |-> items[1][pointer].text]} ELSE {Undefined}

(* Every option that begins with "json".                                   *)
clientShouldPrintOnlyJson(option) ==
  option # <<>> /\ option[1] \in {Json, JsonPointer, JsonPointerFile}

CommandColumns ==
  <<NewColumn(<<Id>>, <<Id>>), [NewColumn(<<Name>>, <<Name>>) EXCEPT !.optional = TRUE]>>

(* The name of a format is searched for in the whole option; what follows  *)
(* the first "=" is its argument, or the file that has it.                 *)
formatOutput(v) ==
  LET argument == After(v.option, Equals)
      given == Mentions(v.option, Equals) /\ argument # <<>>
      chosen == inlineColumns(argument, <<>>)
  IN IF clientShouldPrintOnlyJson(v.option) THEN {Whole}
     ELSE IF Mentions(v.option, CustomColumnsFile)
     THEN IF given /\ v.readable THEN fileColumns(v) ELSE {Refused}
     ELSE IF Mentions(v.option, CustomColumns)
     THEN IF given /\ ~chosen.refused THEN jsonListToTable(v.items, chosen.columns, TRUE, v.orderBy)
          ELSE {Refused}
     ELSE IF v.option = <<NoHeaders>> THEN jsonListToTable(v.items, CommandColumns, FALSE, v.orderBy)
     ELSE IF Mentions(v.option, JsonPointerFile)
     THEN IF given /\ v.readable THEN readJsonPointer(v.items, FlattenSeq(v.file)) ELSE {Refused}
     ELSE IF Mentions(v.option, JsonPointer)
     THEN IF given THEN readJsonPointer(v.items, argument) ELSE {Refused}
     ELSE IF v.option = <<>> THEN jsonListToTable(v.items, CommandColumns, TRUE, v.orderBy)
     ELSE {Refused}

-----------------------------------------------------------------------------
(* The commands users enter and the answers they get.                      *)

Number(n) == [type |-> "number", number |-> n]
AnswerObjects ==
  {<<Id>> :> v : v \in {Number(9), Number(10), [type |-> "null"]}}
    \cup {(<<Id>> :> v) @@ (<<Name>> :> w) :
            v \in {Number(9), Number(10)}, w \in {[type |-> "string", text |-> <<5>>], [type |-> "object"]}}

ColumnTexts == UNION {[1..k -> {Id, Name, ColonMark, CommaMark}] : k \in 0..MaxCodes}
Lines == {<<>>, <<Id>>, <<Name>>, <<Id, Name>>}

(* Any option with any answer, and the longer arguments with a few.        *)
Options ==
  {<<>>, <<NoHeaders>>, <<Json>>, <<CustomColumns>>, <<CustomColumnsFile>>, <<JsonPointer>>, <<Null>>}
    \cup {<<f, Equals>> \o a : f \in {CustomColumns, CustomColumnsFile, JsonPointer, JsonPointerFile},
                              a \in {<<>>, <<Id>>, <<Name>>}}
    \cup {<<NoHeaders, f, Equals, Name>> : f \in {JsonPointer, JsonPointerFile}}

(* A command before its answer is there.                                   *)
Asked == [option |-> <<>>, readable |-> FALSE, file |-> <<>>, items |-> <<>>, orderBy |-> <<>>]

OutputInit == view = Asked /\ display = Nothing

enterCommand ==
  /\ view = Asked
  /\ view' \in
       {[option |-> o, readable |-> ok, file |-> <<l, m>>, items |-> a, orderBy |-> b] :
          o \in Options, ok \in BOOLEAN, l \in Lines, m \in Lines,
          a \in {<<x>> : x \in AnswerObjects}, b \in {<<>>, <<Name>>}}
       \cup {[Asked EXCEPT !.option = o, !.items = a, !.orderBy = b] :
               o \in {<<>>, <<NoHeaders>>, <<CustomColumns, Equals, Name, ColonMark, Id>>},
               a \in UNION {[1..k -> AnswerObjects] : k \in 0..MaxItems}, b \in {<<>>, <<Name>>, <<Null>>}}
       \cup {[Asked EXCEPT !.option = <<CustomColumns, Equals>> \o c, !.items = a] :
               c \in ColumnTexts, a \in {<<>>} \cup {<<x, x>> : x \in AnswerObjects}}
       \cup {[Asked EXCEPT !.option = <<CustomColumnsFile, Equals, Id>>, !.readable = TRUE,
                           !.file = f] : f \in UNION {[1..k -> Lines] : k \in 0..3}}
  /\ UNCHANGED display

printOutput ==
  /\ view # Asked /\ display = Nothing
  /\ display' \in formatOutput(view)
  /\ UNCHANGED view

OutputNext == enterCommand \/ printOutput

-----------------------------------------------------------------------------
(* What a list of columns means: what is between two commas is a column,   *)
(* the label before its first colon and the attribute after it.            *)
Marks(text) == {0, Len(text) + 1} \cup {i \in DOMAIN text : text[i] = CommaMark}
Pieces(text) ==
  LET from == SetToSortSeq(Marks(text) \ {Len(text) + 1}, <)
      to == SetToSortSeq(Marks(text) \ {0}, <)
  IN [i \in DOMAIN from |-> SubSeq(text, from[i] + 1, to[i] - 1)]
WellFormed(text) == \A i \in DOMAIN Pieces(text) :
  LET piece == Pieces(text)[i] IN Mentions(piece, ColonMark) /\ After(piece, ColonMark) # <<>>

Occurrences(row, rows) == {i \in DOMAIN rows : rows[i] = row}
SameRows(rows, others) ==
  /\ Len(rows) = Len(others)
  /\ \A i \in DOMAIN rows :
       Cardinality(Occurrences(rows[i], rows)) = Cardinality(Occurrences(rows[i], others))

(* A table has one row for every object of the answer, with the attributes *)
(* of its columns, the labels above them unless suppressed, sorted by the  *)
(* column the user named, if there is one; and columns written as "label:  *)
(* attribute" separated by commas are the columns that are shown           *)
(* (jsonListToTable, formatOutput).                                        *)
OutputRight ==
  /\ display.kind = "table" =>
       LET head == LabelRow(display.columns, display.headers)
           rows == SubSeq(display.lines, Len(head) + 1, Len(display.lines))
           n == Indexer(display.columns, view.orderBy)
       IN /\ SubSeq(display.lines, 1, Len(head)) = head
          /\ SameRows(rows, Rows(view.items, display.columns))
          /\ (n # 0 /\ display.columns # <<>>) => Sorted(rows, n)
  /\ LET text == After(view.option, Equals) IN
     (display # Nothing /\ view.option # <<>> /\ view.option[1] = CustomColumns /\ WellFormed(text)) =>
       /\ display.kind = "table"
            => display.columns = [i \in DOMAIN Pieces(text) |->
                                  NewColumn(Before(Pieces(text)[i], ColonMark), After(Pieces(text)[i], ColonMark))]
       /\ display.kind = "refused"
            => ~Showable(view.items, inlineColumns(text, <<>>).columns)
=============================================================================
