------------------------------- MODULE Texts -------------------------------
(***************************************************************************)
(* The conversions and comparisons the client and the server rely on, each *)
(* applied to one sample: base64 (src/Archive.cpp), credentials and places *)
(* in the database (src/Entities.cpp), amounts of memory                   *)
(* (src/ServerUtilities.cpp), versions (src/Utilities.cpp,                 *)
(* src/client/Client.cpp), names that resemble each other, tables and      *)
(* wrapped lines (src/client/Client.cpp).  A text is a sequence of codes.  *)
(***************************************************************************)
EXTENDS Integers, Sequences, FiniteSetsExt

CONSTANTS
  Bytes,          \* the bytes to encode, and the longest sequence of them
  MaxBytes,
  Numbers,        \* the components of versions, and how many one has
  MaxComponents,
  Letters,        \* the letters of names, and the longest name
  MaxLetters,
  CellLengths,    \* the cells of tables: how long, and where they may break
  CellBreaks,
  Widths,         \* the widths of the terminal
  Amounts         \* amounts of memory, in KiB

ASSUME TextsAssumption ==
  /\ Bytes \subseteq 0..255 /\ Numbers \subseteq 0..99
  /\ {MaxBytes, MaxComponents, MaxLetters} \subseteq Nat
  /\ CellLengths \subseteq Nat /\ CellBreaks \subseteq SUBSET Nat
  /\ Widths \subseteq Nat \ {0} /\ Amounts \subseteq Nat

VARIABLES
  sample,    \* what is converted
  result     \* what came of it, once it is there

textVars == <<sample, result>>

NotYet == <<>>
UpTo(n, S) == UNION {[1..k -> S] : k \in 0..n}

-----------------------------------------------------------------------------
(* Base64.  A code is 0..63, or Pad.                                       *)

Pad == 64

(* Each code goes into the bits of the current byte that are still free,   *)
(* the rest of it into the next one.  The last cell is the terminator of   *)
(* the string, which the last code may touch.                              *)
Decoded(coded) ==
  LET digits == SelectSeq(coded, LAMBDA c : c # Pad)
      put[i \in 0..Len(digits)] ==
        IF i = 0 THEN [bytes |-> [k \in 1..(Len(digits) * 3) \div 4 + 1 |-> 0], at |-> 1, bits |-> 0]
        ELSE LET s == put[i - 1]
                 first == Min({8 - s.bits, 6})
                 rest == 6 - first
                 begun == [s.bytes EXCEPT ![s.at] =
                             @ + (digits[i] \div 2^rest) * 2^(8 - s.bits - first)]
             IN IF s.bits + first < 8
                THEN [s EXCEPT !.bytes = begun, !.bits = @ + first]
                ELSE [bytes |-> IF rest = 0 THEN begun
                                ELSE [begun EXCEPT ![s.at + 1] = (digits[i] % 2^rest) * 2^(8 - rest)],
                      at |-> s.at + 1, bits |-> rest]
  IN put[Len(digits)].bytes

decodeBase64(coded) == SubSeq(Decoded(coded), 1, Len(Decoded(coded)) - 1)

(* The other way round: the bits still available in a byte, then the next. *)
encodeBase64(raw) ==
  LET pad == (3 - (Len(raw) % 3)) % 3
      size == 4 * ((Len(raw) + 2) \div 3)
      Byte(k) == IF k <= Len(raw) THEN raw[k] ELSE 0
      get[i \in 0..(size - pad)] ==
        IF i = 0 THEN [codes |-> <<>>, at |-> 1, bits |-> 8]
        ELSE LET s == get[i - 1]
                 first == Min({6, s.bits})
                 more == 6 - first
                 high == ((Byte(s.at) \div 2^(s.bits - first)) % 2^first) * 2^more
             IN IF s.bits > first
                THEN [s EXCEPT !.codes = Append(@, high), !.bits = @ - first]
                ELSE [codes |-> Append(s.codes, high + Byte(s.at + 1) \div 2^(8 - more)),
                      at |-> s.at + 1, bits |-> 8 - more]
  IN get[size - pad].codes \o [k \in 1..pad |-> Pad]

-----------------------------------------------------------------------------
(* A credential is stored as its two keys with a space between them, which *)
(* the keys the object store issues do not contain; a place as its         *)
(* coordinates and, after " - ", its description.                          *)

Space == 32
Comma == 44
Dash == 45

serialize(cred) == cred.accessKey \o <<Space>> \o cred.secretKey

NoCredential == [accessKey |-> <<>>, secretKey |-> <<>>]

deserialize(data) ==
  LET spaces == {p \in 1..Len(data) : data[p] = Space}
      pos == Min(spaces)
  IN IF spaces = {} \/ pos = 1 \/ pos = Len(data) THEN NoCredential
     ELSE [accessKey |-> SubSeq(data, 1, pos - 1), secretKey |-> SubSeq(data, pos + 1, Len(data))]

(* Coordinates are one code each here; the extraction operator gives up    *)
(* where a comma or a coordinate is missing.                               *)
writeLocation(gl) ==
  <<gl.lat, Comma, gl.lon>>
  \o IF gl.description = <<>> THEN <<>> ELSE <<Space, Dash, Space>> \o gl.description

readLocation(text) ==
  [lat |-> text[1], lon |-> text[3],
   description |-> IF Len(text) > 5 /\ SubSeq(text, 4, 6) = <<Space, Dash, Space>>
                   THEN SubSeq(text, 7, Len(text)) ELSE <<>>]

-----------------------------------------------------------------------------
(* Amounts of memory, in KiB: the amount of a node, read with its suffix,  *)
(* and the sum, shown as a whole and a fractional part of a suffix.        *)

UnitSuffixes == <<"Ki", "Mi", "Gi", "Ti">>
Scale(i) == 1024^(i - 1)

parseStringSuffix(number, suffix) ==
  number * (IF \E i \in DOMAIN UnitSuffixes : UnitSuffixes[i] = suffix
            THEN Scale(CHOOSE i \in DOMAIN UnitSuffixes : UnitSuffixes[i] = suffix) ELSE 1)

(* The first suffix that leaves less than 1024; the remainder, in bytes,   *)
(* goes through an int of 32 bits.                                         *)
generateSuffixedString(value) ==
  LET i == Min({k \in DOMAIN UnitSuffixes : value \div Scale(k) < 1024} \cup {Len(UnitSuffixes)})
      low == (value % Scale(i)) % 2^22
  IN [mantissa |-> value \div Scale(i), suffix |-> UnitSuffixes[i],
      remainder |-> IF low >= 2^21 THEN low - 2^22 ELSE low]

-----------------------------------------------------------------------------
(* Versions: a text of numbers with dots between them.                     *)

Dot == 46
Zero == 48
Tilde == 126
Vee == 118
Digits == 48..57
Alphas == 97..122

Digit(n) == IF n < 10 THEN <<Zero + n>> ELSE <<Zero + n \div 10, Zero + (n % 10)>>

VersionText(v) ==
  LET join[i \in 1..Len(v)] == IF i = 1 THEN Digit(v[1]) ELSE join[i - 1] \o <<Dot>> \o Digit(v[i])
  IN join[Len(v)]

CodeAt(s, i) == IF i <= Len(s) THEN s[i] ELSE 0
FirstNotIn(s, i, C) == Min({k \in i..Len(s) + 1 : CodeAt(s, k) \notin C})
Skipped(s, i) == Min({k \in i..Len(s) + 1 : k > Len(s) \/ s[k] \in Digits \cup Alphas \cup {Tilde}})

Sign(m, n) == IF m < n THEN -1 ELSE IF m > n THEN 1 ELSE 0

(* strcmp of the segments s[i..k-1] and t[j..l-1].                         *)
CompareSegments(s, i, k, t, j, l) ==
  LET differ == {d \in 0..Min({k - i, l - j}) - 1 : s[i + d] # t[j + d]}
  IN IF differ # {} THEN Sign(s[i + Min(differ)], t[j + Min(differ)]) ELSE Sign(k - i, l - j)

(* The segment that starts at i: its digits, unless letters follow them,   *)
(* which then replace them; begin and end.                                 *)
Segment(s, i, first) ==
  LET e == IF CodeAt(first.s, first.i) \in Digits THEN FirstNotIn(s, i, Digits) ELSE i
      f == IF CodeAt(first.s, first.i) \in Digits THEN FirstNotIn(first.s, first.i, Digits) ELSE first.i
  IN IF CodeAt(first.s, f) \in Alphas
     THEN [begin |-> e, end |-> FirstNotIn(s, e, Alphas)]
     ELSE [begin |-> i, end |-> e]

(* What would order 10 before 9: to compare the digits only.               *)
compareTexts(a, b) == CompareSegments(a, 1, Len(a) + 1, b, 1, Len(b) + 1)

(* The kinds of the segments are those of the first version; a number is   *)
(* compared by its length without leading zeros, then digit by digit.      *)
compareVersions(a, b) ==
  LET WithoutZeros(s, g) == IF s[g.begin] \in Digits
                            THEN [g EXCEPT !.begin = Min({k \in g.begin..g.end : k = g.end \/ s[k] # Zero})]
                            ELSE g
      cmp[i \in 1..Len(a) + 1, j \in 1..Len(b) + 1] ==
        IF i > Len(a) \/ j > Len(b) THEN Sign(Len(a) - i, Len(b) - j)
        ELSE LET p0 == Skipped(a, i)
                 q0 == Skipped(b, j)
                 both == CodeAt(a, p0) = Tilde /\ CodeAt(b, q0) = Tilde
                 p == IF both THEN p0 + 1 ELSE p0
                 q == IF both THEN q0 + 1 ELSE q0
                 ga == Segment(a, p, [s |-> a, i |-> p])
                 gb == Segment(b, q, [s |-> a, i |-> p])
                 za == WithoutZeros(a, ga)
                 zb == IF a[ga.begin] \in Digits THEN WithoutZeros(b, gb) ELSE gb
                 order == CompareSegments(a, za.begin, za.end, b, zb.begin, zb.end)
             IN IF both /\ (p > Len(a) \/ q > Len(b)) THEN Sign(Len(a) - p, Len(b) - q)
                ELSE IF CodeAt(a, p) = Tilde THEN -1
                ELSE IF CodeAt(b, q) = Tilde THEN 1
                ELSE IF gb.begin = gb.end THEN IF a[ga.begin] \in Digits THEN 1 ELSE -1
                ELSE IF a[ga.begin] \in Digits /\ za.end - za.begin # zb.end - zb.begin
                THEN Sign(za.end - za.begin, zb.end - zb.begin)
                ELSE IF order # 0 THEN order ELSE cmp[ga.end, gb.end]
  IN IF a = b THEN 0 ELSE cmp[1, 1]

(* The numbers of a version, without the v it may start with; none when    *)
(* there is no dot.                                                        *)
semverParse(text) ==
  LET dots == {p \in 1..Len(text) : text[p] = Dot}
      begin == IF Vee \in {text[p] : p \in 1..Len(text)} THEN 2 ELSE 1
      Value(from, to) == LET val[i \in (from - 1)..to] ==
                               IF i < from THEN 0 ELSE val[i - 1] * 10 + (text[i] - Zero)
                         IN val[to]
      Nth(k) == CHOOSE p \in dots : Cardinality({q \in dots : q <= p}) = k
      n == Cardinality(dots)
  IN IF dots = {} THEN <<>>
     ELSE [k \in 1..n + 1 |-> Value(IF k = 1 THEN begin ELSE Nth(k - 1) + 1,
                                    IF k = n + 1 THEN Len(text) ELSE Nth(k) - 1)]

(* Any larger component will do.                                           *)
newerVersionAvailable(client, available) ==
  /\ Len(client) = Len(available)
  /\ \E i \in 1..Len(client) : available[i] > client[i]

-----------------------------------------------------------------------------
(* The distance of two names, in one row that is overwritten.              *)

levensteinDistance(one, other) ==
  LET source == IF Len(one) > Len(other) THEN other ELSE one
      target == IF Len(one) > Len(other) THEN one ELSE other
      row[j \in 0..Len(target)] ==
        IF j = 0 THEN [i \in 1..Len(source) + 1 |-> i - 1]
        ELSE LET before == row[j - 1]
                 next[i \in 0..Len(source)] ==
                   IF i = 0 THEN <<before[1] + 1>>
                   ELSE LET new == next[i - 1]
                        IN Append(new, IF source[i] = target[j] THEN before[i]
                                       ELSE Min({new[i], before[i + 1], before[i]}) + 1)
             IN next[Len(source)]
  IN row[Len(target)][Len(source) + 1]

-----------------------------------------------------------------------------
(* Tables.  A cell has a length and positions after which it may break.    *)

Huge == 1000     \* a negative width, taken as an unsigned one
Columns == 1..2
Sum2(w, C) == FoldSet(LAMBDA j, n : n + w[j], 0, C)

(* The widths of the columns: all of them as wide as their widest cell if  *)
(* that fits, else those that may wrap shortened in proportion.            *)
ColumnWidths(items, wraps, width) ==
  LET wide == [j \in Columns |-> Max({items[i][j].len : i \in DOMAIN items})]
      total == Sum2(wide, Columns) + Cardinality(Columns) - 1
      wrappable == Sum2(wide, {j \in Columns : wraps[j]})
      Short(w) == IF width < total - wrappable THEN Huge
                  ELSE Max({1, (w * (width - (total - wrappable))) \div wrappable})
  IN [j \in Columns |-> IF total > width /\ wrappable > 2 /\ wraps[j] THEN Short(wide[j]) ELSE wide[j]]

(* How much of a cell goes on the next line: up to the last place to break *)
(* within the column, unless that wastes half of it.                       *)
PieceLength(cell, from, wraps, w) ==
  LET fits == {p \in cell.breaks : p < cell.len /\ p >= from /\ p - from < w}
      upTo == IF fits = {} THEN w ELSE Max(fits) - from + 1
  IN IF wraps /\ 2 * upTo > w THEN upTo ELSE w

(* The lines of a row, until every cell is done.  A cell that is done is   *)
(* left blank while a later one is not, and printed again otherwise.       *)
PrintCell(row, wraps, w, s, j) ==
  LET len == PieceLength(row[j], s[j].printed, wraps[j], w[j])
      over == s[j].printed + len >= row[j].len
  IN IF s[j].done /\ \E k \in Columns : k > j /\ ~s[k].done THEN s[j]
     ELSE [pieces |-> s[j].pieces \cup {<<s[j].printed, Min({len, row[j].len - s[j].printed})>>},
           printed |-> IF over THEN s[j].printed ELSE s[j].printed + len, done |-> over]

printRow(row, wraps, w) ==
  LET fresh == [pieces |-> {}, printed |-> 0, done |-> FALSE]
      most == Max({row[j].len : j \in Columns}) + 1
      lines[n \in 0..most] ==
        IF n = 0 THEN <<fresh, fresh>>
        ELSE LET before == lines[n - 1]
             IN IF \A j \in Columns : before[j].done THEN before
                ELSE <<PrintCell(row, wraps, w, before, 1), PrintCell(row, wraps, w, before, 2)>>
  IN lines[most]

formatTable(items, wraps, width) ==
  [i \in DOMAIN items |-> printRow(items[i], wraps, ColumnWidths(items, wraps, width))]

(* The lengths of the lines of a text that is wrapped with an indentation; *)
(* a width less than that is taken as a huge one, and one equal to it      *)
(* leaves no room for anything.                                            *)
wrapWithIndent(size, indent, width) ==
  LET first == Min({width, size})
      later == IF width < indent THEN Huge ELSE width - indent
      left == size - first
  IN IF left = 0 THEN <<first>>
     ELSE IF later = 0 THEN <<>>
     ELSE <<first>> \o [k \in 1..(left + later - 1) \div later |->
                          IF k * later <= left THEN later ELSE left % later]

-----------------------------------------------------------------------------
(* The address of the server, to which the client appends paths.           *)

Slash == 47
Colon == 58
Question == 63
AtSign == 64
Hash == 35
Nowhere == 1000
Find(s, C, from) == Min({p \in from..Len(s) : s[p] \in C} \cup {Nowhere})

validEndpoint(url) ==
  LET seps == {p \in 1..Len(url) - 2 : SubSeq(url, p, p + 2) = <<Colon, Slash, Slash>>}
      sep == Min(seps)
      user == Find(url, {AtSign}, sep + 3)
      hostPos == IF user # Nowhere THEN user + 1 ELSE sep + 3
      portPos == Find(url, {Colon}, hostPos)
  IN /\ seps # {} /\ sep > 1
     /\ \A p \in 1..sep - 1 : url[p] \in Alphas \cup Digits \cup {43, Dot, Dash}
     /\ sep + 3 <= Len(url)
     /\ Find(url, {Question, Hash}, 1) = Nowhere
     /\ hostPos <= Len(url)
     /\ Find(url, {Slash}, hostPos) >= portPos
     /\ portPos # Nowhere =>
          portPos < Len(url) /\ \A p \in portPos + 1..Len(url) : url[p] \in Digits
     /\ url[Len(url)] # Slash

-----------------------------------------------------------------------------
(* Identifiers: a prefix for the kind of thing and 64 random bits in       *)
(* base64, six to a character, with the two characters that are not safe   *)
(* in a URL replaced.  An identifier is its prefix, the number of its      *)
(* other characters and whether they are all of that alphabet.             *)

IDPrefixes == {"user_", "cluster_", "group_", "instance_", "secret_", "volume_"}
PrefixLength ==
  [user_ |-> 5, cluster_ |-> 8, group_ |-> 6, instance_ |-> 9, secret_ |-> 7, volume_ |-> 7]

generateRawID == [size |-> (8 * 8 + 5) \div 6, clean |-> TRUE]
generateID(prefix) == [prefix |-> prefix, size |-> generateRawID.size, clean |-> generateRawID.clean]

(* The client checks all but the identifiers of clusters, which it never   *)
(* tells from names.                                                       *)
IDLength == [user_ |-> 16, group_ |-> 17, instance_ |-> 20, secret_ |-> 18, volume_ |-> 18]
verifyID(prefix, id) ==
  /\ PrefixLength[id.prefix] + id.size = IDLength[prefix]
  /\ id.prefix = prefix
  /\ id.clean

-----------------------------------------------------------------------------
(* One sample of each kind, and what the code makes of it.                 *)

Versions == UpTo(MaxComponents, Numbers) \ {<<>>}
Names == UpTo(MaxLetters, Letters)
UrlCodes == {97, Zero, Slash, Colon, AtSign, Question}
Cells == [len : CellLengths, breaks : CellBreaks]

Samples ==
  [kind : {"bytes"}, raw : UpTo(MaxBytes, Bytes)]
  \cup [kind : {"names"}, one : Names, other : Names]
  \cup [kind : {"versions"}, one : Versions, other : Versions]
  \cup [kind : {"amount"}, value : Amounts]
  \cup [kind : {"lines"}, size : CellLengths, indent : Widths, width : Widths]
  \cup [kind : {"table"}, items : [1..2 -> [Columns -> Cells]], wraps : [Columns -> BOOLEAN],
        width : Widths]
  \cup [kind : {"url"}, url : {a \o b \o c : a \in {<<>>, <<97>>, <<65>>},
                               b \in {<<>>, <<Colon, Slash, Slash>>}, c \in UpTo(4, UrlCodes)}]
  \cup [kind : {"id"}, prefix : IDPrefixes, checked : DOMAIN IDLength]

TextsInit == sample \in Samples /\ result = NotYet

Becomes(kind, r) == sample.kind = kind /\ result = NotYet /\ result' = <<r>> /\ UNCHANGED sample

sendChart ==
  sample.kind = "bytes" /\ Becomes("bytes", decodeBase64(encodeBase64(sample.raw)))

storeRecords ==
  /\ sample.kind = "names"
  /\ Becomes("names",
       [credential |-> deserialize(serialize([accessKey |-> sample.one, secretKey |-> sample.other])),
        place |-> readLocation(writeLocation([lat |-> 1, lon |-> 2, description |-> sample.one])),
        distance |-> levensteinDistance(sample.one, sample.other)])

compareInstalled ==
  /\ sample.kind = "versions"
  /\ LET client == VersionText(sample.one)
         available == VersionText(sample.other)
     IN Becomes("versions", [order |-> compareVersions(client, available),
                             newer |-> newerVersionAvailable(semverParse(client),
                                                             semverParse(<<Vee>> \o available))])

sumMemory ==
  /\ sample.kind = "amount"
  /\ Becomes("amount", generateSuffixedString(parseStringSuffix(sample.value, "Ki")))

printTable ==
  sample.kind = "table" /\ Becomes("table", formatTable(sample.items, sample.wraps, sample.width))

wrapLines ==
  sample.kind = "lines" /\ Becomes("lines", wrapWithIndent(sample.size, sample.indent, sample.width))

checkEndpoint == sample.kind = "url" /\ Becomes("url", validEndpoint(sample.url))

checkID == sample.kind = "id" /\ Becomes("id", verifyID(sample.checked, generateID(sample.prefix)))

TextsNext ==
  \/ sendChart \/ storeRecords \/ compareInstalled \/ sumMemory \/ printTable \/ wrapLines
  \/ checkEndpoint \/ checkID

-----------------------------------------------------------------------------
(* What the comparisons are meant to be: versions component by component,  *)
(* a prefix first; the least number of insertions, deletions and           *)
(* replacements.                                                           *)
Ordered(v, w) ==
  LET differ == {i \in 1..Min({Len(v), Len(w)}) : v[i] # w[i]}
  IN IF differ = {} THEN Sign(Len(v), Len(w)) ELSE Sign(v[Min(differ)], w[Min(differ)])

EditDistance(s, t) ==
  LET d[i \in 0..Len(s), j \in 0..Len(t)] ==
        IF i = 0 \/ j = 0 THEN i + j
        ELSE Min({d[i - 1, j] + 1, d[i, j - 1] + 1, d[i - 1, j - 1] + IF s[i] = t[j] THEN 0 ELSE 1})
  IN d[Len(s), Len(t)]

(* A newer controller, role or client is recognised for what it is (a      *)
(* version that is newer is never passed over, when both have as many      *)
(* components, though one that is not newer may be offered), and the       *)
(* instance suggested for a mistyped name is the nearest one.              *)
ComparisonsRight ==
  /\ sample.kind = "versions" /\ result # NotYet =>
       /\ result[1].order = Ordered(sample.one, sample.other)
       /\ Len(sample.one) = Len(sample.other) /\ Len(sample.one) > 1
            /\ Ordered(sample.one, sample.other) = -1 => result[1].newer
  /\ sample.kind = "names" /\ result # NotYet =>
       result[1].distance = EditDistance(sample.one, sample.other)

(* A scheme, a separator, a host and possibly a port, but nothing more.    *)
PlainURL(url) ==
  \E k \in 2..Len(url) - 3 :
    /\ \A p \in 1..k - 1 : url[p] \in Alphas \cup Digits
    /\ SubSeq(url, k, k + 2) = <<Colon, Slash, Slash>>
    /\ \A p \in k + 3..Len(url) : url[p] \notin {Slash, Question, Hash}
    /\ \A p \in k + 3..Len(url) :
         url[p] = Colon => p < Len(url) /\ \A q \in p + 1..Len(url) : url[q] \in Digits

(* Nothing is lost on the way: what was encoded is decoded again, what was *)
(* stored is read back, an amount below a TiB is shown as it is, and a     *)
(* table or a wrapped text ends with every cell and line printed in full,  *)
(* however narrow the terminal (but for one as wide as the indentation).   *)
(* An address is accepted exactly when paths can be appended to it (unless *)
(* it has an @, before which a path goes unnoticed), and an identifier     *)
(* exactly when it is one the server makes for things of that kind.        *)
TextsPreserved ==
  result # NotYet =>
    CASE sample.kind = "bytes" -> result[1] = sample.raw
      [] sample.kind = "names" ->
           /\ sample.one # <<>> /\ sample.other # <<>> =>
                result[1].credential = [accessKey |-> sample.one, secretKey |-> sample.other]
           /\ result[1].place = [lat |-> 1, lon |-> 2, description |-> sample.one]
      [] sample.kind = "amount" ->
           sample.value < 2^30 =>
             \E i \in DOMAIN UnitSuffixes : /\ UnitSuffixes[i] = result[1].suffix
                                        /\ result[1].mantissa * Scale(i) + result[1].remainder = sample.value
      [] sample.kind = "table" ->
           \A i \in DOMAIN sample.items, j \in Columns :
             LET cell == result[1][i][j]
             IN cell.done /\ Sum2([p \in cell.pieces |-> p[2]], cell.pieces) = sample.items[i][j].len
      [] sample.kind = "lines" ->
           sample.width # sample.indent => Sum2(result[1], DOMAIN result[1]) = sample.size
      [] sample.kind = "url" ->
           AtSign \notin {sample.url[p] : p \in DOMAIN sample.url} =>
             (result[1] <=> PlainURL(sample.url))
      [] sample.kind = "id" -> result[1] <=> sample.prefix = sample.checked
      [] OTHER -> TRUE

(* Texts, versions and amounts keep their meaning wherever they are        *)
(* converted, compared or laid out: in the server and in the client.       *)
ConversionsRight == TextsPreserved /\ ComparisonsRight
=============================================================================
