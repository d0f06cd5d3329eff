---------------------------- MODULE BinaryFormat ----------------------------
(* The binary format of the file database (stdlib/database.c): what           *)
(* tobinfile writes and what frombinfile makes of it.                         *)
(*                                                                            *)
(* A file is a sequence of symbols: a header, then a tag for each value,      *)
(* numbers and lengths, each one symbol, and characters.  Sizes (256 MB,      *)
(* 1000000 items) are left out; the limit of the nesting is kept.             *)
EXTENDS Containers

CONSTANT
  MaxDepth        \* DB_MAX_DEPTH

ASSUME DepthAssumption == MaxDepth \in Nat

Header == <<<<"magic", "INDB">>, <<"version", 1>>>>
Tag(c) == <<"tag", c>>
Byte(n) == <<"byte", n>>
U32(n) == <<"u32", n>>
U64(n) == <<"u64", n>>
Char(c) == <<"char", c>>
Chars(s) == [i \in DOMAIN s |-> Char(s[i])]

----------------------------------------------------------------------------
(* Writing.                                                                   *)

\* The pieces, one after the other, behind head.
Behind(head, pieces) ==
  LET text[i \in 0..Len(pieces)] == IF i = 0 THEN head ELSE text[i - 1] \o pieces[i]
  IN text[Len(pieces)]

\* The length of a text and its characters.
Counted(s) == <<U64(Len(s))>> \o Chars(s)

\* A value, where written has what is written of the values in it.
Symbols(v, written) ==
  CASE TypeOf(v) = "int" -> <<Tag("I"), U32(v[2])>>
    [] TypeOf(v) = "float" -> <<Tag("F"), <<"double", v[2], v[3]>>>>
    [] TypeOf(v) = "bool" -> <<Tag("B"), Byte(IF v[2] THEN 1 ELSE 0)>>
    [] TypeOf(v) = "string" -> <<Tag("S")>> \o Counted(v[2])
    [] TypeOf(v) = "list" ->
         Behind(<<Tag("L"), U32(Len(v[2]))>>, [i \in DOMAIN v[2] |-> written[v[2][i]]])
    [] TypeOf(v) = "map" ->
         Behind(<<Tag("M"), U32(Len(v[2]))>>,
                [i \in DOMAIN v[2] |-> Counted(v[2][i].key) \o written[v[2][i].value]])
    [] TypeOf(v) = "null" -> <<Tag("N")>>

\* level[n] has the values n levels inside v, written[h] what is written of
\* those with room for h levels more.
serialize_value_binary(v) ==
  LET level[n \in 0..MaxDepth + 1] ==
        IF n = 0 THEN {v} ELSE UNION {Range(Parts(w)) : w \in level[n - 1]}
      written[h \in 0..MaxDepth] ==
        [w \in level[MaxDepth - h] |-> Symbols(w, IF h = 0 THEN <<>> ELSE written[h - 1])]
  IN IF \/ level[MaxDepth + 1] # {}
        \/ \E n \in 0..MaxDepth : \E w \in level[n] : TypeOf(w) = "reference"
       THEN Err ELSE Header \o written[MaxDepth][v]

----------------------------------------------------------------------------
(* Reading.  A reader returns the value and the position behind it.           *)

Got(v, pos) == [ok |-> TRUE, value |-> v, pos |-> pos]
NotRead == [ok |-> FALSE, value |-> Err, pos |-> 0]

\* Mutant: a string may end with the file.
Remaining_ignored(b, p, n) == TRUE

\* Whether n symbols are left from p on.
Remaining(b, p, n) == p + n - 1 <= Len(b)

\* The n characters from p on; what is behind the end has none.
Text_(b, p, n) == [i \in 1..Lesser(n, Len(b) - p + 1) |-> b[p + i - 1][2]]

\* One more item, where read has the value at each position.
WithItem(list, read) ==
  IF ~list.ok THEN NotRead
  ELSE LET item == read[list.pos] IN
       IF item.ok THEN Got(Append(list.value, item.value), item.pos) ELSE NotRead

WithPair(b, map, read) ==
  IF ~map.ok \/ map.pos > Len(b) THEN NotRead
  ELSE IF ~Remaining(b, map.pos + 1, b[map.pos][2]) THEN NotRead
  ELSE LET key == Text_(b, map.pos + 1, b[map.pos][2])
           item == read[map.pos + 1 + Len(key)]
           set == val_map_set(map.value, key, item.value)
       IN IF ~item.ok \/ set = Err THEN NotRead ELSE Got(set[2], item.pos)

ReadItems(b, p, n, read) ==
  LET list[i \in 0..n] == IF i = 0 THEN Got(<<>>, p) ELSE WithItem(list[i - 1], read)
  IN IF list[n].ok THEN Got(List(list[n].value), list[n].pos) ELSE NotRead

ReadPairs(b, p, n, read) ==
  LET map[i \in 0..n] == IF i = 0 THEN Got(<<>>, p) ELSE WithPair(b, map[i - 1], read)
  IN IF map[n].ok THEN Got(MapOf(map[n].value), map[n].pos) ELSE NotRead

ReadString(b, p, n) ==
  IF Remaining(b, p, n) THEN Got(Str(Text_(b, p, n)), p + Len(Text_(b, p, n))) ELSE NotRead

\* The value at p, where read has those in it.
ReadValue(b, p, read) ==
  CASE p > Len(b) -> NotRead
    [] p <= Len(b) /\ b[p] = Tag("N") -> Got(Null, p + 1)
    [] p = Len(b) /\ b[p] # Tag("N") -> NotRead
    [] p < Len(b) /\ b[p] # Tag("N") ->
         LET x == b[p + 1] IN
         CASE b[p] = Tag("I") -> Got(Int_(x[2]), p + 2)
           [] b[p] = Tag("F") -> Got(<<"float", x[2], x[3]>>, p + 2)
           [] b[p] = Tag("B") -> Got(Bool(x[2] # 0), p + 2)
           [] b[p] = Tag("S") -> ReadString(b, p + 2, x[2])
           [] b[p] = Tag("L") -> ReadItems(b, p + 2, x[2], read)
           [] b[p] = Tag("M") -> ReadPairs(b, p + 2, x[2], read)

\* read[h] has the value at each position, with room for h levels in it.
deserialize_value_binary(b) ==
  LET none == [p \in 1..Len(b) + 1 |-> NotRead]
      read[h \in 0..MaxDepth] ==
        [p \in 1..Len(b) + 1 |-> ReadValue(b, p, IF h = 0 THEN none ELSE read[h - 1])]
  IN read[MaxDepth][3]

\* frombinfile: the header, one value and nothing behind it.
deserialize_binary(b) ==
  IF Len(b) < 2 THEN Err
  ELSE IF SubSeq(b, 1, 2) # Header THEN Err
  ELSE LET read == deserialize_value_binary(b) IN
       IF read.ok /\ read.pos = Len(b) + 1 THEN read.value ELSE Err
=============================================================================
