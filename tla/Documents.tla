----------------------------- MODULE Documents ------------------------------
(* A variable of a script that holds a document and what its statements do to *)
(* it: they compute with it, cut it, assign into it, convert it, and store it *)
(* in a binary file.                                                          *)
(*                                                                            *)
(* A statement that raises an error leaves the variable as it was, but for an *)
(* assignment to a nested index.                                              *)
EXTENDS BinaryFormat

CONSTANTS
  Operands,       \* values a statement combines the document with
  KeyNames,       \* keys of maps
  MaxPath         \* bound: keys of an index

ASSUME DocumentAssumption ==
  /\ MaxSize \in 0..IntMax /\ MaxPath \in 0..MaxKeys
  /\ \A v \in Operands : Plain(v)
  /\ \A k \in KeyNames : Sequence(k)

VARIABLE doc

IndexKeys == {Str(k) : k \in KeyNames} \union {Int_(1), Int_(2)}
SliceModes == 0..6
PathsUpTo(n) == UNION {[1..m -> IndexKeys] : m \in 1..n}

Operators == {"+", "-", "*", "/", "%", "==", "!=", "<", ">", "<=", ">=", "and", "or", "**"}
Types == {"int", "float", "bool", "string", "list", "map"}
Positions == 1..MaxSize + 1

\* The ranges a script can write: the parser refuses one that is inverted.
Written(mode, start, end) == mode = 1 => start <= end

Bounded(v) ==
  /\ Size(<<v>>) <= MaxSize
  /\ TypeOf(v) \in {"string", "list", "map"} => Len(v[2]) <= MaxSize
  /\ TypeOf(v) = "float" => Fits(v[2]) /\ Fits(v[3])

\* The value of an expression is assigned to the variable.
Gives(v) == v # Err /\ Bounded(v) /\ doc' = v

DocInit == doc \in {Int_(0), Str(<<>>), List(<<>>), MapOf(<<>>)}

\* d = d op v
Compute(op, v) ==
  /\ op = "**" => TypeOf(doc) = "int" /\ TypeOf(v) = "int"
  /\ Gives(BinOp(op, doc, v))

Bump(by) == Gives(Step(doc, by))

Negate == Gives(Not(doc))

\* d = d + v[i]
Insert(v, i) ==
  \/ TypeOf(doc) = "list" /\ Gives(InsertInList(doc[2], v, i))
  \/ TypeOf(doc) = "string" /\ Gives(InsertInString(doc[2], v, i))

\* d = d - [slice]
Cut(mode, start, end) ==
  \/ TypeOf(doc) = "list" /\ Gives(remove_slice(mode, start, end, doc[2]))
  \/ TypeOf(doc) = "string" /\ Gives(RemoveFromString(mode, start, end, doc[2]))

\* d = d[slice], d = d[[slice]]: one number is an index.
Take(mode, start, end) ==
  mode # 0 /\ TypeOf(doc) = "list" /\ Gives(eval_slice(mode, start, end, doc[2]))

\* d = $d[key]: without the $ it becomes a reference, which is left out.
Pick(key) == Gives(eval_index(doc, key))

\* d[k1][k2] = v, which keeps what it did before it failed.
AssignAt(path, v) ==
  LET after == assign_nested_index(doc, path, v).value IN Bounded(after) /\ doc' = after

\* type d = d
ConvertTo(type) == Gives(Convert(doc, type))

\* d = keys(d), d = values(d), d = delete(d, k), d = listLatest(d)
Keys_of == TypeOf(doc) = "map" /\ Gives(Keys_(doc[2]))
Values_of == TypeOf(doc) = "map" /\ Gives(ValuesOf(doc[2]))
Delete(k) == TypeOf(doc) = "map" /\ Gives(MapOf(val_map_delete(doc[2], k)))
Latest == TypeOf(doc) = "list" /\ doc[2] # <<>> /\ Gives(Last(doc[2]))

\* d = has(d, v) of a list or map, d = size(d)
IsIn(v) ==
  \/ TypeOf(doc) = "list" /\ Gives(Bool(\E i \in DOMAIN doc[2] : Equal(doc[2][i], v) /\ v # Null))
  \/ TypeOf(doc) = "map" /\ TypeOf(v) = "string" /\ Gives(Bool(Has(doc[2], v[2])))
Count == TypeOf(doc) \in {"list", "map"} /\ Gives(Int_(Len(doc[2])))

\* tobinfile(d, f) and d = frombinfile(f)
ReloadBinary ==
  LET bytes == serialize_value_binary(doc) IN bytes # Err /\ Gives(deserialize_binary(bytes))

DocNext ==
  \/ \E op \in Operators, v \in Operands : Compute(op, v)
  \/ \E by \in {-1, 1} : Bump(by)
  \/ Negate
  \/ \E v \in Operands, i \in {Int_(1), Int_(2), Float(2, 1), Float(1, 2)} : Insert(v, i)
  \/ \E mode \in SliceModes, start, end \in Positions :
       Written(mode, start, end) /\ (Cut(mode, start, end) \/ Take(mode, start, end))
  \/ \E key \in IndexKeys : Pick(key)
  \/ \E path \in PathsUpTo(MaxPath), v \in Operands : AssignAt(path, v)
  \/ \E type \in Types : ConvertTo(type)
  \/ Keys_of \/ Values_of \/ Latest \/ Count
  \/ \E k \in KeyNames : Delete(k)
  \/ \E v \in Operands : IsIn(v)
  \/ ReloadBinary

DocSpec == DocInit /\ [][DocNext]_doc

----------------------------------------------------------------------------
(* Properties.                                                                *)

\* x as an int, or no result.
IntOrErr(x) == IF x \in IntMin..IntMax THEN Int_(x) ELSE Err

\* What the operators give for the ints a and n.
ExactInts(a, n) ==
  LET result(op) == BinOp(op, Int_(a), Int_(n)) IN
  /\ result("+") = IntOrErr(a + n)
  /\ result("-") = IntOrErr(a - n)
  /\ result("*") = IntOrErr(a * n)
  /\ n >= 0 => result("**") = IntOrErr(Power(a, n))
  /\ n = 0 => result("/") = Err /\ result("%") = Err
  /\ result("%") # Err =>
       /\ \E q \in IntMin..IntMax : a = q * n + result("%")[2]
       /\ Abs(result("%")[2]) < Abs(n)
  /\ result("<") = Bool(a < n)

\* int operators (eval_binop.c) either give the exact result or refuse it, and
\* refuse it only when it does not fit or does not exist.
ArithmeticExact ==
  TypeOf(doc) = "int" => \A n \in IntMin..IntMax : ExactInts(doc[2], n)

\* What a range of s takes and what it removes.
RangesShare(s, mode, start, end) ==
  LET taken == eval_slice(mode, start, end, s)
      kept == remove_slice(mode, start, end, s)
  IN /\ (taken = Err) = (kept = Err)
     /\ kept # Err =>
          /\ \E lo \in 1..Len(s) + 1, hi \in 0..Len(s) :
               /\ taken[2] = SubSeq(s, lo, hi)
               /\ lo <= hi + 1
               /\ kept[2] = SubSeq(s, 1, lo - 1) \o SubSeq(s, hi + 1, Len(s))
          /\ RemoveFromString(mode, start, end, s)[2] = kept[2]

\* A slice and its removal (eval_slice.c, eval_binop.c) are refused together
\* and share the list between them in its order; a string loses the characters
\* a list of them would lose.
RangesAgree ==
  TypeOf(doc) \in {"list", "string"} =>
    \A mode \in SliceModes, start, end \in Positions :
      Written(mode, start, end) => RangesShare(doc[2], mode, start, end)

\* What the keys of a path lead to.
ReadPath(v, path) ==
  LET read[i \in 0..Len(path)] == IF i = 0 THEN v ELSE eval_index(read[i - 1], path[i])
  IN read[Len(path)]

Related(p, q) == IsPrefix(p, q) \/ IsPrefix(q, p)
Container(v) == TypeOf(v) \in {"list", "map"}

WellTyped(v) ==
  LET within[n \in 0..MaxSize] ==
        IF n = 0 THEN {v} ELSE UNION {Range(Parts(w)) : w \in within[n - 1]}
  IN \A n \in 0..MaxSize : \A w \in within[n] : KeysTyped(w)

\* The type of the key at the end of a path, "none" where there is none.
KeyType(v, path) ==
  LET at == ReadPath(v, Front(path)) IN
  IF TypeOf(at) = "map" /\ TypeOf(Last(path)) = "string"
    THEN IF Has(at[2], Last(path)[2]) THEN at[2][At(at[2], Last(path)[2])].vtype ELSE "none"
    ELSE "none"

\* A key of a map (val_map_set_typed) holds values of its type, and keeps it under
\* every assignment but one that replaces the map.
KeyTypesHold ==
  /\ WellTyped(doc)
  /\ Container(doc) =>
       \A path \in PathsUpTo(MaxPath), v \in Operands :
         LET after == assign_nested_index(doc, path, v).value IN
         \A q \in PathsUpTo(MaxPath) :
           \/ KeyType(doc, q) = "none" \/ IsPrefix(path, Front(q))
           \/ KeyType(after, q) = KeyType(doc, q)

\* An assignment by index (assign_nested_index) that succeeds can be read back
\* and changes nothing beside its path; one that fails loses no value, it may
\* only leave maps on its way; and keys keep their types in maps that stay.
AssignExact ==
  /\ KeyTypesHold
  /\ Container(doc) =>
       \A path \in PathsUpTo(MaxPath), v \in Operands :
         LET r == assign_nested_index(doc, path, v)
             same(q) == ReadPath(r.value, q) = ReadPath(doc, q)
         IN /\ r.ok => ReadPath(r.value, path) = v
            /\ \A q \in PathsUpTo(MaxPath) : Related(path, q) \/ same(q)
            /\ ~r.ok => \A q \in PathsUpTo(MaxPath) :
                 ReadPath(doc, q) # Err /\ ~Container(ReadPath(doc, q)) => same(q)

\* A document that can be written in binary (database.c) reads back exactly, and
\* a file of it that ends early, wherever it ends, is refused.
ReadsBack ==
  LET bytes == serialize_value_binary(doc) IN
  bytes # Err =>
    /\ deserialize_binary(bytes) = doc
    /\ \A n \in 0..Len(bytes) - 1 : deserialize_binary(SubSeq(bytes, 1, n)) = Err
=============================================================================
