----------------------------- MODULE Containers -----------------------------
(* Maps and nested indices (core/value.c, assign_nested_index of              *)
(* evaluator/eval_stmt.c, eval_index.c): what m["a"][2] = v does to m, also   *)
(* when it fails on the way.                                                  *)
EXTENDS Values

CONSTANT
  MaxSize         \* bound: values held at once, one in the other included

\* The values that are directly in a value.
Parts(v) ==
  CASE TypeOf(v) = "list" -> v[2]
    [] TypeOf(v) = "map" -> [i \in DOMAIN v[2] |-> v[2][i].value]
    [] OTHER -> <<>>

\* The number of values in the values vs, or more than MaxSize if there are
\* more.
Size(vs) ==
  LET level[n \in 0..MaxSize] ==
        IF n = 0 THEN vs ELSE FlattenSeq([i \in DOMAIN level[n - 1] |-> Parts(level[n - 1][i])])
  IN FoldLeft(LAMBDA sum, n : sum + Len(level[n - 1]), 0, [n \in 1..MaxSize + 1 |-> n])

Pair(k, v, t) == [key |-> k, value |-> v, vtype |-> t]

\* valtype_to_tokentype: null and references have no type of their own.
TokenType(v) == IF TypeOf(v) \in {"null", "reference"} THEN "none" ELSE TypeOf(v)

Has(ps, k) == \E i \in DOMAIN ps : ps[i].key = k
At(ps, k) == CHOOSE i \in DOMAIN ps : ps[i].key = k

\* The type a key must have: the one it is declared with, else the one it has,
\* else that of the value.
Expected(known, t, v) ==
  CASE t # "none" -> t
    [] t = "none" /\ known # "none" -> known
    [] t = "none" /\ known = "none" -> TokenType(v)

val_map_set_typed(ps, k, v, t) ==
  LET known == IF Has(ps, k) THEN ps[At(ps, k)].vtype ELSE "none"
      expected == Expected(known, t, v)
  IN IF \/ t # "none" /\ known \notin {"none", t}
        \/ expected # "none" /\ TokenType(v) # expected
       THEN Err
       ELSE MapOf(IF Has(ps, k) THEN [ps EXCEPT ![At(ps, k)] = Pair(k, v, expected)]
                  ELSE Append(ps, Pair(k, v, expected)))

val_map_set(ps, k, v) == val_map_set_typed(ps, k, v, "none")

val_map_delete(ps, k) == IF Has(ps, k) THEN RemoveAt(ps, At(ps, k)) ELSE ps

\* keys() and values(): in the order of insertion.
Keys_(ps) == List([i \in DOMAIN ps |-> Str(ps[i].key)])
ValuesOf(ps) == List([i \in DOMAIN ps |-> ps[i].value])

----------------------------------------------------------------------------
(* Reading and assigning by index.                                            *)

utf8_char_at(s, pos) == IF pos \in DOMAIN s THEN Str(<<s[pos]>>) ELSE Err

\* eval_index: v[idx], of lists by whole numbers, of maps by strings.
eval_index(v, idx) ==
  CASE TypeOf(v) = "list" ->
         IF Position(idx) \in DOMAIN v[2] THEN v[2][Position(idx)] ELSE Err
    [] TypeOf(v) = "string" ->
         utf8_char_at(v[2], Position(idx))
    [] TypeOf(v) = "map" ->
         IF TypeOf(idx) = "string" /\ Has(v[2], idx[2])
           THEN v[2][At(v[2], idx[2])].value ELSE Err
    [] OTHER -> Err

Done(v) == [value |-> v, ok |-> TRUE]
Failed(v) == [value |-> v, ok |-> FALSE]

utf8_replace_char(s, pos, c) ==
  IF pos \in DOMAIN s THEN Done(Str(ReplaceAt(s, pos, c))) ELSE Failed(Str(s))

\* The last step of a path.
AssignLast(c, key, v) ==
  CASE TypeOf(c) = "map" /\ TypeOf(key) = "string" ->
         IF val_map_set(c[2], key[2], v) = Err THEN Failed(c)
         ELSE Done(val_map_set(c[2], key[2], v))
    [] TypeOf(c) = "list" /\ TypeOf(key) = "int" ->
         IF key[2] \in DOMAIN c[2] THEN Done(List(ReplaceAt(c[2], key[2], v))) ELSE Failed(c)
    [] TypeOf(c) = "string" /\ TypeOf(key) = "int" ->
         IF TypeOf(v) = "string" /\ Len(v[2]) = 1
           THEN utf8_replace_char(c[2], key[2], v[2][1]) ELSE Failed(c)
    [] OTHER -> Failed(c)

\* Mutant: the map a missing key gets replaces the one that was looked at.
Reach_fresh(c, key) == MapOf(<<Pair(key, MapOf(<<>>), "map")>>)

\* A key that is missing on the way gets an empty map, which stays if the
\* assignment fails further on.
Reach(c, key) ==
  IF Has(c[2], key) THEN c ELSE val_map_set(c[2], key, MapOf(<<>>))

\* On its way the loop enters maps by strings and lists by positions they have.
Enterable(c, key) ==
  \/ TypeOf(c) = "map" /\ TypeOf(key) = "string"
  \/ TypeOf(c) = "list" /\ TypeOf(key) = "int" /\ key[2] \in DOMAIN c[2]

Entered(c, key) ==
  IF TypeOf(c) = "map"
    THEN LET ps == Reach(c, key[2])[2] IN ps[At(ps, key[2])].value
    ELSE c[2][key[2]]

\* The container around it, with what the inner one became.
Around(c, key, inner) ==
  IF TypeOf(c) = "map"
    THEN LET ps == Reach(c, key[2])[2] IN MapOf([ps EXCEPT ![At(ps, key[2])].value = inner])
    ELSE List(ReplaceAt(c[2], key[2], inner))

\* The keys assign_nested_index has room for: it passes over those before the
\* last ones of a longer path, which is left out.
MaxKeys == 64

\* assign_nested_index: from container to container along the keys; what the
\* last one becomes is in all those around it.
assign_nested_index(c, path, v) ==
  LET container[i \in 1..Len(path)] ==
        IF i = 1 THEN c
        ELSE IF Enterable(container[i - 1], path[i - 1])
               THEN Entered(container[i - 1], path[i - 1]) ELSE Err
      after[i \in 1..Len(path)] ==
        IF i = Len(path) THEN AssignLast(container[i], path[i], v)
        ELSE IF ~Enterable(container[i], path[i]) THEN Failed(container[i])
        ELSE [value |-> Around(container[i], path[i], after[i + 1].value), ok |-> after[i + 1].ok]
  IN after[1]

----------------------------------------------------------------------------
(* What the constants of the models can be: values a script can write.        *)

Sequence(s) == s \in Seq(Range(s))

\* A map has each key once, with the type of its value.
KeysTyped(v) ==
  TypeOf(v) = "map" =>
    /\ \A i, j \in DOMAIN v[2] : v[2][i].key = v[2][j].key => i = j
    /\ \A i \in DOMAIN v[2] : v[2][i].vtype = TokenType(v[2][i].value)

Scalar(v) ==
  \/ v = Null
  \/ v \in {Bool(TRUE), Bool(FALSE)}
  \/ TypeOf(v) = "int" /\ v = Int_(v[2]) /\ v[2] \in IntMin..IntMax
  \/ /\ TypeOf(v) = "float" /\ v = <<"float", v[2], v[3]>>
     /\ v[2] \in IntMin..IntMax /\ v[3] \in 1..IntMax
  \/ TypeOf(v) = "string" /\ v = Str(v[2]) /\ Sequence(v[2])

Plain(v) ==
  \/ Scalar(v)
  \/ TypeOf(v) = "list" /\ v = List(v[2]) /\ Sequence(v[2]) /\ \A x \in Range(v[2]) : Scalar(x)
  \/ /\ TypeOf(v) = "map" /\ v = MapOf(v[2]) /\ Sequence(v[2]) /\ KeysTyped(v)
     /\ \A p \in Range(v[2]) :
          p = Pair(p.key, p.value, p.vtype) /\ Sequence(p.key) /\ Scalar(p.value)
=============================================================================
