----------------------------- MODULE References -----------------------------
(* Variables that refer into lists and maps (evaluator/helpers.c,             *)
(* eval_index.c, eval_call.c, runtime/scope.c).  l[1] is not the item but a   *)
(* reference to it: the name l and the position 1, looked up again whenever   *)
(* it is read or assigned, in the scopes of that moment.  $l[1] is a copy.    *)
(*                                                                            *)
(* The scopes are those of one script: what import and execute do to them is  *)
(* in Names.  A statement that raises an error is left out where it changes   *)
(* nothing, and so are the arguments of a call that fails half way.           *)
EXTENDS Containers

CONSTANTS
  VarName,        \* names of variables
  Globals,        \* bound: those a script declares global
  Code,           \* bound: expressions, a sequence of sets: those of each are
                  \* built from those of the sets before it
  Expressions,    \* bound: right sides of assignments, results
  Arguments,      \* bound: arguments of calls
  Keys,           \* bound: positions in lists and keys of maps
  Paths,          \* bound: sequences of the keys of an indexed assignment
  Signatures,     \* bound: parameters of functions
  MaxScopes       \* bound: scopes at once

VARIABLES
  scopes,         \* from super_global_scope to current_scope, entries newest first
  frames          \* calls and loops in progress: how many scopes are around
                  \* them, and where the result goes or what is still to come

vars == <<scopes, frames>>

Refused == <<>>   \* no scopes: an assignment raised an error

----------------------------------------------------------------------------
(* Scopes.                                                                    *)

Entry(x, v) == [name |-> x, value |-> v]
DeclaredIn(sc, i, x) == {j \in DOMAIN sc[i] : sc[i][j].name = x}
Found(sc, x) == \E i \in DOMAIN sc : DeclaredIn(sc, i, x) # {}

\* The innermost scope that declares x, and the newest declaration in it.
scope_find(sc, x) ==
  LET i == Max({k \in DOMAIN sc : DeclaredIn(sc, k, x) # {}})
  IN <<i, Min(DeclaredIn(sc, i, x))>>

ValueOf(sc, x) == LET at == scope_find(sc, x) IN sc[at[1]][at[2]].value
Put(sc, x, v) == LET at == scope_find(sc, x) IN [sc EXCEPT ![at[1]][at[2]].value = v]
scope_define(sc, i, x, v) == [sc EXCEPT ![i] = <<Entry(x, v)>> \o @]

----------------------------------------------------------------------------
(* References.                                                                *)

Reference(container, key) == <<"reference", container, key>>
IsReference(v) == TypeOf(v) = "reference"

\* Lists by numbers, maps by texts.
Holds(v, key) ==
  \/ TypeOf(v) = "list" /\ TypeOf(key) = "int" /\ key[2] \in DOMAIN v[2]
  \/ TypeOf(v) = "map" /\ TypeOf(key) = "string" /\ Has(v[2], key[2])

\* The item, once: what it is may be a reference again.
resolve_reference(sc, v) ==
  IF ~IsReference(v) THEN v
  ELSE IF Found(sc, v[2]) /\ Holds(ValueOf(sc, v[2]), v[3])
         THEN eval_index(ValueOf(sc, v[2]), v[3]) ELSE Err

\* Mutant: the position is taken to count from zero.
assign_reference_next(sc, ref, v) ==
  LET c == ValueOf(sc, ref[2]) IN
  IF ~Found(sc, ref[2]) \/ TypeOf(c) # "list" \/ ref[3][2] + 1 \notin DOMAIN c[2] THEN Refused
  ELSE Put(sc, ref[2], List(ReplaceAt(c[2], ref[3][2] + 1, v)))

\* A map takes a key it has lost again, a list no position it does not have.
assign_reference(sc, ref, v) ==
  IF ~Found(sc, ref[2]) THEN Refused
  ELSE LET after == AssignLast(ValueOf(sc, ref[2]), ref[3], v)
           kind == IF TypeOf(ref[3]) = "int" THEN "list" ELSE "map" IN
       IF TypeOf(ValueOf(sc, ref[2])) = kind /\ after.ok THEN Put(sc, ref[2], after.value)
       ELSE Refused

\* Mutant: the variable that holds a reference is assigned, not the item.
scope_assign_over(sc, x, v) == Put(sc, x, v)

\* A variable that holds a reference keeps it: the item it refers to is
\* assigned.
scope_assign(sc, x, v) ==
  IF IsReference(ValueOf(sc, x)) THEN assign_reference(sc, ValueOf(sc, x), v)
  ELSE Put(sc, x, v)

----------------------------------------------------------------------------
(* Expressions.                                                               *)

Lit(v) == [kind |-> "literal", value |-> v]
Var(x) == [kind |-> "var", name |-> x, clone |-> FALSE]
Clone(x) == [kind |-> "var", name |-> x, clone |-> TRUE]
Index(e, key) == [kind |-> "index", base |-> e, index |-> key]
ListOf(es) == [kind |-> "list", items |-> es]
Plus(l, r) == [kind |-> "plus", left |-> l, right |-> r]

eval_var(sc, x) == IF Found(sc, x) THEN resolve_reference(sc, ValueOf(sc, x)) ELSE Err

\* Of a variable without $ the place, of anything else the item.
Indexed(e, base, key) ==
  CASE Holds(base, key) /\ e.kind = "var" /\ ~e.clone -> Reference(e.name, key)
    [] Holds(base, key) /\ ~(e.kind = "var" /\ ~e.clone) -> eval_index(base, key)
    [] TypeOf(base) = "string" /\ TypeOf(key) = "int" -> eval_index(base, key)
    [] OTHER -> Err

\* eval_expr of e, where value has the values of the expressions in it.
Evaluated(sc, value, e) ==
  LET Resolved(x) == resolve_reference(sc, value[x]) IN
  CASE e.kind = "literal" -> e.value
    [] e.kind = "var" -> eval_var(sc, e.name)
    [] e.kind = "index" -> Indexed(e.base, Resolved(e.base), value[e.index])
    [] e.kind = "list" ->
         LET items == [i \in DOMAIN e.items |-> value[e.items[i]]]
         IN IF Err \in Range(items) THEN Err ELSE List(items)
    [] e.kind = "plus" ->
         IF Err \in {Resolved(e.left), Resolved(e.right)} THEN Err
         ELSE BinOp("+", Resolved(e.left), Resolved(e.right))

Inside(e) ==
  CASE e.kind = "index" -> {e.base, e.index}
    [] e.kind = "list" -> Range(e.items)
    [] e.kind = "plus" -> {e.left, e.right}
    [] OTHER -> {}

CodeUpTo(n) == UNION {Code[m] : m \in 1..n}
AllCode == CodeUpTo(Len(Code))

WellFormed(e) ==
  \/ e.kind = "literal" /\ Plain(e.value)
  \/ e.kind = "var"
  \/ e.kind = "index"
  \/ e.kind = "list" /\ Sequence(e.items)
  \/ e.kind = "plus"

ASSUME CodeAssumption ==
  /\ \A n \in DOMAIN Code : \A e \in Code[n] : WellFormed(e) /\ Inside(e) \subseteq CodeUpTo(n - 1)
  /\ Sequence(Code)
  /\ Expressions \cup Arguments \subseteq AllCode
  /\ \A path \in Paths :
       Sequence(path) /\ Len(path) \in 1..MaxKeys /\ Range(path) \subseteq AllCode
  /\ \A params \in Signatures : Sequence(params) /\ Range(params) \subseteq VarName
  /\ \A key \in Keys : TypeOf(key) \in {"int", "string"} /\ Scalar(key)

Eval(sc, e) ==
  LET value[x \in AllCode] == Evaluated(sc, value, x) IN value[e]

----------------------------------------------------------------------------
(* Statements.                                                                *)

super_global_scope == 1
global_scope == 2
current_scope(sc) == Len(sc)

\* x = e
Assigned(sc, x, v) ==
  CASE v = Err -> Refused
    [] v # Err /\ Found(sc, x) -> scope_assign(sc, x, v)
    [] v # Err /\ ~Found(sc, x) -> scope_define(sc, global_scope, x, v)

\* type x = e: the type converts the value and is forgotten.
Typed(v, type) ==
  IF v = Err THEN Err ELSE IF TokenType(v) = type THEN v ELSE Convert(v, type)

Empty == [type \in {"list", "map"} |-> IF type = "list" THEN List(<<>>) ELSE MapOf(<<>>)]

\* type x[k1][k2] = e.  A name that is not declared becomes an empty container,
\* and stays one if e or a key fails.  A variable that holds a reference is no
\* container.
IndexAssigned(sc, x, type, path, e) ==
  LET at == IF ~Found(sc, x) /\ type \in DOMAIN Empty
              THEN scope_define(sc, global_scope, x, Empty[type]) ELSE sc
      v == Eval(at, e)
      keys == [i \in DOMAIN path |-> resolve_reference(at, Eval(at, path[i]))]
      after == IF ~Found(at, x) \/ Err \in Range(keys) \cup {v} THEN at
               ELSE Put(at, x, assign_nested_index(ValueOf(at, x), keys, v).value)
  IN IF after = sc THEN Refused ELSE after

\* Mutant: the arguments are evaluated from the last one on.
Bound_backwards(sc, params, args) ==
  FoldRight(LAMBDA i, s :
      LET v == Eval(s, args[i]) IN
      IF s = Refused \/ v = Err THEN Refused ELSE scope_define(s, Len(s), params[i], v),
    [i \in DOMAIN params |-> i], Append(sc, <<>>))

\* A call: each argument is evaluated in the scope of the function, where the
\* parameters before it are already declared.
Bound(sc, params, args) ==
  LET bound[i \in 0..Len(params)] ==
        IF i = 0 THEN Append(sc, <<>>)
        ELSE LET s == bound[i - 1]
                 v == Eval(s, args[i])
             IN IF s = Refused \/ v = Err THEN Refused ELSE scope_define(s, Len(s), params[i], v)
  IN bound[Len(params)]

Becomes(sc) ==
  /\ sc # Refused
  /\ LET entries == FlattenSeq(sc) IN Size([i \in DOMAIN entries |-> entries[i].value]) <= MaxSize
  /\ Len(sc) <= MaxScopes
  /\ scopes' = sc

Init == scopes = <<<<>>, <<>>>> /\ frames = <<>>

Assign(x, e) == Becomes(Assigned(scopes, x, Eval(scopes, e))) /\ UNCHANGED frames

Declare(x, type, e) == Becomes(Assigned(scopes, x, Typed(Eval(scopes, e), type))) /\ UNCHANGED frames

Local(x, e) ==
  LET v == Eval(scopes, e) IN
  v # Err /\ Becomes(scope_define(scopes, current_scope(scopes), x, v)) /\ UNCHANGED frames

Global(x, e) ==
  LET v == Eval(scopes, e) IN
  v # Err /\ Becomes(scope_define(scopes, super_global_scope, x, v)) /\ UNCHANGED frames

\* The type is of no account when x is declared.
AssignIndex(x, type, path, e) ==
  /\ type = "none" \/ ~Found(scopes, x)
  /\ Becomes(IndexAssigned(scopes, x, type, path, e))
  /\ UNCHANGED frames

\* delvar("x")
delvar(x) ==
  /\ Found(scopes, x)
  /\ LET at == scope_find(scopes, x) IN Becomes([scopes EXCEPT ![at[1]] = RemoveAt(@, at[2])])
  /\ UNCHANGED frames

\* x = f(args)
Call(x, params, args) ==
  /\ Becomes(Bound(scopes, params, args))
  /\ frames' = Append(frames, [kind |-> "call", outer |-> Len(scopes), var |-> x])

Outer(fs) == SubSeq(scopes, 1, Last(fs).outer)

\* return e, from inside the loops of the function too.
Return(e) ==
  LET calls == {i \in DOMAIN frames : frames[i].kind = "call"}
      v == Eval(scopes, e) IN
  /\ calls # {} /\ v # Err
  /\ LET fs == SubSeq(frames, 1, Max(calls)) IN
       /\ Becomes(Assigned(Outer(fs), Last(fs).var, v))
       /\ frames' = Front(fs)

Items(v) == CASE TypeOf(v) = "list" -> v[2]
              [] TypeOf(v) = "map" -> Keys_(v[2])[2]
              [] OTHER -> <<>>

\* The next item of a loop: a copy, or a reference if the list holds one.
Iterate(sc, fs, x, items) ==
  IF items = <<>> THEN Becomes(sc) /\ frames' = fs
  ELSE /\ Becomes(Append(sc, <<Entry(x, Head(items))>>))
       /\ frames' = Append(fs, [kind |-> "forin", outer |-> Len(sc), var |-> x, items |-> Tail(items)])

\* for x in e, over the items it has at the start.
ForIn(x, e) ==
  LET v == Eval(scopes, e) IN
  TypeOf(v) \in {"list", "map"} /\ Iterate(scopes, frames, x, Items(v))

NextItem ==
  /\ frames # <<>> /\ Last(frames).kind = "forin"
  /\ Iterate(Outer(frames), Front(frames), Last(frames).var, Last(frames).items)

Break ==
  /\ frames # <<>> /\ Last(frames).kind = "forin"
  /\ Becomes(Outer(frames)) /\ frames' = Front(frames)

Next ==
  \/ \E x \in VarName, e \in Expressions :
       Assign(x, e) \/ Local(x, e) \/ ForIn(x, e)
  \/ \E x \in Globals, e \in Expressions : Global(x, e)
  \/ \E x \in VarName, type \in {"list"}, e \in Expressions : Declare(x, type, e)
  \/ \E x \in VarName, type \in {"none", "map"}, path \in Paths, e \in Expressions :
       AssignIndex(x, type, path, e)
  \/ \E x \in VarName : delvar(x)
  \/ \E x \in VarName, params \in Signatures :
       \E args \in [DOMAIN params -> Arguments] : Call(x, params, args)
  \/ \E e \in Expressions : Return(e)
  \/ NextItem
  \/ Break

Spec == Init /\ [][Next]_vars

----------------------------------------------------------------------------
(* Properties.  Each is about every statement that could come next.           *)

\* What the variable x is for a script that reads it.
Reads(sc, x) == IF Found(sc, x) THEN <<eval_var(sc, x)>> ELSE <<>>

RefersTo(sc, x) ==
  IF Found(sc, x) /\ IsReference(ValueOf(sc, x)) THEN {ValueOf(sc, x)[2]} ELSE {}

\* What x = e gives to x (scope_assign, assign_reference) is what e is read as,
\* unless x is the container e refers into, or both refer to something.
AssignmentReads ==
  \A x \in VarName, e \in Expressions :
    LET v == Eval(scopes, e)
        after == Assigned(scopes, x, v)
    IN /\ after # Refused
       /\ IsReference(v) => v[2] # x /\ RefersTo(scopes, x) = {}
       => Reads(after, x) = <<resolve_reference(scopes, v)>>

\* x = e changes one place: the declaration that x means, or if that holds a
\* reference, the item it refers to and no other of that list or map.  What they
\* hide, and every other variable, keeps its value.
OnePlace ==
  \A x \in VarName, e \in Expressions :
    LET after == Assigned(scopes, x, Eval(scopes, e))
        old == ValueOf(scopes, x)
        place == IF IsReference(old) THEN scope_find(scopes, old[2]) ELSE scope_find(scopes, x)
    IN Found(scopes, x) /\ after # Refused =>
         \A i \in DOMAIN scopes : \A j \in DOMAIN scopes[i] :
           LET was == scopes[i][j].value
               is == after[i][j].value
           IN /\ <<i, j>> # place => is = was
              /\ <<i, j>> = place /\ IsReference(old) =>
                   \A key \in Keys : key # old[3] =>
                     /\ Holds(is, key) = Holds(was, key)
                     /\ Holds(was, key) => eval_index(is, key) = eval_index(was, key)

\* The variables an expression looks up: those in it, and those that a reference
\* on the way refers into.
LooksUp(sc, e) ==
  LET own(x) == (IF x.kind = "var" THEN {x.name} \cup RefersTo(sc, x.name) ELSE {})
                  \cup (IF IsReference(Eval(sc, x)) THEN {Eval(sc, x)[2]} ELSE {})
      names[x \in AllCode] == own(x) \cup UNION {names[y] : y \in Inside(x)}
  IN names[e]

\* In the body of a function (eval_call) a parameter is read as its argument
\* was by the caller, unless that looks up a parameter before it or is a
\* reference into a variable with the name of a parameter.
ParametersRead ==
  \A params \in Signatures : \A args \in [DOMAIN params -> Arguments] :
    LET inside == Bound(scopes, params, args) IN
    inside # Refused =>
      \A i \in DOMAIN params :
        LET v == Eval(scopes, args[i])
            before == {params[j] : j \in 1..i - 1}
        IN /\ \A j \in DOMAIN params : params[j] = params[i] => j = i
           /\ LooksUp(scopes, args[i]) \cap before = {}
           /\ IsReference(v) => v[2] \notin Range(params)
           => Reads(inside, params[i]) = <<resolve_reference(scopes, v)>>

\* What the message of eval_index says of l[1]: it gives the item at position 1.
\* Reading one into another variable leaves l as it is.
IndexGivesItem ==
  \A x, l \in VarName, key \in Keys :
    LET after == Assigned(scopes, x, Eval(scopes, Index(Var(l), Lit(key)))) IN
    x # l /\ after # Refused /\ RefersTo(scopes, l) = {} => Reads(after, l) = Reads(scopes, l)
=============================================================================
