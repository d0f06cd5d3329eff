---------------------------- MODULE MCReferences ----------------------------
(* Expressions and functions for References.                                  *)
EXTENDS References

MCIntMin == -8
K == <<"k">>
MCKeys == {Int_(1), Int_(2), Str(K)}
Item(x) == Index(Var(x), Lit(Int_(1)))
MCCode ==
  LET places == {Index(Var(x), Lit(k)) : x \in VarName, k \in MCKeys}
      atoms == {Lit(k) : k \in MCKeys} \cup {Var(x) : x \in VarName} \cup {Clone("a"), Lit(MapOf(<<Pair(K, Int_(1), "int")>>))}
  IN <<atoms, places \cup {Index(Clone("a"), Lit(Int_(1))), ListOf(<<Lit(Int_(1)), Lit(Int_(2))>>)},
       {ListOf(<<Item("a")>>)}>>
MCPaths == {<<Lit(Str(K))>>, <<Item("x")>>}
MCSignatures == {<<"x", "a">>}
MCArguments == {Var("x"), Item("a"), ListOf(<<Item("a")>>)}
MCExpressions ==
  {ListOf(<<Lit(Int_(1)), Lit(Int_(2))>>), Item("a"), ListOf(<<Item("a")>>),
   Index(Clone("a"), Lit(Int_(1))),
   Lit(MapOf(<<Pair(K, Int_(1), "int")>>)), Index(Var("a"), Lit(Str(K)))}
=============================================================================
