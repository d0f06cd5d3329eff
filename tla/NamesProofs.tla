---------------------------- MODULE NamesProofs ----------------------------
(***************************************************************************)
(* Proofs about Names: type correctness, that constants are written once,  *)
(* and that no name is both a constant and a variable until a program      *)
(* enters an import or a global for loop or a native module creates a      *)
(* constant.                                                               *)
(***************************************************************************)
EXTENDS MCNames, TLAPS

Saved == [kind : Contexts, chain : Seq(Scope) \ {<<>>}, allowed : BOOLEAN]
VarTable == [Scope -> [Name -> Seq(Value)]]

LEMMA SavedType == TypeOK => saved \in Seq(Saved)
BY DEF TypeOK, Saved

(* Cutting a sequence, and reading it.                                      *)
LEMMA Cut ==
  ASSUME NEW S, NEW q \in Seq(S), NEW m \in 0..Len(q)
  PROVE  /\ SubSeq(q, 1, m) \in Seq(S) /\ Len(SubSeq(q, 1, m)) = m
         /\ \A i \in 1..m : SubSeq(q, 1, m)[i] = q[i]
OBVIOUS

(* A context is saved: the stack of them stays well-typed.                  *)
LEMMA SaveKeeps ==
  ASSUME TypeOK, NEW kind, Save(kind)
  PROVE  saved' \in Seq(Saved)
<1>1. Context(kind) \in Saved
  BY DEF TypeOK, Save, Context, Saved
<1> QED  BY <1>1 DEF TypeOK, Save, Saved

(* A new scope in front of a chain gives a chain.                           *)
LEMMA Extended ==
  ASSUME NEW c \in Seq(Scope) \ {<<>>}, NEW s \in Scope
  PROVE  /\ <<s>> \o c \in Seq(Scope) \ {<<>>}
         /\ Range(<<s>> \o c) = {s} \cup Range(c)
<1>1. <<s>> \o c \in Seq(Scope) /\ Len(<<s>> \o c) = Len(c) + 1
  OBVIOUS
<1>2. \A i \in 1..Len(c) + 1 :
        (<<s>> \o c)[i] = IF i = 1 THEN s ELSE c[i - 1]
  OBVIOUS
<1>3. DOMAIN (<<s>> \o c) = 1..Len(c) + 1 /\ DOMAIN c = 1..Len(c)
  BY <1>1
<1>4. \A i \in 1..Len(c) : i + 1 \in 1..Len(c) + 1 /\ (<<s>> \o c)[i + 1] = c[i]
  BY <1>2
<1>5. Range(<<s>> \o c) \subseteq {s} \cup Range(c)
  BY <1>2, <1>3 DEF Range
<1>6. s \in Range(<<s>> \o c)
  BY <1>2, <1>3 DEF Range
<1>7. Range(c) \subseteq Range(<<s>> \o c)
  BY <1>3, <1>4 DEF Range
<1> QED  BY <1>1, <1>5, <1>6, <1>7

(* Every way of writing one entry keeps the table well-typed.               *)
LEMMA EntryWritten ==
  ASSUME TypeOK, NEW s \in Scope, NEW n \in Name, NEW q \in Seq(Value),
         vars' = [vars EXCEPT ![s][n] = q]
  PROVE  vars' \in VarTable
BY DEF TypeOK, VarTable

LEMMA DefineKeeps ==
  ASSUME TypeOK, NEW s \in Scope, NEW n \in Name, NEW e \in Value,
         scope_define(s, n, e)
  PROVE  vars' \in VarTable
<1>1. <<e>> \o vars[s][n] \in Seq(Value)
  BY DEF TypeOK
<1>2. vars' = [vars EXCEPT ![s][n] = <<e>> \o vars[s][n]]
  BY DEF scope_define, TypeOK
<1> QED  BY <1>1, <1>2, EntryWritten

LEMMA OverwriteKeeps ==
  ASSUME TypeOK, NEW s \in Scope, NEW n \in Name, NEW e \in Value,
         vars[s][n] # <<>>, Overwrite(s, n, e)
  PROVE  vars' \in VarTable
<1>1. <<e>> \o Tail(vars[s][n]) \in Seq(Value)
  BY DEF TypeOK
<1>2. vars' = [vars EXCEPT ![s][n] = <<e>> \o Tail(vars[s][n])]
  BY DEF Overwrite, TypeOK
<1> QED  BY <1>1, <1>2, EntryWritten

LEMMA ForgetKeeps ==
  ASSUME TypeOK, NEW c, NEW stack, Forget(c, stack)
  PROVE  vars' \in VarTable
BY DEF TypeOK, Forget, VarTable

(* The scopes a chain or the lookup order names are scopes, and the owner   *)
(* of a name has an entry of it.                                            *)
LEMMA OwnerHas ==
  ASSUME TypeOK, NEW s, NEW n, IsOwner(s, n)
  PROVE  vars[s][n] # <<>>
BY DEF IsOwner, Owners

-----------------------------------------------------------------------------
(* What Quiet and Entered say, variable by variable, with the table typed.  *)
LEMMA QuietKeeps ==
  ASSUME TypeOK, Quiet, vars' \in VarTable
  PROVE  TypeOK'
BY DEF TypeOK, Quiet, VarTable

LEMMA EnteredKeeps ==
  ASSUME TypeOK, Entered, vars' \in VarTable, saved' \in Seq(Saved),
         chain' \in Seq(Scope) \ {<<>>}
  PROVE  TypeOK'
BY DEF TypeOK, Entered, VarTable, Saved

(* Variables: every statement leaves the tables well-typed.                 *)
LEMMA VariablesType ==
  ASSUME TypeOK, NEW n \in Name, NEW v \in Value
  PROVE  /\ Assign(n, v) => TypeOK'
         /\ Declare(n, v) => TypeOK'
         /\ mkvar(n, v) => TypeOK'
<1>s. /\ current_scope \in Scope /\ global_scope \in Scope
      /\ super_global_scope \in Scope
  BY DEF TypeOK, current_scope, Scope
<1>1. ASSUME Assign(n, v) PROVE TypeOK'
  <2>1. CASE ~IsVariable(n) /\ scope_define(global_scope, n, v)
    BY <1>1, <1>s, <2>1, DefineKeeps, QuietKeeps DEF Assign
  <2>2. ASSUME NEW s \in Scope, IsOwner(s, n), Overwrite(s, n, v)
        PROVE  TypeOK'
    BY <1>1, <2>2, OwnerHas, OverwriteKeeps, QuietKeeps DEF Assign
  <2> QED  BY <1>1, <2>1, <2>2 DEF Assign
<1>2. ASSUME Declare(n, v) PROVE TypeOK'
  BY <1>2, <1>s, DefineKeeps, QuietKeeps DEF Declare
<1>3. ASSUME mkvar(n, v) PROVE TypeOK'
  BY <1>3, <1>s, DefineKeeps, OverwriteKeeps, QuietKeeps DEF mkvar
<1> QED  BY <1>1, <1>2, <1>3

LEMMA DeletionType ==
  ASSUME TypeOK, NEW n \in Name, delvar(n)
  PROVE  TypeOK'
<1>1. PICK s \in Scope :
        IsOwner(s, n) /\ vars' = [vars EXCEPT ![s][n] = Tail(@)]
  BY DEF delvar
<1>2. vars[s][n] # <<>>
  BY <1>1, OwnerHas
<1>3. Tail(vars[s][n]) \in Seq(Value)
  BY <1>2 DEF TypeOK
<1>4. vars' = [vars EXCEPT ![s][n] = Tail(vars[s][n])]
  BY <1>1 DEF TypeOK
<1> QED  BY <1>3, <1>4, EntryWritten, QuietKeeps DEF delvar

LEMMA ConstantsType ==
  ASSUME TypeOK, NEW n \in Name
  PROVE  /\ constants_make_mutable(n) => TypeOK'
         /\ \A v \in Value : constants_define(n, v) => TypeOK'
<1>1. ASSUME constants_make_mutable(n) PROVE TypeOK'
  <2>1. constants' \in [Name -> Constant]
    BY <1>1 DEF TypeOK, constants_make_mutable, Constant
  <2>2. setting' \in [Name -> Value \cup {<<>>}]
    BY <1>1 DEF TypeOK, constants_make_mutable
  <2>3. \A m \in Name : constants'[m].has_value => setting'[m] \in Value
    BY <1>1 DEF TypeOK, constants_make_mutable, Constant
  <2> QED  BY <1>1, <2>1, <2>2, <2>3 DEF TypeOK, constants_make_mutable
<1>2. ASSUME NEW v \in Value, constants_define(n, v) PROVE TypeOK'
  <2>1. constants' \in [Name -> Constant]
    <3>1. CASE redefine_internal(n, v)
      BY <3>1 DEF TypeOK, redefine_internal, Constant
    <3>2. CASE give_value(n, v)
      BY <3>2 DEF TypeOK, give_value, Constant
    <3>3. CASE new_constant(n, v)
      BY <3>3 DEF TypeOK, new_constant, Constant
    <3> QED  BY <1>2, <3>1, <3>2, <3>3 DEF constants_define
  <2>2. setting' \in [Name -> Value \cup {<<>>}]
    BY <1>2 DEF TypeOK, constants_define, redefine_internal, give_value,
                new_constant
  <2>3. \A m \in Name : constants'[m].has_value => setting'[m] \in Value
    <3>1. CASE redefine_internal(n, v)
      BY <3>1 DEF TypeOK, redefine_internal, Constant
    <3>2. CASE give_value(n, v)
      BY <3>2 DEF TypeOK, give_value, Constant
    <3>3. CASE new_constant(n, v)
      BY <3>3 DEF TypeOK, new_constant, Constant
    <3> QED  BY <1>2, <3>1, <3>2, <3>3 DEF constants_define
  <2> QED  BY <1>2, <2>1, <2>2, <2>3 DEF TypeOK, constants_define
<1> QED  BY <1>1, <1>2

LEMMA EntriesType ==
  ASSUME TypeOK, Entries \/ StartRun
  PROVE  TypeOK'
<1>f. Free \subseteq Scope
  BY DEF Free, Scope
<1>v. vars \in VarTable
  BY DEF TypeOK, VarTable
<1>g. /\ global_scope \in Scope /\ super_global_scope \in Scope
  BY DEF Scope
<1>1. ASSUME NEW n \in Name, NEW v \in Value, EnterFunction(n, v)
      PROVE  TypeOK'
  <2>1. saved' \in Seq(Saved)
    BY <1>1, SaveKeeps DEF EnterFunction
  <2>2. PICK s \in Free : /\ chain' = <<s>> \o chain
                          /\ scope_define(s, n, v) \/ UNCHANGED vars
    BY <1>1 DEF EnterFunction
  <2>3. chain' \in Seq(Scope) \ {<<>>}
    BY <1>f, <2>2, Extended DEF TypeOK
  <2>4. vars' \in VarTable
    BY <1>f, <1>v, <2>2, DefineKeeps
  <2> QED  BY <1>1, <2>1, <2>3, <2>4, EnteredKeeps DEF EnterFunction
<1>2. ASSUME NEW n \in Name, NEW v \in Value, EnterForIn(n, v)
      PROVE  TypeOK'
  <2>1. saved' \in Seq(Saved)
    BY <1>2, SaveKeeps DEF EnterForIn
  <2>2. PICK s \in Free : /\ chain' = <<s>> \o chain
                          /\ scope_define(s, n, v)
    BY <1>2 DEF EnterForIn
  <2>3. chain' \in Seq(Scope) \ {<<>>}
    BY <1>f, <2>2, Extended DEF TypeOK
  <2>4. vars' \in VarTable
    BY <1>f, <2>2, DefineKeeps
  <2> QED  BY <1>2, <2>1, <2>3, <2>4, EnteredKeeps DEF EnterForIn
<1>3. ASSUME EnterImport PROVE TypeOK'
  <2>1. chain' \in Seq(Scope) \ {<<>>}
    BY <1>3, <1>g DEF EnterImport
  <2> QED  BY <1>3, <1>v, <2>1, SaveKeeps, EnteredKeeps DEF EnterImport
<1>4. ASSUME NEW n \in Name, NEW v \in Value, EnterForGlobal(n, v)
      PROVE  TypeOK'
  <2>1. saved' \in Seq(Saved)
    BY <1>4, SaveKeeps DEF EnterForGlobal
  <2>2. chain' \in Seq(Scope) \ {<<>>}
    BY <1>4, <1>f, <1>g DEF EnterForGlobal
  <2>3. vars' \in VarTable
    BY <1>4, <1>g, DefineKeeps, OverwriteKeeps DEF EnterForGlobal
  <2> QED  BY <1>4, <2>1, <2>2, <2>3, EnteredKeeps DEF EnterForGlobal
<1>5. ASSUME EnterExecute PROVE TypeOK'
  BY <1>5, SaveKeeps DEF EnterExecute, TypeOK, Saved
<1>6. ASSUME EnterTry PROVE TypeOK'
  BY <1>6, <1>v, SaveKeeps, EnteredKeeps DEF EnterTry, TypeOK
<1>7. ASSUME StartRun PROVE TypeOK'
  <2>1. chain' \in Seq(Scope) \ {<<>>}
    BY <1>7, <1>f, Extended DEF StartRun, TypeOK
  <2> QED  BY <1>7, <2>1 DEF StartRun, TypeOK
<1> QED  BY <1>1, <1>2, <1>3, <1>4, <1>5, <1>6, <1>7 DEF Entries

LEMMA CaughtType ==
  ASSUME TypeOK, NEW c \in Seq(Scope) \ {<<>>}, Caught(c)
  PROVE  TypeOK'
<1>1. PICK k \in DOMAIN saved :
        /\ saved' = SubSeq(saved, 1, k - 1)
        /\ chain' = c \/ \E j \in DOMAIN saved : chain' = saved[j].chain
        /\ Forget(chain', saved')
        /\ parsing' = FALSE
        /\ UNCHANGED <<constants, setting, definition_allowed>>
  BY DEF Caught
<1>s. saved \in Seq(Saved) /\ k \in 1..Len(saved)
  BY SavedType
<1>2. saved' \in Seq(Saved)
  <2>1. k - 1 \in 0..Len(saved)
    BY <1>s
  <2> QED  BY <1>1, <1>s, <2>1, Cut
<1>a. \A j \in DOMAIN saved : saved[j] \in Saved
  BY <1>s
<1>3. chain' \in Seq(Scope) \ {<<>>}
  BY <1>1, <1>a DEF Saved
<1>4. vars' \in VarTable
  BY <1>1, ForgetKeeps
<1> QED  BY <1>1, <1>2, <1>3, <1>4 DEF TypeOK, Saved, VarTable

LEMMA ExitsType ==
  ASSUME TypeOK, Exits
  PROVE  TypeOK'
<1>1. ASSUME Leave PROVE TypeOK'
  <2>s. saved \in Seq(Saved) /\ saved # <<>>
    BY <1>1, SavedType DEF Leave
  <2>n. Len(saved) \in 1..Len(saved) /\ Len(saved) - 1 \in 0..Len(saved)
    BY <2>s
  <2>1. saved' = SubSeq(saved, 1, Len(saved) - 1)
    BY <1>1 DEF Leave, Front
  <2>2. saved' \in Seq(Saved)
    BY <2>s, <2>n, <2>1, Cut
  <2>3. Last(saved) \in Saved
    BY <2>s, <2>n DEF Last
  <2>4. /\ chain' \in Seq(Scope) \ {<<>>} /\ definition_allowed' \in BOOLEAN
    BY <1>1, <2>3 DEF Leave, TypeOK, Saved
  <2>5. vars' \in VarTable
    BY <1>1, ForgetKeeps DEF Leave
  <2> QED  BY <1>1, <2>2, <2>4, <2>5 DEF Leave, TypeOK, Saved, VarTable
<1>2. ASSUME Fail PROVE TypeOK'
  BY <1>2, CaughtType DEF Fail, TypeOK
<1>3. ASSUME NEW n \in Name, BindFails(n) PROVE TypeOK'
  <2>1. PICK s \in Free : Caught(<<s>> \o chain)
    BY <1>3 DEF BindFails
  <2>2. <<s>> \o chain \in Seq(Scope) \ {<<>>}
    BY Extended DEF TypeOK, Free, Scope
  <2> QED  BY <2>1, <2>2, CaughtType
<1> QED  BY <1>1, <1>2, <1>3 DEF Exits

LEMMA InitType == Init => TypeOK
<1> SUFFICES ASSUME Init PROVE TypeOK
  OBVIOUS
<1>1. vars \in [Scope -> [Name -> Seq(Value)]]
  <2>1. PICK env \in SUBSET (Name \ Internal), v \in Value :
          vars = [s \in Scope |-> [n \in Name |->
                    IF s = super_global_scope /\ n \in env THEN <<v>>
                    ELSE <<>>]]
    BY DEF Init
  <2>2. <<v>> \in Seq(Value) /\ <<>> \in Seq(Value)
    OBVIOUS
  <2> QED  BY <2>1, <2>2
<1>2. constants \in [Name -> Constant]
  BY DEF Init, Absent, Constant
<1>3. setting \in [Name -> Value \cup {<<>>}]
  BY InitialAssumption DEF Init
<1>4. \A n \in Name : constants[n].has_value => setting[n] \in Value
  BY InitialAssumption DEF Init, Absent
<1>5. chain \in Seq(Scope) \ {<<>>}
  BY DEF Init, Scope
<1> QED  BY <1>1, <1>2, <1>3, <1>4, <1>5 DEF Init, TypeOK

LEMMA NextType == TypeOK /\ [Next]_state => TypeOK'
<1> SUFFICES ASSUME TypeOK, [Next]_state PROVE TypeOK'
  OBVIOUS
<1>1. CASE UNCHANGED state
  BY <1>1 DEF state, TypeOK
<1>2. CASE Next
  BY <1>2, VariablesType, DeletionType, ConstantsType, EntriesType, ExitsType
     DEF Next, Variables, Deletions, Constants
<1> QED  BY <1>1, <1>2

(* The tables, the chain of scopes and the saved contexts keep their types  *)
(* in every run of every script, whatever the names, types and contexts.    *)
THEOREM NamesTyped == Spec => []TypeOK
BY InitType, NextType, PTL DEF Spec

-----------------------------------------------------------------------------
(* What every step does to the constants.                                   *)
LEMMA ConstantsStep ==
  ASSUME TypeOK, Next
  PROVE  \/ UNCHANGED <<constants, setting>>
         \/ \E n \in Name : constants_make_mutable(n)
         \/ \E n \in Name, v \in Value : constants_define(n, v)
BY DEF Next, Variables, Deletions, Constants, Entries, Exits, StartRun, Leave,
       Fail, BindFails, Caught, Assign, Declare, mkvar,
       delvar, Quiet, EnterFunction, EnterImport, EnterExecute, EnterTry,
       EnterForIn, EnterForGlobal, Entered

(* What the constants and the right to define rest on: a constant with a    *)
(* value is in the table, the internal ones always are, and nothing can be  *)
(* defined while an execute is among the contexts.                          *)
Defined == \A n \in Name :
  /\ constants[n].user_defined => constants[n].has_value
  /\ constants[n].has_value => constants[n].present
  /\ n \in Internal => constants[n].has_value
Forbidden ==
  /\ \A i \in DOMAIN saved :
       saved[i].kind = "execute" =>
         /\ ~definition_allowed
         /\ \A j \in DOMAIN saved : i < j => ~saved[j].allowed

DefiningInv == TypeOK /\ Defined /\ InternalTypes /\ Forbidden

LEMMA DefinedKeeps ==
  ASSUME DefiningInv, Next
  PROVE  Defined' /\ InternalTypes'
<1>1. CASE UNCHANGED <<constants, setting>>
  BY <1>1 DEF DefiningInv, Defined, InternalTypes
<1>2. ASSUME NEW n \in Name, constants_make_mutable(n)
      PROVE  Defined' /\ InternalTypes'
  <2>1. n \notin Internal
    BY <1>2, NameAssumption DEF constants_make_mutable
  <2>2. constants' = [constants EXCEPT ![n].present = TRUE]
    BY <1>2 DEF constants_make_mutable
  <2>3. Defined'
    BY <2>2 DEF DefiningInv, TypeOK, Constant, Defined
  <2>4. InternalTypes'
    BY <1>2, <2>1, NameAssumption
       DEF DefiningInv, TypeOK, InternalTypes, constants_make_mutable
  <2> QED  BY <2>3, <2>4
<1>3. ASSUME NEW n \in Name, NEW v \in Value, constants_define(n, v)
      PROVE  Defined' /\ InternalTypes'
  <2>1. CASE redefine_internal(n, v)
    <3>1. Defined'
      BY <2>1 DEF DefiningInv, TypeOK, Constant, Defined, redefine_internal
    <3>2. InternalTypes'
      BY <2>1, NameAssumption
         DEF DefiningInv, TypeOK, InternalTypes, redefine_internal
    <3> QED  BY <3>1, <3>2
  <2>2. CASE give_value(n, v)
    <3>1. Defined'
      BY <2>2 DEF DefiningInv, TypeOK, Constant, Defined, give_value,
                  constants_is_reserved
    <3>2. InternalTypes'
      BY <2>2, NameAssumption
         DEF DefiningInv, Defined, TypeOK, InternalTypes, give_value
    <3> QED  BY <3>1, <3>2
  <2>3. CASE new_constant(n, v)
    <3>1. Defined'
      BY <2>3 DEF DefiningInv, TypeOK, Constant, Defined, new_constant
    <3>2. InternalTypes'
      BY <2>3, NameAssumption
         DEF DefiningInv, TypeOK, InternalTypes, new_constant
    <3> QED  BY <3>1, <3>2
  <2> QED  BY <1>3, <2>1, <2>2, <2>3 DEF constants_define
<1> QED  BY <1>1, <1>2, <1>3, ConstantsStep DEF DefiningInv

(* A context is saved, or the stack is cut: who may define stays right.     *)
LEMMA SavedStep ==
  ASSUME TypeOK, Next
  PROVE  \/ UNCHANGED <<saved, definition_allowed>>
         \/ /\ definition_allowed' = definition_allowed
            /\ \E kind \in Contexts \ {"execute"} :
                 saved' = Append(saved, Context(kind))
         \/ /\ definition_allowed' = FALSE
            /\ saved' = Append(saved, Context("execute"))
         \/ /\ definition_allowed' = definition_allowed
            /\ \E m \in 0..Len(saved) : saved' = SubSeq(saved, 1, m)
         \/ /\ saved # <<>>
            /\ saved' = SubSeq(saved, 1, Len(saved) - 1)
            /\ definition_allowed' = saved[Len(saved)].allowed
<1>c. ASSUME NEW c, Caught(c)
      PROVE  /\ definition_allowed' = definition_allowed
             /\ \E m \in 0..Len(saved) : saved' = SubSeq(saved, 1, m)
  <2>1. PICK k \in DOMAIN saved :
          saved' = SubSeq(saved, 1, k - 1)
          /\ definition_allowed' = definition_allowed
    BY <1>c DEF Caught
  <2>2. k \in 1..Len(saved) /\ k - 1 \in 0..Len(saved)
    BY SavedType
  <2> QED  BY <2>1, <2>2
<1>l. CASE Leave
  <2>1. /\ saved' = SubSeq(saved, 1, Len(saved) - 1) /\ saved # <<>>
        /\ Len(saved) - 1 \in 0..Len(saved)
    BY <1>l, SavedType DEF Leave, Front
  <2>2. \/ definition_allowed' = definition_allowed
        \/ definition_allowed' = saved[Len(saved)].allowed
    BY <1>l DEF Leave, Last
  <2> QED  BY <2>1, <2>2
<1>1. CASE Variables \/ Deletions \/ Constants \/ StartRun
  BY <1>1 DEF Variables, Deletions, Constants, Assign,
       Declare, mkvar, delvar, Quiet, constants_define, constants_make_mutable,
       StartRun
<1>2. CASE Entries
  BY <1>2 DEF Entries, EnterFunction, EnterImport, EnterExecute, EnterTry,
       EnterForIn, EnterForGlobal, Entered, Save
<1>3. CASE Exits
  BY <1>3, <1>c, <1>l DEF Exits, Fail, BindFails
<1> QED  BY <1>1, <1>2, <1>3 DEF Next

LEMMA ForbiddenKeeps ==
  ASSUME TypeOK, Forbidden, Next
  PROVE  Forbidden'
<1>s. saved \in Seq(Saved) /\ DOMAIN saved = 1..Len(saved)
  BY SavedType
<1>1. CASE UNCHANGED <<saved, definition_allowed>>
  BY <1>1 DEF Forbidden
<1>2. ASSUME NEW kind \in Contexts \cup {"execute"},
             saved' = Append(saved, Context(kind)),
             \/ definition_allowed' = FALSE
             \/ kind # "execute" /\ definition_allowed' = definition_allowed
      PROVE  Forbidden'
  <2>1. /\ DOMAIN saved' = 1..Len(saved) + 1
        /\ \A i \in 1..Len(saved) : saved'[i] = saved[i]
        /\ saved'[Len(saved) + 1] = Context(kind)
    BY <1>s, <1>2
  <2>2. Context(kind).kind = kind /\ Context(kind).allowed = definition_allowed
    BY DEF Context
  <2> SUFFICES ASSUME NEW i \in 1..Len(saved) + 1, saved'[i].kind = "execute"
               PROVE  /\ ~definition_allowed'
                      /\ \A j \in 1..Len(saved) + 1 : i < j => ~saved'[j].allowed
    BY <2>1 DEF Forbidden
  <2>3. CASE i = Len(saved) + 1
    BY <1>s, <1>2, <2>1, <2>2, <2>3
  <2>4. CASE i \in 1..Len(saved)
    <3>1. ~definition_allowed /\ \A j \in 1..Len(saved) : i < j => ~saved[j].allowed
      BY <1>s, <2>1, <2>4 DEF Forbidden
    <3> QED  BY <1>s, <1>2, <2>1, <2>2, <3>1
  <2> QED  BY <1>s, <2>3, <2>4
<1>3. ASSUME NEW m \in 0..Len(saved), saved' = SubSeq(saved, 1, m),
             \/ definition_allowed' = definition_allowed
             \/ /\ m = Len(saved) - 1
                /\ definition_allowed' = saved[Len(saved)].allowed
      PROVE  Forbidden'
  <2>0. /\ saved' \in Seq(Saved) /\ Len(saved') = m
        /\ \A i \in 1..m : saved'[i] = saved[i]
    BY <1>s, <1>3, Cut
  <2>1. DOMAIN saved' = 1..m /\ \A i \in 1..m : saved'[i] = saved[i]
    BY <2>0
  <2> SUFFICES ASSUME NEW i \in 1..m, saved[i].kind = "execute"
               PROVE  /\ ~definition_allowed'
                      /\ \A j \in 1..m : i < j => ~saved[j].allowed
    BY <2>1 DEF Forbidden
  <2>2. i \in DOMAIN saved /\ \A j \in 1..m : j \in DOMAIN saved
    BY <1>s
  <2>3. ~definition_allowed /\ \A j \in DOMAIN saved : i < j => ~saved[j].allowed
    BY <2>2 DEF Forbidden
  <2>4. m = Len(saved) - 1 => Len(saved) \in DOMAIN saved /\ i < Len(saved)
    BY <1>s
  <2> QED  BY <1>3, <2>2, <2>3, <2>4
<1>n. saved # <<>> => Len(saved) - 1 \in 0..Len(saved)
  BY <1>s
<1> QED  BY <1>1, <1>2, <1>3, <1>n, SavedStep

LEMMA DefiningInvariant == Spec => []DefiningInv
<1>1. Init => DefiningInv
  <2> SUFFICES ASSUME Init PROVE DefiningInv
    OBVIOUS
  <2>1. Defined
    BY DEF Init, Defined, Absent
  <2>2. InternalTypes
    BY NameAssumption DEF Init, InternalTypes
  <2>3. Forbidden
    BY DEF Init, Forbidden
  <2> QED  BY <2>1, <2>2, <2>3, InitType DEF DefiningInv
<1>2. DefiningInv /\ [Next]_state => DefiningInv'
  <2>1. CASE UNCHANGED state
    BY <2>1 DEF DefiningInv, state, TypeOK, Defined, InternalTypes, Forbidden
  <2>2. CASE Next
    BY <2>2, NextType, DefinedKeeps, ForbiddenKeeps DEF DefiningInv
  <2> QED  BY <2>1, <2>2
<1> QED  BY <1>1, <1>2, PTL DEF Spec

(* The built-in settings keep their types: a script can redefine an         *)
(* internal constant only with a value of its type, and no other definition *)
(* reaches one.                                                             *)
THEOREM SettingsTyped == Spec => []InternalTypes
BY DefiningInvariant, PTL DEF DefiningInv

(* A constant the script has defined is never changed, and none is defined  *)
(* inside an execute, whatever errors are raised and caught on the way.     *)
THEOREM ConstantsWrittenOnce == Spec => WriteOnce
<1> DEFINE Once ==
      \A n \in Name :
        /\ constants[n].user_defined =>
             constants'[n] = constants[n] /\ setting'[n] = setting[n]
        /\ constants'[n].user_defined # constants[n].user_defined =>
             \A i \in DOMAIN saved : saved[i].kind # "execute"
<1>1. DefiningInv /\ [Next]_state => [Once]_state
  <2> SUFFICES ASSUME DefiningInv, Next, NEW n \in Name
               PROVE
        /\ constants[n].user_defined =>
             constants'[n] = constants[n] /\ setting'[n] = setting[n]
        /\ constants'[n].user_defined # constants[n].user_defined =>
             \A i \in DOMAIN saved : saved[i].kind # "execute"
    OBVIOUS
  <2>1. CASE UNCHANGED <<constants, setting>>
    BY <2>1
  <2>2. ASSUME NEW m \in Name, constants_make_mutable(m)
        PROVE  /\ constants'[n].user_defined = constants[n].user_defined
               /\ constants[n].user_defined =>
                    constants'[n] = constants[n] /\ setting'[n] = setting[n]
    BY <2>2 DEF constants_make_mutable, DefiningInv, Defined, TypeOK, Constant
  <2>3. ASSUME NEW m \in Name, NEW v \in Value, constants_define(m, v)
        PROVE  /\ \A i \in DOMAIN saved : saved[i].kind # "execute"
               /\ constants[n].user_defined =>
                    constants'[n] = constants[n] /\ setting'[n] = setting[n]
    <3>1. \A i \in DOMAIN saved : saved[i].kind # "execute"
      BY <2>3 DEF constants_define, DefiningInv, Forbidden
    <3>2. ~constants[m].user_defined
      BY <2>3 DEF constants_define, redefine_internal, give_value, new_constant,
                  constants_is_reserved, DefiningInv, Defined
    <3>3. n # m => constants'[n] = constants[n] /\ setting'[n] = setting[n]
      BY <2>3 DEF constants_define, redefine_internal, give_value, new_constant,
                  DefiningInv, TypeOK
    <3> QED  BY <3>1, <3>2, <3>3
  <2> QED  BY <2>1, <2>2, <2>3, ConstantsStep DEF DefiningInv
<1> QED  BY <1>1, DefiningInvariant, PTL DEF Spec, WriteOnce

-----------------------------------------------------------------------------
(* Names are disjoint as long as no context leaves the chain of its caller  *)
(* and no native module adds a constant. Till then every saved chain is     *)
(* within the current one, so that define, which looks along the chain,     *)
(* sees every variable there is.                                            *)
PlainStep ==
  /\ ~Entering({"import", "forglobal"})
  /\ \A n \in LavaNames : constants'[n].present => constants'[n].has_value

Globals == {global_scope, super_global_scope}
Visible == Globals \cup Range(chain)

Nested ==
  /\ \A i \in DOMAIN saved : Range(saved[i].chain) \subseteq Visible
  /\ \A i, j \in DOMAIN saved :
       i < j => Range(saved[i].chain) \subseteq Globals \cup Range(saved[j].chain)
Fresh == \A s \in Scope \ Visible, n \in Name : vars[s][n] = <<>>
Clear == \A n \in Name : constants_is_reserved(n) =>
           \A s \in Scope : vars[s][n] = <<>>

ClashInv == TypeOK /\ Nested /\ Fresh /\ Clear

LEMMA LookupScopes ==
  ASSUME TypeOK
  PROVE  /\ \A i \in DOMAIN LookupOrder : LookupOrder[i] \in Visible
         /\ \A s \in Visible : \E i \in DOMAIN LookupOrder : LookupOrder[i] = s
         /\ Visible \subseteq Scope
<1>1. chain \in Seq(Scope) /\ DOMAIN chain = 1..Len(chain)
  BY DEF TypeOK
<1>2. /\ DOMAIN LookupOrder = 1..Len(chain) + 2
      /\ \A i \in 1..Len(chain) : LookupOrder[i] = chain[i]
      /\ LookupOrder[Len(chain) + 1] = global_scope
      /\ LookupOrder[Len(chain) + 2] = super_global_scope
  BY <1>1 DEF LookupOrder, Scope
<1>3. \A i \in 1..Len(chain) + 2 :
        \/ i \in 1..Len(chain) \/ i = Len(chain) + 1 \/ i = Len(chain) + 2
  BY <1>1
<1>4. \A i \in 1..Len(chain) : i \in 1..Len(chain) + 2
  BY <1>1
<1>5. Len(chain) + 1 \in 1..Len(chain) + 2 /\ Len(chain) + 2 \in 1..Len(chain) + 2
  BY <1>1
<1>6. \A s \in Range(chain) : \E i \in 1..Len(chain) : chain[i] = s
  BY <1>1 DEF Range
<1>7. \A i \in 1..Len(chain) : chain[i] \in Range(chain) /\ chain[i] \in Scope
  BY <1>1 DEF Range
<1>8. \A i \in DOMAIN LookupOrder : LookupOrder[i] \in Visible
  BY <1>2, <1>3, <1>7 DEF Visible, Globals
<1>9. \A s \in Visible : \E i \in DOMAIN LookupOrder : LookupOrder[i] = s
  BY <1>2, <1>4, <1>5, <1>6 DEF Visible, Globals
<1>10. Visible \subseteq Scope
  BY <1>6, <1>7 DEF Visible, Globals, Scope
<1> QED  BY <1>8, <1>9, <1>10

(* A step that writes at most one entry list, in a scope in sight, and      *)
(* gives it an entry only for a name that is no constant.                   *)
Writes(s, n) ==
  /\ \A t \in Scope, m \in Name : <<t, m>> # <<s, n>> => vars'[t][m] = vars[t][m]
  /\ vars'[s][n] # <<>> => ~constants_is_reserved(n) \/ vars[s][n] # <<>>

LEMMA Replaced ==
  ASSUME TypeOK, NEW s \in Scope, NEW n \in Name, NEW q,
         vars' = [vars EXCEPT ![s][n] = q],
         ~constants_is_reserved(n) \/ vars[s][n] # <<>>
  PROVE  Writes(s, n)
BY DEF TypeOK, Writes

LEMMA Written ==
  ASSUME TypeOK, NEW s \in Scope, NEW n \in Name, NEW e
  PROVE  /\ scope_define(s, n, e) => Writes(s, n)
         /\ Overwrite(s, n, e) /\ vars[s][n] # <<>> => Writes(s, n)
<1>1. ASSUME scope_define(s, n, e) PROVE Writes(s, n)
  <2>1. vars' = [vars EXCEPT ![s][n] = <<e>> \o vars[s][n]]
    BY <1>1 DEF scope_define, TypeOK
  <2> QED  BY <1>1, <2>1, Replaced DEF scope_define
<1>2. ASSUME Overwrite(s, n, e), vars[s][n] # <<>> PROVE Writes(s, n)
  <2>1. vars' = [vars EXCEPT ![s][n] = <<e>> \o Tail(vars[s][n])]
    BY <1>2 DEF Overwrite, TypeOK
  <2> QED  BY <1>2, <2>1, Replaced
<1> QED  BY <1>1, <1>2

LEMMA VisibleTargets ==
  ASSUME TypeOK
  PROVE  /\ current_scope \in Visible
         /\ \A s \in Scope, n \in Name : IsOwner(s, n) => s \in Visible
<1>1. 1 \in DOMAIN chain
  BY DEF TypeOK
<1>2. current_scope \in Visible
  BY <1>1 DEF current_scope, Visible, Range
<1>3. \A s \in Scope, n \in Name : IsOwner(s, n) => s \in Visible
  BY LookupScopes DEF IsOwner, Owners
<1> QED  BY <1>2, <1>3

LEMMA StatementWrites ==
  ASSUME TypeOK, Variables \/ Deletions
  PROVE  /\ Quiet
         /\ \E s \in Visible, n \in Name : Writes(s, n)
<1>v. /\ current_scope \in Visible /\ Globals \subseteq Visible
      /\ Visible \subseteq Scope
  BY VisibleTargets, LookupScopes DEF Visible
<1>1. ASSUME NEW n \in Name, NEW v \in Value, Assign(n, v)
      PROVE  Quiet /\ \E s \in Visible : Writes(s, n)
  BY <1>1, <1>v, Written, OwnerHas, VisibleTargets DEF Assign, Globals
<1>2. ASSUME NEW n \in Name, NEW v \in Value, Declare(n, v)
      PROVE  Quiet /\ \E s \in Visible : Writes(s, n)
  BY <1>2, <1>v, Written DEF Declare, Globals
<1>3. ASSUME NEW n \in Name, NEW v \in Value, mkvar(n, v)
      PROVE  Quiet /\ \E s \in Visible : Writes(s, n)
  BY <1>3, <1>v, Written DEF mkvar, Globals
<1>4. ASSUME NEW n \in Name, delvar(n)
      PROVE  Quiet /\ \E s \in Visible : Writes(s, n)
  <2>1. PICK s \in Scope :
          IsOwner(s, n) /\ vars' = [vars EXCEPT ![s][n] = Tail(@)]
    BY <1>4 DEF delvar
  <2>2. vars' = [vars EXCEPT ![s][n] = Tail(vars[s][n])]
    BY <2>1 DEF TypeOK
  <2>3. Writes(s, n)
    BY <1>4, <2>2, Replaced DEF delvar
  <2> QED  BY <1>4, <2>1, <2>3, VisibleTargets DEF delvar
<1> QED  BY <1>1, <1>2, <1>2, <1>3, <1>4 DEF Variables, Deletions

LEMMA StatementsClear ==
  ASSUME ClashInv, Variables \/ Deletions
  PROVE  Nested' /\ Fresh' /\ Clear'
<1>1. PICK s \in Visible, n \in Name : Quiet /\ Writes(s, n)
  BY StatementWrites DEF ClashInv
<1>2. Visible' = Visible /\ Nested'
  BY <1>1 DEF Quiet, Visible, Nested, ClashInv
<1>3. Fresh'
  BY <1>1, <1>2 DEF Fresh, Writes, ClashInv
<1>4. Clear'
  BY <1>1 DEF Clear, Writes, Quiet, constants_is_reserved, ClashInv
<1> QED  BY <1>2, <1>3, <1>4

LEMMA ConstantsClear ==
  ASSUME PlainStep, ClashInv, Constants
  PROVE  Nested' /\ Fresh' /\ Clear'
<1>0. ASSUME NEW n \in Name, constants_make_mutable(n) PROVE FALSE
  <2>1. n \in LavaNames /\ ~constants[n].has_value
        /\ constants' = [constants EXCEPT ![n].present = TRUE]
    BY <1>0 DEF constants_make_mutable
  <2>2. constants'[n].present /\ ~constants'[n].has_value
    BY <2>1 DEF ClashInv, TypeOK, Constant
  <2> QED  BY <2>1, <2>2 DEF PlainStep
<1>1. PICK n \in Name, v \in Value : constants_define(n, v)
  BY <1>0 DEF Constants
<1>2. UNCHANGED <<vars, chain, saved>>
  BY <1>1 DEF constants_define
<1>3. Nested' /\ Fresh'
  BY <1>2 DEF Visible, Nested, Fresh, ClashInv
<1>4. \A m \in Name \ {n} : constants'[m] = constants[m]
  BY <1>1 DEF constants_define, redefine_internal, give_value, new_constant,
              ClashInv, TypeOK
<1>5. CASE constants_is_reserved(n)
  BY <1>2, <1>3, <1>4, <1>5 DEF Clear, constants_is_reserved, ClashInv
<1>6. CASE new_constant(n, v)
  <2>1. \A i \in DOMAIN LookupOrder : vars[LookupOrder[i]][n] = <<>>
    BY <1>6 DEF new_constant, IsVariable, Owners
  <2>2. \A s \in Visible : vars[s][n] = <<>>
    BY <2>1, LookupScopes DEF ClashInv
  <2>3. \A s \in Scope : vars[s][n] = <<>>
    BY <2>2 DEF ClashInv, Fresh
  <2> QED  BY <1>2, <1>3, <1>4, <2>3 DEF Clear, constants_is_reserved, ClashInv
<1>7. CASE redefine_internal(n, v)
  <2>1. constants' = [constants EXCEPT ![n].user_defined = TRUE]
    BY <1>7 DEF redefine_internal
  <2>2. constants'[n].present = constants[n].present
    BY <2>1 DEF ClashInv, TypeOK, Constant
  <2> QED  BY <1>2, <1>3, <1>4, <2>2 DEF Clear, constants_is_reserved, ClashInv
<1> QED  BY <1>1, <1>3, <1>5, <1>6, <1>7 DEF constants_define, give_value

(* The shape of a step into a context, or of the start of a script.         *)
LEMMA EntrySteps ==
  ASSUME PlainStep, TypeOK, Entries \/ StartRun
  PROVE  /\ UNCHANGED constants
         /\ \/ saved' = saved
            \/ \E kind \in Contexts : saved' = Append(saved, Context(kind))
         /\ \/ UNCHANGED <<chain, vars>>
            \/ \E s \in Free :
                 /\ chain' = <<s>> \o chain
                 /\ UNCHANGED vars \/ \E n \in Name : Writes(s, n)
<1>f. Free \subseteq Scope
  BY DEF Free, Scope
<1>1. ASSUME NEW n \in Name, NEW v \in Value, EnterFunction(n, v)
      PROVE  \E s \in Free : /\ chain' = <<s>> \o chain
                             /\ UNCHANGED vars \/ \E m \in Name : Writes(s, m)
  BY <1>f, <1>1, Written DEF EnterFunction
<1>2. ASSUME NEW n \in Name, NEW v \in Value, EnterForIn(n, v)
      PROVE  \E s \in Free : chain' = <<s>> \o chain /\ \E m \in Name : Writes(s, m)
  BY <1>f, <1>2, Written DEF EnterForIn
<1>3. CASE StartRun
  BY <1>3 DEF StartRun
<1>4. CASE EnterExecute \/ EnterTry
  BY <1>4 DEF EnterExecute, EnterTry, Entered, Save
<1>5. ~EnterImport /\ \A n \in Name, v \in Value : ~EnterForGlobal(n, v)
  <2>1. ASSUME NEW kind \in {"import", "forglobal"}, Save(kind) PROVE FALSE
    <3>1. saved \in Seq(Saved) /\ saved' = Append(saved, Context(kind))
      BY <2>1, SavedType DEF Save
    <3>2. Len(saved') > Len(saved) /\ Last(saved') = Context(kind)
      BY <3>1 DEF Last
    <3> QED  BY <3>2 DEF PlainStep, Entering, Context
  <2> QED  BY <2>1 DEF EnterImport, EnterForGlobal
<1>6. ASSUME NEW n \in Name, NEW v \in Value,
             EnterFunction(n, v) \/ EnterForIn(n, v)
      PROVE  /\ UNCHANGED constants
             /\ \E kind \in Contexts : saved' = Append(saved, Context(kind))
  BY <1>6 DEF EnterFunction, EnterForIn, Entered, Save
<1> QED  BY <1>1, <1>2, <1>3, <1>4, <1>5, <1>6 DEF Entries

LEMMA EntriesClear ==
  ASSUME PlainStep, ClashInv, Entries \/ StartRun
  PROVE  Nested' /\ Fresh' /\ Clear'
<1>s. saved \in Seq(Saved) /\ DOMAIN saved = 1..Len(saved) /\ Free \subseteq Scope
  BY SavedType DEF ClashInv, Free, Scope
<1>1. \/ UNCHANGED <<chain, vars>> /\ Visible' = Visible
      \/ \E s \in Free : /\ Visible' = Visible \cup {s}
                         /\ UNCHANGED vars \/ \E n \in Name : Writes(s, n)
  <2>1. CASE UNCHANGED <<chain, vars>>
    BY <2>1 DEF Visible
  <2>2. ASSUME NEW s \in Free, chain' = <<s>> \o chain
        PROVE  Visible' = Visible \cup {s}
    <3>1. Range(chain') = {s} \cup Range(chain)
      BY <1>s, <2>2, Extended DEF ClashInv, TypeOK
    <3> QED  BY <3>1 DEF Visible
  <2> QED  BY <2>1, <2>2, EntrySteps DEF ClashInv
<1>2. Nested'
  <2>1. Visible \subseteq Visible'
    BY <1>1
  <2>2. CASE saved' = saved
    BY <2>1, <2>2 DEF Nested, ClashInv
  <2>3. ASSUME NEW kind \in Contexts, saved' = Append(saved, Context(kind))
        PROVE  Nested'
    <3>1. /\ DOMAIN saved' = 1..Len(saved) + 1
          /\ \A i \in 1..Len(saved) : saved'[i] = saved[i]
          /\ saved'[Len(saved) + 1] = Context(kind)
      BY <1>s, <2>3
    <3>2. Context(kind).chain = chain
      BY DEF Context
    <3>3. \A i \in 1..Len(saved) + 1 : i \in 1..Len(saved) \/ i = Len(saved) + 1
      BY <1>s
    <3>4. \A i \in DOMAIN saved' : Range(saved'[i].chain) \subseteq Visible'
      BY <1>s, <2>1, <3>1, <3>2, <3>3 DEF Nested, ClashInv, Visible
    <3>5. ASSUME NEW i \in DOMAIN saved', NEW j \in DOMAIN saved', i < j
          PROVE  Range(saved'[i].chain) \subseteq Globals \cup Range(saved'[j].chain)
      <4>1. i \in 1..Len(saved)
        BY <1>s, <3>1, <3>3, <3>5
      <4>2. CASE j \in 1..Len(saved)
        BY <1>s, <3>1, <3>5, <4>1, <4>2 DEF Nested, ClashInv
      <4>3. CASE j = Len(saved) + 1
        BY <1>s, <3>1, <3>2, <4>1, <4>3 DEF Nested, ClashInv, Visible
      <4> QED  BY <3>1, <3>3, <4>2, <4>3
    <3> QED  BY <3>4, <3>5 DEF Nested, Globals
  <2> QED  BY <2>2, <2>3, EntrySteps DEF ClashInv
<1>3. Fresh'
  BY <1>1 DEF Fresh, Writes, ClashInv
<1>4. Clear'
  <2>1. constants' = constants
    BY EntrySteps DEF ClashInv
  <2>2. CASE UNCHANGED vars
    BY <2>1, <2>2 DEF Clear, constants_is_reserved, ClashInv
  <2>3. ASSUME NEW s \in Scope, NEW n \in Name, Writes(s, n) PROVE Clear'
    BY <2>1, <2>3 DEF Clear, Writes, constants_is_reserved, ClashInv
  <2> QED  BY <1>s, <1>1, <2>2, <2>3
<1> QED  BY <1>2, <1>3, <1>4

(* A context ends, in order or by an error: the chain becomes that of a     *)
(* saved context below the ones that go, or stays, or has grown.            *)
LEMMA CutClear ==
  ASSUME ClashInv, NEW m \in 0..Len(saved),
         saved' = SubSeq(saved, 1, m), chain' \in Seq(Scope) \ {<<>>},
         \/ Range(chain) \subseteq Range(chain')
         \/ \E j \in DOMAIN saved : j > m /\ chain' = saved[j].chain,
         Forget(chain', saved'), UNCHANGED constants
  PROVE  Nested' /\ Fresh' /\ Clear'
<1>1. /\ DOMAIN saved' = 1..m /\ 1..m \subseteq DOMAIN saved
      /\ \A i \in 1..m : saved'[i] = saved[i]
  <2>1. saved \in Seq(Saved)
    BY SavedType DEF ClashInv
  <2>2. saved' \in Seq(Saved) /\ Len(saved') = m
        /\ \A i \in 1..m : saved'[i] = saved[i]
    BY <2>1, Cut
  <2> QED  BY <2>1, <2>2
<1>2. \A i \in 1..m : Range(saved[i].chain) \subseteq Visible'
  <2>1. CASE Range(chain) \subseteq Range(chain')
    BY <1>1, <2>1 DEF Nested, Visible, Globals, ClashInv
  <2>2. ASSUME NEW j \in DOMAIN saved, j > m, chain' = saved[j].chain
        PROVE  \A i \in 1..m : Range(saved[i].chain) \subseteq Visible'
    <3>1. \A i \in 1..m : i < j
      BY <2>2, SavedType DEF ClashInv
    <3> QED  BY <1>1, <2>2, <3>1 DEF Nested, Visible, Globals, ClashInv
  <2> QED  BY <2>1, <2>2
<1>3. Nested'
  BY <1>1, <1>2 DEF Nested, Globals, ClashInv
<1>4. Reached(chain', saved') \subseteq Visible'
  BY <1>1, <1>2 DEF Reached, Visible, Globals
<1>5. Fresh'
  BY <1>4 DEF Fresh, Forget
<1>6. Clear'
  BY DEF Clear, Forget, constants_is_reserved, ClashInv
<1> QED  BY <1>3, <1>5, <1>6

LEMMA CaughtClear ==
  ASSUME ClashInv, NEW c \in Seq(Scope) \ {<<>>}, Caught(c),
         Range(chain) \subseteq Range(c)
  PROVE  Nested' /\ Fresh' /\ Clear'
<1>1. PICK k \in DOMAIN saved :
        /\ saved' = SubSeq(saved, 1, k - 1)
        /\ chain' = c \/ \E j \in DOMAIN saved : j > k /\ chain' = saved[j].chain
        /\ Forget(chain', saved')
        /\ UNCHANGED constants
  BY DEF Caught
<1>2. /\ k \in 1..Len(saved) /\ k - 1 \in 0..Len(saved)
      /\ \A j \in DOMAIN saved : j > k => j > k - 1
  BY SavedType DEF ClashInv
<1>3. chain' \in Seq(Scope) \ {<<>>}
  BY CaughtType DEF ClashInv, TypeOK
<1> QED  BY <1>1, <1>2, <1>3, CutClear

LEMMA ExitsClear ==
  ASSUME ClashInv, Exits
  PROVE  Nested' /\ Fresh' /\ Clear'
<1>c. chain \in Seq(Scope) \ {<<>>}
  BY DEF ClashInv, TypeOK
<1>1. CASE Leave
  <2>1. /\ saved' = SubSeq(saved, 1, Len(saved) - 1)
        /\ chain' = chain \/ chain' = saved[Len(saved)].chain
        /\ Forget(chain', saved') /\ UNCHANGED constants /\ saved # <<>>
    BY <1>1 DEF Leave, Front, Last
  <2>2. /\ Len(saved) - 1 \in 0..Len(saved) /\ Len(saved) \in DOMAIN saved
        /\ Len(saved) > Len(saved) - 1
    BY <2>1, SavedType DEF ClashInv
  <2>3. chain' \in Seq(Scope) \ {<<>>}
    BY <1>1, ExitsType DEF ClashInv, TypeOK
  <2> QED  BY <2>1, <2>2, <2>3, CutClear
<1>2. CASE Fail
  BY <1>2, <1>c, CaughtClear DEF Fail
<1>3. ASSUME NEW n \in Name, BindFails(n)
      PROVE  Nested' /\ Fresh' /\ Clear'
  <2>1. PICK s \in Free : Caught(<<s>> \o chain)
    BY <1>3 DEF BindFails
  <2>2. s \in Scope
    BY DEF Free, Scope
  <2>3. /\ <<s>> \o chain \in Seq(Scope) \ {<<>>}
        /\ Range(chain) \subseteq Range(<<s>> \o chain)
    BY <1>c, <2>2, Extended
  <2> QED  BY <2>1, <2>3, CaughtClear
<1> QED  BY <1>1, <1>2, <1>3 DEF Exits

LEMMA ClashStart == Init => ClashInv
<1> SUFFICES ASSUME Init PROVE ClashInv
  OBVIOUS
<1>1. Nested
  BY DEF Init, Nested
<1>2. Fresh
  BY DEF Init, Fresh, Visible, Globals
<1>3. Clear
  BY DEF Init, Clear, constants_is_reserved, Absent
<1> QED  BY <1>1, <1>2, <1>3, InitType DEF ClashInv

LEMMA ClashStep ==
  ASSUME ClashInv, [Next]_state, PlainStep \/ UNCHANGED state
  PROVE  ClashInv'
<1>1. CASE UNCHANGED state
  BY <1>1, NextType
     DEF ClashInv, state, Nested, Fresh, Clear, Visible, constants_is_reserved
<1>2. CASE Next /\ PlainStep
  BY <1>2, NextType, StatementsClear, ConstantsClear, EntriesClear, ExitsClear
     DEF Next, ClashInv
<1> QED  BY <1>1, <1>2

LEMMA ClashFree == ClashInv => NoClash
<1>1. TypeOK => Reached(chain, saved) \subseteq Scope \cup UNION {Range(saved[i].chain) : i \in DOMAIN saved}
  BY LookupScopes DEF Reached, Visible, Scope
<1>2. ClashInv => Reached(chain, saved) \subseteq Scope
  BY <1>1, LookupScopes DEF ClashInv, Nested
<1> QED  BY <1>2 DEF ClashInv, Clear, NoClash

(* Until a program enters an import or a global for, or a native module     *)
(* creates a constant, no name is both a constant and a variable some code  *)
(* can reach: scope_define and constants_define each refuse to make one     *)
(* beside the other.                                                        *)
THEOREM DisjointTillImport == MCSpec => []PlainNoClash
<1> DEFINE I == TypeOK /\ plain \in BOOLEAN /\ (plain => ClashInv)
<1>1. MCInit => I
  BY ClashStart, InitType DEF MCInit
<1>2. I /\ [MCNext]_<<state, plain>> => I'
  <2> SUFFICES ASSUME I, [MCNext]_<<state, plain>> PROVE I'
    OBVIOUS
  <2>1. [Next]_state
    BY DEF MCNext
  <2>2. TypeOK'
    BY <2>1, NextType
  <2>3. CASE UNCHANGED <<state, plain>>
    BY <2>1, <2>2, <2>3, ClashStep
  <2>4. CASE MCNext
    <3>1. plain' = (plain /\ PlainStep)
      BY <2>4 DEF MCNext, PlainStep
    <3>2. plain' \in BOOLEAN
      BY <3>1
    <3> QED  BY <2>1, <2>2, <3>1, <3>2, ClashStep
  <2> QED  BY <2>3, <2>4
<1>3. I => PlainNoClash
  BY ClashFree DEF PlainNoClash
<1> QED  BY <1>1, <1>2, <1>3, PTL DEF MCSpec

(* In a program without import, global for loops and native modules no name *)
(* is ever both.                                                            *)
Plain == Contexts \subseteq {"func", "forin", "execute", "try"} /\ LavaNames = {}

THEOREM NamesDisjoint ==
  ASSUME Plain
  PROVE  Spec => []NoClash
<1>1. ASSUME ClashInv, [Next]_state PROVE ClashInv'
  <2>1. saved \in Seq(Saved) /\ saved' \in Seq(Saved)
    BY <1>1, NextType, SavedType DEF ClashInv, TypeOK, Saved
  <2>2. Len(saved') > Len(saved) => Last(saved') \in Saved
    BY <2>1 DEF Last
  <2>3. PlainStep
    BY <2>2 DEF PlainStep, Entering, Saved, Plain
  <2> QED  BY <1>1, <2>3, ClashStep
<1> QED  BY <1>1, ClashStart, ClashFree, PTL DEF Spec
=============================================================================
