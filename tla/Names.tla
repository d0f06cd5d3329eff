------------------------------- MODULE Names -------------------------------
(***************************************************************************)
(* Names: the variables of the scopes (runtime/scope.c, stdlib/variables.c) *)
(* and the constants (runtime/constants.c), under the statements that       *)
(* change which scopes a name is looked up in: calls, import, a global for  *)
(* loop, execute, and try, which does not put current_scope back.           *)
(***************************************************************************)
EXTENDS Naturals, SequencesExt

CONSTANTS
  LocalScope,  \* addresses of the scopes calls and loops create (a bound)
  super_global_scope, global_scope,
  Name,        \* identifiers
  Internal,    \* the constants register_all_constants registers
  Settable,    \* those of them with a setter
  Underscore,  \* other names that begin with '_'
  LavaNames,   \* constants a native module creates when it is loaded
  Contexts,    \* which contexts occur, of those in Kind
  Type,        \* value types; values of a type are told apart by a payload
  Payload,
  Initial,     \* the built-in setting behind each internal constant
  MaxSaved,    \* bound: nested contexts
  MaxShadow    \* bound: declarations of one name in one scope

Value == Type \X Payload
TypeOf(v) == v[1]

ASSUME ScopeAssumption ==
  /\ super_global_scope # global_scope
  /\ LocalScope \cap {super_global_scope, global_scope} = {}
ASSUME NameAssumption ==
  /\ Internal \cup Underscore \cup LavaNames \subseteq Name
  /\ Settable \subseteq Internal
  /\ Internal \cap (Underscore \cup LavaNames) = {}
ASSUME ContextAssumption ==
  Contexts \subseteq {"func", "import", "forglobal", "forin", "execute", "try"}
ASSUME InitialAssumption == Initial \in [Internal -> Value]
ASSUME NameBounds == MaxSaved \in Nat /\ MaxShadow \in Nat

Scope == {super_global_scope, global_scope} \cup LocalScope

Kind == {"func", "import", "forglobal", "forin", "execute", "try"}

(* A ConstantEntry, or Absent. vtype is always the type of value. Internal  *)
(* constants are read through their getter: their value is the setting.     *)
Absent == [has_value |-> FALSE, user_defined |-> FALSE, present |-> FALSE]
Constant == [has_value : BOOLEAN, user_defined : BOOLEAN, present : BOOLEAN]

VARIABLES
  vars,        \* per scope and name, the values of its entries, newest first
  constants,   \* the constant table
  setting,     \* what reading the constant yields
  chain,       \* current_scope and its parents
  saved,       \* the contexts being run, with what each restores
  definition_allowed,
  parsing      \* is a script (the main one, or an executed one) being parsed?

state == <<vars, constants, setting, chain, saved, definition_allowed, parsing>>

-----------------------------------------------------------------------------
constants_is_reserved(n) == constants[n].present

(* scope_find looks along the chain, then in global_scope and in super.     *)
LookupOrder == chain \o <<global_scope, super_global_scope>>

Owners(n) == {i \in DOMAIN LookupOrder : vars[LookupOrder[i]][n] # <<>>}
IsVariable(n) == Owners(n) # {}

(* s holds the entry scope_find returns: the first one in lookup order.     *)
IsOwner(s, n) ==
  \E i \in Owners(n) : /\ \A j \in Owners(n) : i <= j
                       /\ s = LookupOrder[i]

current_scope == chain[1]

(* The scopes some activation can still reach; an unreachable one is        *)
(* forgotten (freed, or leaked by a longjmp).                               *)
Reached(c, stack) == {global_scope, super_global_scope} \cup Range(c)
                     \cup UNION {Range(stack[i].chain) : i \in DOMAIN stack}

Forget(c, stack) ==
  vars' = [s \in Scope |-> IF s \in Reached(c, stack) THEN vars[s]
                           ELSE [n \in Name |-> <<>>]]

(* scope_define: a new entry in front of those of the same name.            *)
scope_define(s, n, v) ==
  /\ ~constants_is_reserved(n)
  /\ Len(vars[s][n]) < MaxShadow
  /\ vars' = [vars EXCEPT ![s][n] = <<v>> \o @]

(* The newest entry of n in s takes the value, and its type: its vtype is   *)
(* that of the value it has, and not kept apart.                            *)
Overwrite(s, n, v) == vars' = [vars EXCEPT ![s][n] = <<v>> \o Tail(@)]

Running == ~parsing
Quiet == UNCHANGED <<constants, setting, chain, saved, definition_allowed,
                     parsing>>

(* Types; and a constant that has a value can be read.                      *)
TypeOK ==
  /\ vars \in [Scope -> [Name -> Seq(Value)]]
  /\ constants \in [Name -> Constant]
  /\ setting \in [Name -> Value \cup {<<>>}]
  /\ \A n \in Name : constants[n].has_value => setting[n] \in Value
  /\ chain \in Seq(Scope) \ {<<>>}
  /\ saved \in Seq([kind : Contexts, chain : Seq(Scope) \ {<<>>},
                    allowed : BOOLEAN])
  /\ definition_allowed \in BOOLEAN
  /\ parsing \in BOOLEAN

(* main(): the environment may have put variables in super_global_scope.    *)
Init ==
  /\ \E env \in SUBSET (Name \ Internal), v \in Value :
       vars = [s \in Scope |-> [n \in Name |->
                 IF s = super_global_scope /\ n \in env THEN <<v>>
                 ELSE <<>>]]
  /\ constants = [n \in Name |->
       IF n \in Internal THEN [Absent EXCEPT !.has_value = TRUE, !.present = TRUE]
       ELSE Absent]
  /\ setting = [n \in Name |-> IF n \in Internal THEN Initial[n] ELSE <<>>]
  /\ chain = <<global_scope, super_global_scope>>
  /\ saved = <<>>
  /\ definition_allowed = TRUE
  /\ parsing = TRUE

-----------------------------------------------------------------------------
(* Variables.                                                               *)

(* n = v, with or without a type before it, which only converts the value.  *)
(* scope_assign tests e->vtype >= TOK_EOF, and TOK_EOF is 0: whatever types *)
(* are, the value is replaced. A name not found is defined in global_scope, *)
(* not in the current one.                                                  *)
Assign(n, v) ==
  /\ Running
  /\ ~constants_is_reserved(n)
  /\ \/ \E s \in Scope : IsOwner(s, n) /\ Overwrite(s, n, v)
     \/ ~IsVariable(n) /\ scope_define(global_scope, n, v)
  /\ Quiet

(* local n = v and global n = v, with or without a type, add an entry.      *)
Declare(n, v) ==
  /\ Running
  /\ \E s \in {current_scope, super_global_scope} : scope_define(s, n, v)
  /\ Quiet

(* mkvar(): an existing entry of the target scope is overwritten, and only  *)
(* scope_define looks at the constants.                                     *)
mkvar(n, v) ==
  /\ Running
  /\ \E s \in {current_scope, global_scope, super_global_scope} :
       \/ vars[s][n] # <<>> /\ Overwrite(s, n, v)
       \/ vars[s][n] = <<>> /\ scope_define(s, n, v)
  /\ Quiet

(* delvar(): the entry that scope_find would return goes.                   *)
delvar(n) ==
  /\ Running
  /\ ~constants_is_reserved(n)
  /\ \E s \in Scope : IsOwner(s, n) /\ vars' = [vars EXCEPT ![s][n] = Tail(@)]
  /\ Quiet

-----------------------------------------------------------------------------
(* Constants.                                                               *)

(* Mutant: the type of the new value is not compared.                       *)
redefine_internal_untyped(n, v) ==
  /\ n \in Internal
  /\ ~constants[n].user_defined
  /\ constants' = [constants EXCEPT ![n].user_defined = TRUE]
  /\ setting' = IF n \in Settable THEN [setting EXCEPT ![n] = v] ELSE setting

(* define _NAME v, the first time: the type must match; a constant without  *)
(* a setter is marked defined, and reading it goes on calling its getter.   *)
redefine_internal(n, v) ==
  /\ n \in Internal
  /\ ~constants[n].user_defined
  /\ TypeOf(v) = TypeOf(setting[n])
  /\ constants' = [constants EXCEPT ![n].user_defined = TRUE]
  /\ setting' = IF n \in Settable THEN [setting EXCEPT ![n] = v] ELSE setting

(* define of a constant a native module created and the script has not set. *)
give_value(n, v) ==
  /\ constants_is_reserved(n)
  /\ ~constants[n].has_value
  /\ constants' = [constants EXCEPT ![n].has_value = TRUE,
                                    ![n].user_defined = TRUE]
  /\ setting' = [setting EXCEPT ![n] = v]

(* Mutant: the variables in sight are not looked at.                        *)
new_constant_unchecked(n, v) ==
  /\ ~constants_is_reserved(n)
  /\ n \notin Internal \cup Underscore
  /\ constants' = [constants EXCEPT ![n] =
       [has_value |-> TRUE, user_defined |-> TRUE, present |-> TRUE]]
  /\ setting' = [setting EXCEPT ![n] = v]

(* define of a name that is neither a constant nor a variable in sight.     *)
new_constant(n, v) ==
  /\ ~constants_is_reserved(n)
  /\ ~IsVariable(n)
  /\ n \notin Internal \cup Underscore
  /\ constants' = [constants EXCEPT ![n] =
       [has_value |-> TRUE, user_defined |-> TRUE, present |-> TRUE]]
  /\ setting' = [setting EXCEPT ![n] = v]

constants_define(n, v) ==
  /\ Running
  /\ definition_allowed
  /\ redefine_internal(n, v) \/ give_value(n, v) \/ new_constant(n, v)
  /\ UNCHANGED <<vars, chain, saved, definition_allowed, parsing>>

(* make_infernal_const(), called by a module the parser is loading: the     *)
(* entry has no value yet; the module may write a default through the       *)
(* pointer. Variables are not looked at.                                    *)
constants_make_mutable(n) ==
  /\ parsing
  /\ n \in LavaNames
  /\ ~constants[n].has_value
  /\ constants' = [constants EXCEPT ![n].present = TRUE]
  /\ \E v \in Value \cup {<<>>} : setting' = [setting EXCEPT ![n] = v]
  /\ UNCHANGED <<vars, chain, saved, definition_allowed, parsing>>

-----------------------------------------------------------------------------
(* Contexts.                                                                *)

Free == LocalScope \ Reached(chain, saved)

Context(kind) == [kind |-> kind, chain |-> chain, allowed |-> definition_allowed]
Save(kind) == /\ kind \in Contexts
              /\ Len(saved) < MaxSaved
              /\ saved' = Append(saved, Context(kind))
Entered == UNCHANGED <<constants, setting, definition_allowed, parsing>>

(* eval_call: a scope whose parent is the caller's, and perhaps a parameter *)
(* in it. while and a local for make and leave their scopes the same way.   *)
EnterFunction(n, v) ==
  /\ Running
  /\ Save("func")
  /\ \E s \in Free : /\ chain' = <<s>> \o chain
                     /\ scope_define(s, n, v) \/ UNCHANGED vars
  /\ Entered

(* for x in list: an iteration's scope and its loop variable.               *)
EnterForIn(n, v) ==
  /\ Running
  /\ Save("forin")
  /\ \E s \in Free : /\ chain' = <<s>> \o chain
                     /\ scope_define(s, n, v)
  /\ Entered

(* import: the module's statements run in global_scope.                     *)
EnterImport ==
  /\ Running
  /\ Save("import")
  /\ chain' = <<global_scope, super_global_scope>>
  /\ UNCHANGED vars /\ Entered

(* for global: the loop variable goes to super_global_scope, over an entry  *)
(* already there; the parent of the body's scope is super_global_scope.     *)
EnterForGlobal(n, v) ==
  /\ Running
  /\ Save("forglobal")
  /\ \/ vars[super_global_scope][n] = <<>> /\ scope_define(super_global_scope, n, v)
     \/ vars[super_global_scope][n] # <<>> /\ Overwrite(super_global_scope, n, v)
  /\ \E s \in Free : chain' = <<s, super_global_scope>>
  /\ Entered

(* execute: definitions are forbidden from here on; the file is parsed, and *)
(* then runs in a child of the current scope.                               *)
EnterExecute ==
  /\ Running
  /\ Save("execute")
  /\ definition_allowed' = FALSE
  /\ parsing' = TRUE
  /\ UNCHANGED <<vars, constants, setting, chain>>

StartRun ==
  /\ parsing
  /\ parsing' = FALSE
  /\ IF saved = <<>> THEN chain' = chain
                     ELSE \E s \in Free : chain' = <<s>> \o chain
  /\ UNCHANGED <<vars, constants, setting, saved, definition_allowed>>

EnterTry ==
  /\ Running
  /\ Save("try")
  /\ UNCHANGED <<vars, chain>> /\ Entered

(* Mutant: execute allows definitions when it ends, whoever executed it.    *)
LeaveAllowing ==
  /\ Running
  /\ saved # <<>>
  /\ LET ctx == Last(saved)
     IN  /\ saved' = Front(saved)
         /\ chain' = IF ctx.kind = "try" THEN chain ELSE ctx.chain
         /\ definition_allowed' = (ctx.kind = "execute" \/ definition_allowed)
         /\ Forget(chain', saved')
  /\ UNCHANGED <<constants, setting, parsing>>

(* The innermost context ends normally. try restores neither the scope nor  *)
(* anything else; execute gives back the right to define.                   *)
Leave ==
  /\ Running
  /\ saved # <<>>
  /\ LET ctx == Last(saved)
     IN  /\ saved' = Front(saved)
         /\ chain' = IF ctx.kind = "try" THEN chain ELSE ctx.chain
         /\ definition_allowed' = IF ctx.kind = "execute" THEN ctx.allowed
                                  ELSE definition_allowed
         /\ Forget(chain', saved')
  /\ UNCHANGED <<constants, setting, parsing>>

(* An error, with c the current chain, goes to the innermost try; on its    *)
(* way the handlers of for-in put back the scope each of them saved.        *)
Caught(c) ==
  LET handlers == {i \in DOMAIN saved : saved[i].kind = "try"}
  IN  \E k \in handlers :
        LET rethrown == {i \in DOMAIN saved : i > k /\ saved[i].kind = "forin"}
        IN  /\ \A i \in handlers : i <= k
            /\ saved' = SubSeq(saved, 1, k - 1)
            /\ \/ rethrown = {} /\ chain' = c
               \/ \E j \in rethrown : /\ \A i \in rethrown : j <= i
                                      /\ chain' = saved[j].chain
            /\ Forget(chain', saved')
            /\ parsing' = FALSE
            /\ UNCHANGED <<constants, setting, definition_allowed>>

(* Any statement can raise an error; without a try the program ends.        *)
Fail == Caught(chain)

(* A parameter, or the loop variable of a for-in whose handler is not armed *)
(* yet, cannot be defined: its new scope stays current.                     *)
BindFails(n) ==
  /\ Running
  /\ Contexts \cap {"func", "forin"} # {}
  /\ constants_is_reserved(n)
  /\ \E s \in Free : Caught(<<s>> \o chain)

-----------------------------------------------------------------------------
Variables == \E n \in Name, v \in Value :
  Assign(n, v) \/ Declare(n, v) \/ mkvar(n, v)
Deletions == \E n \in Name : delvar(n)
Constants == \E n \in Name :
  \/ constants_make_mutable(n)
  \/ \E v \in Value : constants_define(n, v)
Entries ==
  \/ EnterImport \/ EnterExecute \/ EnterTry
  \/ \E n \in Name, v \in Value :
       EnterFunction(n, v) \/ EnterForIn(n, v) \/ EnterForGlobal(n, v)
Exits == Leave \/ Fail \/ \E n \in Name : BindFails(n)

Next == Variables \/ Deletions \/ Constants \/ Entries \/ StartRun \/ Exits
Spec == Init /\ [][Next]_state

-----------------------------------------------------------------------------
(* Properties.                                                              *)

(* Names are disjoint: no scope that can still be reached has a variable    *)
(* with the name of a constant (scope_define and constants_define refuse    *)
(* to create either beside the other).                                      *)
NoClash ==
  \A n \in Name : constants_is_reserved(n) =>
    \A s \in Reached(chain, saved) : vars[s][n] = <<>>

(* A constant the script has defined keeps its value for good, and a        *)
(* definition an executed script tries, or one in code that runs after an   *)
(* error in it was caught, is refused.                                      *)
WriteOnce ==
  [][\A n \in Name :
       /\ constants[n].user_defined =>
            constants'[n] = constants[n] /\ setting'[n] = setting[n]
       /\ constants'[n].user_defined # constants[n].user_defined =>
            \A i \in DOMAIN saved : saved[i].kind # "execute"]_state

(* A built-in setting never takes a value of another type, whoever writes.  *)
InternalTypes ==
  \A n \in Internal : TypeOf(setting[n]) = TypeOf(Initial[n])
=============================================================================
