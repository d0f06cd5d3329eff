----------------------------- MODULE Evaluator -----------------------------
(***************************************************************************)
(* The control skeleton of the tree-walking evaluator (src/src/runtime/     *)
(* evaluator/): the C activation records that exec_stmt, eval_call,         *)
(* eval_map and exec_flags stack on each other, the setjmp handlers some    *)
(* of them arm, the scopes they create and free, and the globals they save  *)
(* and restore (control_flow, current_scope, exception_env,                 *)
(* definition_allowed, script_argv, current_source_file, ts).               *)
(*                                                                          *)
(* The script is not a constant: at every point the next statement, the     *)
(* outcome of a condition and whether an expression fails are chosen        *)
(* nondeterministically, so a behaviour is a run of some script on some     *)
(* data, and the properties speak of every script whose nesting fits in     *)
(* MaxDepth.                                                                *)
(***************************************************************************)
EXTENDS Naturals, Sequences

CONSTANTS
  Scope,          \* addresses malloc can give to a Scope
  NoScope,        \* the null Scope pointer
  super_global_scope, global_scope,
  Constructs,     \* the kinds of record the scripts considered give rise to
  MaxDepth,       \* bound: nested activation records
  LoopLimit       \* max_loop_iterations (_MAX_LOOP_LIMIT)

ASSUME ScopeAssumption ==
  /\ NoScope \notin Scope
  /\ super_global_scope \in Scope
  /\ global_scope \in Scope
  /\ super_global_scope # global_scope
ASSUME BoundAssumption == MaxDepth \in Nat \ {0} /\ LoopLimit \in Nat

VARIABLES
  mode,           \* "run", "unwind" (a longjmp is in flight), "done", "failed"
  frames,         \* activation records, innermost last
  control_flow,   \* the pending CF_* code
  exception_env,  \* depth of the record that filled exception_env; 0: main()
  current_scope,
  chain,          \* per allocated scope, the scopes its parent links reach
  context         \* what execute and flags save: see Context

vars == <<mode, frames, control_flow, exception_env, current_scope, chain,
          context>>

ControlFlow == {"none", "break", "continue", "return", "repeat"}

(* allowed: constants.c definition_allowed; script: whose script_argv,      *)
(* script_argc and flags_arg_index are current, and source: whose           *)
(* source_lines and current_source_file, both as the depth of the execute   *)
(* record that set them, 0 for the main script; ts: whose tokens the global *)
(* token stream holds (the program's, an executed script's, a flag body's). *)
Context == [allowed : BOOLEAN, script : 0..MaxDepth, source : 0..MaxDepth,
            ts : {"program", "script", "spec"}]

MainScript ==
  [allowed |-> TRUE, script |-> 0, source |-> 0, ts |-> "program"]

Kind == {"main", "if", "switch", "while", "for", "forin", "func", "builtin",
         "map", "import", "try", "execute", "flags", "flag"}

(* Where a record is: evaluating an expression of its own, between two      *)
(* steps that can still raise an error, or running a block.                 *)
EvalPhase == {"eval", "init", "args"}
StepPhase == {"next", "bind", "open", "parse", "match"}
BodyPhase == {"body", "catch"}

Frame == [kind  : Kind,
          phase : EvalPhase \cup StepPhase \cup BodyPhase,
          n     : Nat,                     \* iter_count
          old   : Scope,                   \* old_scope, prev_scope
          own   : Scope \cup {NoScope},    \* scope freed with the record
          iter  : Scope \cup {NoScope},    \* scope freed with the iteration
          env   : 0..MaxDepth,             \* saved_env
          cf    : ControlFlow,             \* saved_cf
          ctx   : Context]                 \* saved_ts, saved_argv, ...

depth == Len(frames)
Top == frames[depth]

(* Does the record hold an armed setjmp?                                    *)
Armed(f) ==
  \/ f.kind \in {"try", "forin"} /\ f.phase = "body"
  \/ f.kind \in {"builtin", "map", "flag"}

-----------------------------------------------------------------------------
(* Scopes (runtime/scope.c).                                                *)

scope_new(s, parent) ==
  /\ s \in Scope \ DOMAIN chain
  /\ chain' = [t \in DOMAIN chain \cup {s} |->
                 IF t = s THEN {s} \cup chain[parent] ELSE chain[t]]

scope_free(dead) == chain' = [t \in DOMAIN chain \ dead |-> chain[t]]

-----------------------------------------------------------------------------
(* Records.                                                                 *)

NewFrame(kind, phase) ==
  [kind |-> kind, phase |-> phase, n |-> 0, old |-> current_scope,
   own |-> NoScope, iter |-> NoScope, env |-> exception_env,
   cf |-> "none",
   ctx |-> IF kind \in {"execute", "flag"} THEN context ELSE MainScript]

Push(f) == /\ f.kind \in Constructs
           /\ depth < MaxDepth
           /\ frames' = Append(frames, f)
SetTop(f) == frames' = [frames EXCEPT ![depth] = f]
Pop == frames' = SubSeq(frames, 1, depth - 1)

(* The innermost record evaluates an expression: one of its own, or one of  *)
(* the statement its block is at. A while or a for tests iter_count before  *)
(* its condition; the increment of a for comes before that test.            *)
CanEval ==
  /\ mode = "run"
  /\ \/ Top.phase \in EvalPhase
     \/ Top.phase \in BodyPhase /\ control_flow = "none"
  /\ Top.kind \in {"while", "for"} /\ Top.phase = "eval" =>
       Top.n < LoopLimit \/ (Top.kind = "for" /\ Top.n > 0)

(* exec_block is about to run a statement of the innermost block.           *)
CanExec == mode = "run" /\ Top.phase \in BodyPhase /\ control_flow = "none"

(* exec_block returns: the block is over or control_flow stops it.          *)
BlockOver(kind) ==
  /\ mode = "run"
  /\ Top.kind = kind
  /\ Top.phase \in IF kind = "try" THEN BodyPhase ELSE {"body"}

At(kind, phase) == mode = "run" /\ Top.kind = kind /\ Top.phase = phase

Init ==
  /\ mode = "run"
  /\ control_flow = "none"
  /\ exception_env = 0
  /\ current_scope = global_scope
  /\ chain = [s \in {super_global_scope, global_scope} |->
                {super_global_scope, s}]
  /\ context = MainScript
  /\ frames = <<[kind |-> "main", phase |-> "body", n |-> 0,
                 old |-> global_scope, own |-> NoScope, iter |-> NoScope,
                 env |-> 0, cf |-> "none", ctx |-> MainScript]>>

-----------------------------------------------------------------------------
(* error(): longjmp(exception_env, 1).  The records above the handler stay  *)
(* on the C stack until the jump lands.                                     *)
CanRaise ==
  \/ CanEval
  \/ /\ mode = "run"
     /\ \/ Top.phase \in StepPhase
        \/ Top.phase = "eval" /\ Top.kind \in {"while", "for"}

Raise ==
  /\ CanRaise
  /\ mode' = "unwind"
  /\ UNCHANGED <<frames, control_flow, exception_env, current_scope, chain,
                 context>>

-----------------------------------------------------------------------------
(* Calls (eval_call.c) and map literals (eval_map).                         *)

(* eval_call, user function: the new scope is current before the arguments  *)
(* are evaluated, and its parent is the scope of the caller.                *)
CallUser(s) ==
  /\ CanEval
  /\ scope_new(s, current_scope)
  /\ Push([NewFrame("func", "args") EXCEPT !.own = s])
  /\ current_scope' = s
  /\ UNCHANGED <<mode, control_flow, exception_env, context>>

EnterFunction ==
  /\ At("func", "args")
  /\ SetTop([Top EXCEPT !.phase = "body", !.cf = control_flow])
  /\ control_flow' = "none"
  /\ UNCHANGED <<mode, exception_env, current_scope, chain, context>>

(* Mutant: only a return is undone, so break and repeat reach the caller.   *)
LeaveFunctionLeaking ==
  /\ BlockOver("func")
  /\ Pop
  /\ control_flow' = IF control_flow = "return" THEN Top.cf ELSE control_flow
  /\ current_scope' = Top.old
  /\ scope_free({Top.own})
  /\ UNCHANGED <<mode, exception_env, context>>

(* Whatever control flow ended the body, the caller sees its own again.     *)
LeaveFunction ==
  /\ BlockOver("func")
  /\ Pop
  /\ control_flow' = Top.cf
  /\ current_scope' = Top.old
  /\ scope_free({Top.own})
  /\ UNCHANGED <<mode, exception_env, context>>

(* eval_call, native function: the handler covers arguments and call.       *)
(* eval_binop arms one in the same way while its right operand is evaluated. *)
CallBuiltin ==
  /\ CanEval
  /\ Push(NewFrame("builtin", "args"))
  /\ exception_env' = depth + 1
  /\ UNCHANGED <<mode, control_flow, current_scope, chain, context>>

(* Mutant: the handler stays armed after the call.                          *)
LeaveBuiltinArmed ==
  /\ At("builtin", "args")
  /\ Pop
  /\ UNCHANGED <<mode, control_flow, exception_env, current_scope, chain,
                 context>>

LeaveBuiltin ==
  /\ At("builtin", "args")
  /\ Pop
  /\ exception_env' = Top.env
  /\ UNCHANGED <<mode, control_flow, current_scope, chain, context>>

BuildMap(s) ==
  /\ CanEval
  /\ scope_new(s, current_scope)
  /\ Push([NewFrame("map", "eval") EXCEPT !.own = s])
  /\ exception_env' = depth + 1
  /\ current_scope' = s
  /\ UNCHANGED <<mode, control_flow, context>>

LeaveMap ==
  /\ At("map", "eval")
  /\ Pop
  /\ exception_env' = Top.env
  /\ current_scope' = Top.old
  /\ scope_free({Top.own})
  /\ UNCHANGED <<mode, control_flow, context>>

-----------------------------------------------------------------------------
(* Statements without a block of their own that set control_flow: NODE_     *)
(* BREAK, NODE_CONTINUE, NODE_RETURN and NODE_REPEAT.                       *)
SetControlFlow(cf) ==
  /\ CanExec
  /\ control_flow' = cf
  /\ UNCHANGED <<mode, frames, exception_env, current_scope, chain, context>>

(* exec_block finds the line a repeat asked for among its own statements.   *)
RepeatHere ==
  /\ mode = "run" /\ Top.phase \in BodyPhase /\ control_flow = "repeat"
  /\ control_flow' = "none"
  /\ UNCHANGED <<mode, frames, exception_env, current_scope, chain, context>>

(* NODE_IF and NODE_SWITCH: evaluate, then run blocks in the same scope.    *)
EnterChoice(kind) ==
  /\ CanExec
  /\ Push(NewFrame(kind, "eval"))
  /\ UNCHANGED <<mode, control_flow, exception_env, current_scope, chain,
                 context>>

ChooseBlock(kind) ==
  /\ At(kind, "eval")
  /\ SetTop([Top EXCEPT !.phase = "body"])
  /\ UNCHANGED <<mode, control_flow, exception_env, current_scope, chain,
                 context>>

LeaveIf ==
  /\ BlockOver("if")
  /\ Pop
  /\ UNCHANGED <<mode, control_flow, exception_env, current_scope, chain,
                 context>>

(* A case falls through to the next one (the block goes on) until break.    *)
LeaveSwitch ==
  /\ BlockOver("switch")
  /\ Pop
  /\ control_flow' = IF control_flow = "break" THEN "none" ELSE control_flow
  /\ UNCHANGED <<mode, exception_env, current_scope, chain, context>>

-----------------------------------------------------------------------------
(* Loops.                                                                   *)

EnterWhile ==
  /\ CanExec
  /\ Push(NewFrame("while", "eval"))
  /\ UNCHANGED <<mode, control_flow, exception_env, current_scope, chain,
                 context>>

(* NODE_FOR: the initial value is evaluated outside; the loop variable      *)
(* lives in a scope of its own, or in super_global_scope for a global one.  *)
EnterFor ==
  /\ CanExec
  /\ Push(NewFrame("for", "init"))
  /\ UNCHANGED <<mode, control_flow, exception_env, current_scope, chain,
                 context>>

DefineLoopVariable ==
  /\ At("for", "init")
  /\ UNCHANGED <<mode, control_flow, exception_env, context>>
  /\ \/ /\ \E s \in Scope : /\ scope_new(s, Top.old)
                            /\ SetTop([Top EXCEPT !.phase = "eval", !.own = s])
                            /\ current_scope' = s
     \/ /\ SetTop([Top EXCEPT !.phase = "eval"])
        /\ current_scope' = super_global_scope
        /\ UNCHANGED chain

(* The scope a for loop tests its condition in.                             *)
for_scope(f) == IF f.own = NoScope THEN super_global_scope ELSE f.own

(* The condition held: a new scope for the body.                            *)
EnterIteration(s) ==
  /\ mode = "run" /\ Top.kind \in {"while", "for"} /\ Top.phase = "eval"
  /\ Top.n < LoopLimit
  /\ scope_new(s, current_scope)
  /\ current_scope' = s
  /\ SetTop([Top EXCEPT !.phase = "body", !.iter = s, !.n = @ + 1,
                        !.old = IF Top.kind = "while" THEN current_scope
                                                       ELSE @])
  /\ UNCHANGED <<mode, control_flow, exception_env, context>>

(* The condition failed.                                                    *)
EndLoop ==
  /\ mode = "run" /\ Top.kind \in {"while", "for"} /\ Top.phase = "eval"
  /\ Top.n < LoopLimit
  /\ Pop
  /\ current_scope' = IF Top.kind = "for" THEN Top.old ELSE current_scope
  /\ scope_free({Top.own})
  /\ UNCHANGED <<mode, control_flow, exception_env, context>>

(* After the body: continue and a normal end go round, break, return and    *)
(* repeat leave; only break is consumed by the loop.                        *)
GoesRound == control_flow \in {"none", "continue"}

(* Mutant: continue is left pending.                                        *)
AfterBodyContinuing ==
  control_flow' = IF control_flow = "break" THEN "none" ELSE control_flow

AfterBody == control_flow' = IF control_flow \in {"break", "continue"}
                             THEN "none" ELSE control_flow

NextIteration ==
  /\ \/ BlockOver("while")
     \/ BlockOver("for")
  /\ GoesRound
  /\ AfterBody
  /\ SetTop([Top EXCEPT !.phase = "eval", !.iter = NoScope])
  /\ current_scope' = IF Top.kind = "while" THEN Top.old ELSE for_scope(Top)
  /\ scope_free({Top.iter})
  /\ UNCHANGED <<mode, exception_env, context>>

(* Mutant: a loop that is left restores the scope of its condition.         *)
LeaveLoopToCondition ==
  /\ \/ BlockOver("while")
     \/ BlockOver("for")
  /\ ~GoesRound
  /\ AfterBody
  /\ Pop
  /\ current_scope' = IF Top.kind = "while" THEN Top.old ELSE for_scope(Top)
  /\ scope_free({Top.iter, Top.own})
  /\ UNCHANGED <<mode, exception_env, context>>

LeaveLoop ==
  /\ \/ BlockOver("while")
     \/ BlockOver("for")
  /\ ~GoesRound
  /\ AfterBody
  /\ Pop
  /\ current_scope' = Top.old
  /\ scope_free({Top.iter, Top.own})
  /\ UNCHANGED <<mode, exception_env, context>>

-----------------------------------------------------------------------------
(* NODE_FOR_IN: each iteration binds its variables in a new scope, then     *)
(* arms a handler around the body that frees the scope and rethrows.        *)
EnterForIn ==
  /\ CanExec
  /\ Push(NewFrame("forin", "eval"))
  /\ UNCHANGED <<mode, control_flow, exception_env, current_scope, chain,
                 context>>

HaveIterable ==
  /\ At("forin", "eval")
  /\ SetTop([Top EXCEPT !.phase = "next"])
  /\ UNCHANGED <<mode, control_flow, exception_env, current_scope, chain,
                 context>>

BindItem(s) ==
  /\ At("forin", "next")
  /\ scope_new(s, current_scope)
  /\ SetTop([Top EXCEPT !.phase = "bind", !.iter = s, !.old = current_scope])
  /\ current_scope' = s
  /\ UNCHANGED <<mode, control_flow, exception_env, context>>

ArmIteration ==
  /\ At("forin", "bind")
  /\ SetTop([Top EXCEPT !.phase = "body", !.env = exception_env])
  /\ exception_env' = depth
  /\ UNCHANGED <<mode, control_flow, current_scope, chain, context>>

(* After the body: disarm, restore, then as the other loops.                *)
NextItem ==
  /\ BlockOver("forin")
  /\ GoesRound
  /\ AfterBody
  /\ SetTop([Top EXCEPT !.phase = "next", !.iter = NoScope])
  /\ exception_env' = Top.env
  /\ current_scope' = Top.old
  /\ scope_free({Top.iter})
  /\ UNCHANGED <<mode, context>>

(* Mutant: break leaves the loop before its handler is disarmed.            *)
LeaveForInArmed ==
  /\ BlockOver("forin")
  /\ ~GoesRound
  /\ AfterBody
  /\ Pop
  /\ current_scope' = Top.old
  /\ scope_free({Top.iter})
  /\ UNCHANGED <<mode, exception_env, context>>

LeaveForIn ==
  /\ BlockOver("forin")
  /\ ~GoesRound
  /\ AfterBody
  /\ Pop
  /\ exception_env' = Top.env
  /\ current_scope' = Top.old
  /\ scope_free({Top.iter})
  /\ UNCHANGED <<mode, context>>

EndForIn ==
  /\ At("forin", "next")
  /\ Pop
  /\ UNCHANGED <<mode, control_flow, exception_env, current_scope, chain,
                 context>>

-----------------------------------------------------------------------------
(* NODE_IMPORT: the module's block runs in global_scope.                    *)

EnterImport ==
  /\ CanExec
  /\ Push(NewFrame("import", "body"))
  /\ current_scope' = global_scope
  /\ UNCHANGED <<mode, control_flow, exception_env, chain, context>>

LeaveImport ==
  /\ BlockOver("import")
  /\ Pop
  /\ current_scope' = Top.old
  /\ UNCHANGED <<mode, control_flow, exception_env, chain, context>>

-----------------------------------------------------------------------------
(* NODE_TRY: saves exception_env and nothing else.                          *)

EnterTry ==
  /\ CanExec
  /\ Push(NewFrame("try", "body"))
  /\ exception_env' = depth + 1
  /\ UNCHANGED <<mode, control_flow, current_scope, chain, context>>

LeaveTry ==
  /\ BlockOver("try")
  /\ Pop
  /\ exception_env' = IF Top.phase = "body" THEN Top.env ELSE exception_env
  /\ UNCHANGED <<mode, control_flow, current_scope, chain, context>>

-----------------------------------------------------------------------------
(* NODE_EXECUTE: constants are locked first; the new argv is in place       *)
(* before the file is opened, the new source before it is parsed; ts goes   *)
(* back to the caller's tokens before the script runs in a child scope.     *)

EnterExecute ==
  /\ CanExec
  /\ Push(NewFrame("execute", "eval"))
  /\ context' = [context EXCEPT !.allowed = FALSE]
  /\ UNCHANGED <<mode, control_flow, exception_env, current_scope, chain>>

SetScriptArgs ==
  /\ At("execute", "eval")
  /\ SetTop([Top EXCEPT !.phase = "open"])
  /\ context' = [context EXCEPT !.script = depth]
  /\ UNCHANGED <<mode, control_flow, exception_env, current_scope, chain>>

OpenScript ==
  /\ At("execute", "open")
  /\ SetTop([Top EXCEPT !.phase = "parse"])
  /\ context' = [context EXCEPT !.source = depth, !.ts = "script"]
  /\ UNCHANGED <<mode, control_flow, exception_env, current_scope, chain>>

RunScript(s) ==
  /\ At("execute", "parse")
  /\ scope_new(s, current_scope)
  /\ SetTop([Top EXCEPT !.phase = "body", !.own = s, !.old = current_scope])
  /\ current_scope' = s
  /\ context' = [context EXCEPT !.ts = Top.ctx.ts]
  /\ UNCHANGED <<mode, control_flow, exception_env>>

(* Mutant: definitions are allowed again, not as they were.                 *)
LeaveExecuteAllowing ==
  /\ BlockOver("execute")
  /\ Pop
  /\ context' = [Top.ctx EXCEPT !.ts = context.ts, !.allowed = TRUE]
  /\ current_scope' = Top.old
  /\ scope_free({Top.own})
  /\ UNCHANGED <<mode, control_flow, exception_env>>

LeaveExecute ==
  /\ BlockOver("execute")
  /\ Pop
  /\ context' = [Top.ctx EXCEPT !.ts = context.ts]
  /\ current_scope' = Top.old
  /\ scope_free({Top.own})
  /\ UNCHANGED <<mode, control_flow, exception_env>>

-----------------------------------------------------------------------------
(* exec_flags runs the body of each flag present; it never looks at         *)
(* control_flow, and may still fail on a later argument.                    *)

EnterFlags ==
  /\ CanExec
  /\ Push(NewFrame("flags", "match"))
  /\ UNCHANGED <<mode, control_flow, exception_env, current_scope, chain,
                 context>>

(* exec_flag_spec_impl: ts becomes the body's tokens, under a handler that  *)
(* puts the saved ts back.                                                  *)
ParseFlag ==
  /\ At("flags", "match")
  /\ Push(NewFrame("flag", "parse"))
  /\ exception_env' = depth + 1
  /\ context' = [context EXCEPT !.ts = "spec"]
  /\ UNCHANGED <<mode, control_flow, current_scope, chain>>

RunFlag ==
  /\ At("flag", "parse")
  /\ SetTop([Top EXCEPT !.phase = "body"])
  /\ UNCHANGED <<mode, control_flow, exception_env, current_scope, chain,
                 context>>

LeaveFlag ==
  /\ BlockOver("flag")
  /\ Pop
  /\ exception_env' = Top.env
  /\ context' = [context EXCEPT !.ts = Top.ctx.ts]
  /\ UNCHANGED <<mode, control_flow, current_scope, chain>>

LeaveFlags ==
  /\ At("flags", "match")
  /\ Pop
  /\ UNCHANGED <<mode, control_flow, exception_env, current_scope, chain,
                 context>>

-----------------------------------------------------------------------------
(* A longjmp lands in the record exception_env names.                       *)

Handler == frames[exception_env]

Lands(kinds) == /\ mode = "unwind"
                /\ exception_env # 0
                /\ Handler.kind \in kinds
                /\ exception_env' = Handler.env

(* Mutant: the catch block runs with the handler of the try still armed.    *)
CatchArmed ==
  /\ mode = "unwind" /\ exception_env # 0 /\ Handler.kind = "try"
  /\ mode' = "run"
  /\ frames' = Append(SubSeq(frames, 1, exception_env - 1),
                      [Handler EXCEPT !.phase = "catch"])
  /\ UNCHANGED <<control_flow, exception_env, current_scope, chain, context>>

(* try: the jump ends here, in the catch block.                             *)
Catch ==
  /\ Lands({"try"})
  /\ mode' = "run"
  /\ frames' = Append(SubSeq(frames, 1, exception_env - 1),
                      [Handler EXCEPT !.phase = "catch"])
  /\ UNCHANGED <<control_flow, current_scope, chain, context>>

(* Mutant: the handler rethrows before it puts the saved one back.          *)
RethrowToItself ==
  /\ mode = "unwind" /\ exception_env # 0
  /\ Handler.kind \in {"forin", "builtin", "map", "flag"}
  /\ current_scope' = IF Handler.kind \in {"forin", "map"} THEN Handler.old
                      ELSE current_scope
  /\ scope_free({Handler.own, Handler.iter})
  /\ UNCHANGED <<mode, frames, control_flow, exception_env, context>>

(* for-in, a native call, a map literal and a flag body clean up and        *)
(* rethrow to the handler they had saved.                                   *)
Rethrow ==
  /\ Lands({"forin", "builtin", "map", "flag"})
  /\ frames' = SubSeq(frames, 1, exception_env - 1)
  /\ current_scope' = IF Handler.kind \in {"forin", "map"} THEN Handler.old
                      ELSE current_scope
  /\ scope_free({Handler.own, Handler.iter})
  /\ context' = IF Handler.kind = "flag"
                THEN [context EXCEPT !.ts = Handler.ctx.ts] ELSE context
  /\ UNCHANGED <<mode, control_flow>>

(* main(): the message is printed and everything is released.               *)
Uncaught ==
  /\ mode = "unwind" /\ exception_env = 0
  /\ mode' = "failed"
  /\ frames' = <<>>
  /\ scope_free(DOMAIN chain)
  /\ current_scope' = NoScope
  /\ UNCHANGED <<control_flow, exception_env, context>>

Finish ==
  /\ BlockOver("main")
  /\ mode' = "done"
  /\ Pop
  /\ scope_free(DOMAIN chain)
  /\ current_scope' = NoScope
  /\ UNCHANGED <<control_flow, exception_env, context>>
-----------------------------------------------------------------------------
Expressions ==
  \/ \E s \in Scope : CallUser(s) \/ BuildMap(s)
  \/ EnterFunction \/ LeaveFunction
  \/ CallBuiltin \/ LeaveBuiltin
  \/ LeaveMap

Statements ==
  \/ \E cf \in ControlFlow \ {"none"} : SetControlFlow(cf)
  \/ RepeatHere
  \/ \E kind \in {"if", "switch"} : EnterChoice(kind) \/ ChooseBlock(kind)
  \/ LeaveIf \/ LeaveSwitch
  \/ EnterImport \/ LeaveImport
  \/ EnterTry \/ LeaveTry

Loops ==
  \/ EnterWhile \/ EnterFor \/ DefineLoopVariable
  \/ \E s \in Scope : EnterIteration(s) \/ BindItem(s)
  \/ EndLoop \/ NextIteration \/ LeaveLoop
  \/ EnterForIn \/ HaveIterable \/ ArmIteration
  \/ NextItem \/ LeaveForIn \/ EndForIn

Scripts ==
  \/ EnterExecute \/ SetScriptArgs \/ OpenScript \/ LeaveExecute
  \/ \E s \in Scope : RunScript(s)
  \/ EnterFlags \/ ParseFlag \/ RunFlag \/ LeaveFlag \/ LeaveFlags

Unwinding == Catch \/ Rethrow \/ Uncaught

Next == Expressions \/ Statements \/ Loops \/ Scripts \/ Raise \/ Unwinding
        \/ Finish

Spec == Init /\ [][Next]_vars

(* The interpreter is one thread: once a jump is in flight it goes on.      *)
FairSpec == Spec /\ WF_vars(Unwinding)

-----------------------------------------------------------------------------
(* Types; and the program's own block is the only record at the bottom.     *)
TypeOK ==
  /\ mode \in {"run", "unwind", "done", "failed"}
  /\ frames \in Seq(Frame)
  /\ depth <= MaxDepth
  /\ mode \in {"run", "unwind"} => /\ depth > 0
                                   /\ current_scope \in Scope
  /\ \A k \in 1..depth : frames[k].kind = "main" <=> k = 1
  /\ control_flow \in ControlFlow
  /\ exception_env \in 0..depth
  /\ current_scope \in Scope \cup {NoScope}
  /\ DOMAIN chain \subseteq Scope
  /\ context \in Context

(* env is the innermost armed record below depth k, or main's.              *)
InnermostBelow(env, k) ==
  /\ env \in 0..(k - 1)
  /\ env # 0 => Armed(frames[env])
  /\ \A i \in (env + 1)..(k - 1) : ~Armed(frames[i])

(* eval_stmt.c, eval_call.c, eval_literal.c, eval_flag.c: exception_env     *)
(* always holds the innermost setjmp whose function has not returned, so no *)
(* error jumps into a dead record or past a live handler, however try,      *)
(* for-in, native calls, maps and flags nest and whichever way each one is  *)
(* left.                                                                    *)
EnvInnermost ==
  /\ InnermostBelow(exception_env, depth + 1)
  /\ \A k \in 1..depth : Armed(frames[k]) => InnermostBelow(frames[k].env, k)

Owned(f) == {f.own, f.iter} \ {NoScope}

(* scope.c scope_free: nothing the evaluator can still look a name up in    *)
(* (the current scope, a saved one, one a record will free, or anything     *)
(* their parent links reach) has been freed, and none will be freed twice.  *)
NoDanglingScope ==
  /\ mode \in {"run", "unwind"} =>
       \A s \in {current_scope, global_scope, super_global_scope}
                \cup UNION {{frames[k].old} \cup Owned(frames[k]) : k \in 1..depth} :
         s \in DOMAIN chain /\ chain[s] \subseteq DOMAIN chain
  /\ \A j, k \in 1..depth :
       /\ j # k => Owned(frames[j]) \cap Owned(frames[k]) = {}
       /\ Owned(frames[k]) \cap {global_scope, super_global_scope} = {}

(* eval_stmt.c: while break, continue, return or repeat is pending nothing  *)
(* is evaluated; only exec_flags goes on working, so an error raised with   *)
(* control flow pending (whose catch block exec_block would skip) can only  *)
(* come from flags.                                                         *)
PendingFlow ==
  mode = "run" /\ control_flow # "none" =>
    Top.phase \in BodyPhase \/ Top.kind \in {"flags", "flag"}

Executing == \E k \in 1..depth : frames[k].kind = "execute"

(* constants.c definition_allowed, eval_stmt.c NODE_EXECUTE: a script run   *)
(* with execute can never define a constant, however deep, and after any    *)
(* error it caught or any script it executed in turn.                       *)
ExecutedCannotDefine == Executing => ~context.allowed

(* eval_call.c, eval_literal.c: an expression is transparent: when a user   *)
(* function, a native function or a map literal returns, the scope, the     *)
(* handler and the control flow are the ones it was entered with, whatever  *)
(* loops, try statements, scripts or repeats ran inside.                    *)
CallsTransparent ==
  [][mode = "run" /\ depth' = depth - 1 /\ mode' = "run"
       /\ Top.kind \in {"func", "builtin", "map"}
     => /\ current_scope' = Top.old
        /\ exception_env' = Top.env
        /\ control_flow' = "none"]_vars

(* error.c: an error that was raised reaches a try or main(); the rethrows  *)
(* of the handlers in between cannot go round in circles.                   *)
RaisedErrorLands == mode = "unwind" ~> mode # "unwind"

-----------------------------------------------------------------------------
(* To the script only try blocks catch: the other handlers are invisible,   *)
(* and an error in flight has already left everything inside the innermost  *)
(* try block.                                                               *)
TryBlock(f) == f.kind = "try" /\ f.phase = "body"

InnermostTry ==
  CHOOSE i \in 0..depth :
    /\ i # 0 => TryBlock(frames[i])
    /\ \A j \in (i + 1)..depth : ~TryBlock(frames[j])

Seen == IF mode = "unwind" THEN InnermostTry ELSE depth

Structure == INSTANCE TryCatch WITH
  stack <- [i \in 1..Seen |-> IF TryBlock(frames[i]) THEN "try" ELSE "plain"]

(* eval_stmt.c NODE_TRY and the rethrowing handlers of for-in, native       *)
(* calls, maps and flags implement structured exceptions: the error lands   *)
(* in the try block that encloses it in the script, after any number of     *)
(* rethrows.                                                                *)
StructuredErrors == Structure!Spec
=============================================================================
