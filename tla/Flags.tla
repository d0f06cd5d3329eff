------------------------------- MODULE Flags -------------------------------
(* flags statements (parser/flags.c, runtime/evaluator/eval_flag.c): how the  *)
(* arguments of a script are handed out, while the bodies that run for them   *)
(* hold further flags statements, execute other scripts and fail.             *)
(*                                                                            *)
(* acts is the C stack: blocks being parsed or run and flags statements being *)
(* matched.  What a block contains is chosen as it is parsed, one statement   *)
(* after the other.  Values and the variables that hold them are left out.    *)
EXTENDS Integers, Sequences, FiniteSetsExt

CONSTANTS
  Word,        \* texts of arguments
  NameOf,      \* the part of each word before '='
  Letters,     \* single-letter flags a word combines ("-vq"), else <<>>
  Path,        \* the text of argv[0] and argv[1], which flags never read
  Arguments,   \* lists of arguments scripts are started with
  Statement,   \* flags and execute statements a block may contain
  MaxMode,     \* MAX_FLAGS_MODES - 1 (globals.h)
  MaxBlock,    \* bound: statements in a block
  MaxActs      \* bound: height of the stack

FlagSpec == [names : SUBSET Word, typed : BOOLEAN, body : BOOLEAN, catch_all : BOOLEAN]

ASSUME WordsAssumption ==
  /\ Path \in Word
  /\ NameOf \in [Word -> Word]
  /\ DOMAIN Letters = Word
  /\ \A w \in Word : Letters[w] \in Seq(Word)
  /\ \A args \in Arguments : args \in Seq(Word)

\* What parse_flags accepts: at most one spec without a name, and only in the
\* modes that number arguments.
ASSUME StatementAssumption ==
  \A st \in Statement :
    \/ st.type = "execute" /\ st.args \in Arguments
    \/ /\ st.type = "flags"
       /\ st.mode \in 0..MaxMode
       /\ st.specs \in Seq(FlagSpec)
       /\ Cardinality({s \in DOMAIN st.specs :
                         st.specs[s].names = {} /\ ~st.specs[s].catch_all})
            <= (IF st.mode = 0 THEN 0 ELSE 1)

ASSUME BoundsAssumption == MaxMode \in Nat /\ MaxBlock \in Nat /\ MaxActs \in Nat

VARIABLES
  acts,             \* blocks and flags statements in progress, innermost last
  script_argv,      \* arguments in force, the interpreter or script first
  flags_arg_index,  \* the next argument of the modes that number them
  defined           \* modes set in defined_flags_modes

vars == <<acts, script_argv, flags_arg_index, defined>>

----------------------------------------------------------------------------
(* Records of the stack.                                                      *)

argc == Len(script_argv)
Arg(i) == script_argv[i + 1]
top == acts[Len(acts)]
Top(a) == [acts EXCEPT ![Len(acts)] = a]
Pop == SubSeq(acts, 1, Len(acts) - 1)

\* A script starts: takes lists the arguments its numbered flags took; lost
\* and tangled say that an error skipped the end of a script it executed, and
\* that its numbered flags statements were nested or broken off.
Script(owner, argv, first) ==
  [kind |-> "block", owner |-> owner, phase |-> "parse", todo |-> <<>>,
   guarded |-> FALSE, saved |-> <<script_argv, flags_arg_index>>,
   own |-> argv, first |-> first, takes |-> <<>>, lost |-> FALSE, tangled |-> FALSE]

\* exec_flag_spec_impl parses the body each time it runs it.
Body == [Script("body", <<>>, 0) EXCEPT !.saved = <<>>]

Running(stack, spec) == IF spec.body THEN Append(stack, Body) ELSE stack

Scripts == {i \in DOMAIN acts : acts[i].kind = "block" /\ acts[i].owner # "body"}
Flags == {i \in DOMAIN acts : acts[i].kind = "flags"}
ScriptOf(i) == Max({j \in Scripts : j <= i})
InScript(i) == acts[ScriptOf(i)]

Parsing == acts # <<>> /\ top.kind = "block" /\ top.phase = "parse"
AtStatement(type) ==
  /\ acts # <<>> /\ top.kind = "block" /\ top.phase = "run"
  /\ top.todo # <<>> /\ Head(top.todo).type = type
Matching(numbered) ==
  /\ acts # <<>> /\ top.kind = "flags" /\ top.phase = "match"
  /\ (top.mode > 0) = numbered

Init ==
  \E args \in Arguments :
    /\ script_argv = <<Path, Path>> \o args
    /\ flags_arg_index = 2
    /\ defined = {}
    /\ acts = <<[kind |-> "block", owner |-> "main", phase |-> "parse",
                 todo |-> <<>>, guarded |-> FALSE, saved |-> <<>>,
                 own |-> <<Path, Path>> \o args, first |-> 2, takes |-> <<>>,
                 lost |-> FALSE, tangled |-> FALSE]>>

----------------------------------------------------------------------------
(* Errors.  A longjmp drops the records above the block whose statement is in *)
(* a try, and with them the ends of the scripts that execute started.         *)

Guarded == {i \in 1..Len(acts) - 1 : acts[i].kind = "block" /\ acts[i].guarded}

Land(i) ==
  LET j == ScriptOf(i) IN
  [k \in 1..i |->
     [acts[k] EXCEPT
        !.guarded = IF k = i THEN FALSE ELSE @,
        !.lost = @ \/ (k = j /\ \E s \in Scripts : s > i),
        !.tangled = @ \/ (k = j /\ \E f \in Flags : f > i)]]

Raise ==
  /\ acts' = IF Guarded = {} THEN <<>> ELSE Land(Max(Guarded))
  /\ UNCHANGED <<script_argv, flags_arg_index>>

\* A file that cannot be opened, a text that is not a script, a statement that
\* fails; a variable of a flag that may not be defined, or no memory.
Fail ==
  /\ acts # <<>>
  /\ top.kind = "flags" => top.phase = "match"
  /\ Raise
  /\ UNCHANGED defined

----------------------------------------------------------------------------
(* Parsing.  defined_flags_modes belongs to the process, not to the script.   *)

ModeRefused(mode) ==
  \/ mode > 1 /\ mode - 1 \notin defined
  \/ mode \in defined

Define(mode) == defined \union ({mode} \ {0})

\* parse_flags takes the mode before it reads the specs, which may be wrong.
ParseStatement(st) ==
  /\ Parsing
  /\ Len(top.todo) < MaxBlock /\ Len(acts) + 2 <= MaxActs
  /\ \/ /\ st.type = "flags" => ~ModeRefused(st.mode)
        /\ acts' = Top([top EXCEPT !.todo = Append(@, st)])
        /\ defined' = IF st.type = "flags" THEN Define(st.mode) ELSE defined
        /\ UNCHANGED <<script_argv, flags_arg_index>>
     \/ /\ st.type = "flags" /\ ~ModeRefused(st.mode)
        /\ defined' = Define(st.mode)
        /\ Raise
     \/ /\ st.type = "flags" /\ ModeRefused(st.mode)
        /\ UNCHANGED defined
        /\ Raise

ParseEnd ==
  /\ Parsing
  /\ acts' = Top([top EXCEPT !.phase = "run"])
  /\ UNCHANGED <<script_argv, flags_arg_index, defined>>

----------------------------------------------------------------------------
(* Scripts.                                                                   *)

\* The arguments are replaced before the file is opened.
Execute(inTry) ==
  /\ AtStatement("execute")
  /\ script_argv' = <<Path>> \o Head(top.todo).args
  /\ acts' = Append(Top([top EXCEPT !.todo = Tail(@), !.guarded = inTry]),
                    Script("execute", script_argv', 1))
  /\ flags_arg_index' = 1
  /\ UNCHANGED defined

\* Mutant: an executed script's end leaves its arguments in force.
BlockEnd_unrestored ==
  /\ acts # <<>> /\ top.kind = "block" /\ top.phase = "run" /\ top.todo = <<>>
  /\ acts' = Pop
  /\ UNCHANGED <<script_argv, flags_arg_index, defined>>

BlockEnd ==
  /\ acts # <<>> /\ top.kind = "block" /\ top.phase = "run" /\ top.todo = <<>>
  /\ acts' = Pop
  /\ IF top.owner = "execute"
       THEN /\ script_argv' = top.saved[1]
            /\ flags_arg_index' = top.saved[2]
       ELSE UNCHANGED <<script_argv, flags_arg_index>>
  /\ UNCHANGED defined

----------------------------------------------------------------------------
(* exec_flags.                                                                *)

\* Mutant: handled has an entry for each argument but the first two.
HandledSize_short == argc - 2

\* handled is allocated once, for the arguments in force.
HandledSize == argc

\* The statement reads the cursor as it starts; an enclosing one that numbers
\* arguments too has not written its own yet.
FlagsStart(inTry) ==
  /\ AtStatement("flags")
  /\ LET st == Head(top.todo)
         here == [Top([top EXCEPT !.todo = Tail(@), !.guarded = inTry]) EXCEPT
                    ![ScriptOf(Len(acts))].tangled =
                        @ \/ /\ st.mode > 0
                             /\ \E f \in Flags : f > ScriptOf(Len(acts))
                                                 /\ acts[f].mode > 0]
     IN acts' = Append(here,
          [kind |-> "flags", phase |-> "match", mode |-> st.mode,
           specs |-> st.specs, s |-> 1, a |-> 2, letters |-> <<>>,
           arg_idx |-> flags_arg_index, size |-> HandledSize, handled |-> {},
           dealt |-> <<>>, guarded |-> FALSE, lost |-> FALSE, tangled |-> FALSE])
  /\ UNCHANGED <<script_argv, flags_arg_index, defined>>

CatchAlls == {s \in DOMAIN top.specs : top.specs[s].catch_all}
CatchAll == top.specs[Min(CatchAlls)]

\* The specs one of whose names is w.
Named(w) == {s \in DOMAIN top.specs :
               ~top.specs[s].catch_all /\ w \in top.specs[s].names}

\* dealt is a history of the arguments handed to a spec.
Deal(list) == [top EXCEPT !.dealt = @ \o list,
                          !.handled = @ \union {list[i] : i \in DOMAIN list}]

\* Modes above 0: each spec takes the next argument, whatever it is named.
Positional ==
  /\ Matching(TRUE)
  /\ top.s <= Len(top.specs)
  /\ LET spec == top.specs[top.s]
         next == [top EXCEPT !.s = @ + 1]
     IN IF spec.catch_all \/ top.arg_idx >= argc
          THEN acts' = Top(next)
          ELSE acts' = Running(
                 [Top([Deal(<<top.arg_idx>>) EXCEPT !.s = @ + 1, !.arg_idx = @ + 1])
                    EXCEPT ![ScriptOf(Len(acts))].takes = Append(@, top.arg_idx)],
                 spec)
  /\ UNCHANGED <<script_argv, flags_arg_index, defined>>

\* Mutant: the cursor stays where the statement began.
PositionalEnd_uncommitted ==
  /\ Matching(TRUE)
  /\ top.s > Len(top.specs)
  /\ acts' = Top([top EXCEPT !.phase = "rest"])
  /\ UNCHANGED <<script_argv, flags_arg_index, defined>>

PositionalEnd ==
  /\ Matching(TRUE)
  /\ top.s > Len(top.specs)
  /\ flags_arg_index' = top.arg_idx
  /\ acts' = Top([top EXCEPT !.phase = "rest"])
  /\ UNCHANGED <<script_argv, defined>>

\* Mutant: the catch-all does not look at handled.
Rest_unhandled ==
  /\ acts # <<>> /\ top.kind = "flags" /\ top.phase = "rest"
  /\ CatchAlls # {} /\ top.a < argc
  /\ acts' = Running(Top([Deal(<<top.a>>) EXCEPT !.a = @ + 1]), CatchAll)
  /\ UNCHANGED <<script_argv, flags_arg_index, defined>>

\* The catch-all gets the arguments this statement has not handled.
Rest ==
  /\ acts # <<>> /\ top.kind = "flags" /\ top.phase = "rest"
  /\ CatchAlls # {} /\ top.a < argc
  /\ acts' = IF top.a \in top.handled
               THEN Top([top EXCEPT !.a = @ + 1])
               ELSE Running(Top([Deal(<<top.a>>) EXCEPT !.a = @ + 1]), CatchAll)
  /\ UNCHANGED <<script_argv, flags_arg_index, defined>>

\* Mode 0: each argument goes to the first spec with its name; one with a type
\* takes the next argument too unless the value follows a '='.
NamedFlag ==
  /\ Matching(FALSE) /\ top.letters = <<>> /\ top.a < argc
  /\ LET w == Arg(top.a)
         spec == top.specs[Min(Named(NameOf[w]))]
         apart == spec.typed /\ NameOf[w] = w
     IN /\ Named(NameOf[w]) # {}
        /\ IF apart /\ top.a + 1 >= argc
             THEN Raise
             ELSE /\ acts' = IF apart
                       THEN Running(Top([Deal(<<top.a, top.a + 1>>) EXCEPT !.a = @ + 2]), spec)
                       ELSE Running(Top([Deal(<<top.a>>) EXCEPT !.a = @ + 1]), spec)
                  /\ UNCHANGED <<script_argv, flags_arg_index>>
  /\ UNCHANGED defined

\* An argument no spec has the name of: its letters, the catch-all, or nobody.
OtherArgument ==
  /\ Matching(FALSE) /\ top.letters = <<>> /\ top.a < argc
  /\ LET w == NameOf[Arg(top.a)] IN
     /\ Named(w) = {}
     /\ acts' = IF Letters[w] # <<>>
          THEN Top([Deal(<<top.a>>) EXCEPT !.a = @ + 1, !.letters = Letters[w]])
          ELSE IF CatchAlls # {}
                 THEN Running(Top([Deal(<<top.a>>) EXCEPT !.a = @ + 1]), CatchAll)
                 ELSE Top([top EXCEPT !.a = @ + 1])
  /\ UNCHANGED <<script_argv, flags_arg_index, defined>>

\* A letter runs the body of its spec, without a value.
Letter ==
  /\ Matching(FALSE) /\ top.letters # <<>>
  /\ LET left == Top([top EXCEPT !.letters = Tail(@)])
         specs == Named(Head(top.letters))
     IN acts' = IF specs # {} THEN Running(left, top.specs[Min(specs)])
                ELSE IF CatchAlls # {} THEN Running(left, CatchAll) ELSE left
  /\ UNCHANGED <<script_argv, flags_arg_index, defined>>

FlagsDone(f) ==
  \/ f.phase = "rest" /\ ((\A s \in DOMAIN f.specs : ~f.specs[s].catch_all) \/ f.a >= argc)
  \/ f.phase = "match" /\ f.mode = 0 /\ f.letters = <<>> /\ f.a >= argc

FlagsEnd ==
  /\ acts # <<>> /\ top.kind = "flags" /\ FlagsDone(top)
  /\ acts' = Pop
  /\ UNCHANGED <<script_argv, flags_arg_index, defined>>

Matches == Positional \/ PositionalEnd \/ Rest \/ NamedFlag \/ OtherArgument \/ Letter

Next ==
  \/ \E st \in Statement : ParseStatement(st)
  \/ ParseEnd
  \/ \E inTry \in BOOLEAN : Execute(inTry) \/ FlagsStart(inTry)
  \/ Matches
  \/ FlagsEnd
  \/ BlockEnd
  \/ Fail

Spec == Init /\ [][Next]_vars

----------------------------------------------------------------------------
(* Properties.                                                                *)

\* The arguments in force are those of the innermost script (execute saves and
\* restores them, eval_stmt.c:1147-1202), unless an error has skipped the end
\* of a script that one executed.
ArgumentsOwn ==
  acts # <<>> => LET script == InScript(Len(acts)) IN
                 script.lost \/ script.own = script_argv

\* The statements of a script that number its arguments take each of them once
\* and in order, across statements, executed scripts and bodies, unless they
\* are nested in each other, or broken off by an error that is caught: the
\* cursor is read when a statement starts and written when it ends
\* (eval_flag.c:99 and 147).
TakenInOrder ==
  \A i \in Scripts :
    LET script == acts[i] IN
    script.lost \/ script.tangled
      \/ script.takes = [k \in 1..Len(script.takes) |-> script.first + k - 1]

\* handled is allocated for the arguments the statement starts with, and the
\* loops go by script_argc as it is at each turn (eval_flag.c:82 and 150): no
\* index is out of its bounds unless the arguments got lost in between.
HandledFits ==
  \A i \in Flags :
    InScript(i).lost \/ \A a \in acts[i].handled : a < acts[i].size

\* A statement hands no argument out twice, be it as a flag, as the value of
\* one or to the catch-all, and one with a catch-all hands out all of them but
\* the first two, unless an error changed the arguments meanwhile.
DealtOnce ==
  \A i \in Flags :
    LET f == acts[i] IN
    \/ InScript(i).lost
    \/ /\ \A j, k \in DOMAIN f.dealt : f.dealt[j] = f.dealt[k] => j = k
       /\ (/\ i = Len(acts) /\ FlagsDone(f)
           /\ \E s \in DOMAIN f.specs : f.specs[s].catch_all)
            => 2..argc - 1 \subseteq f.handled
=============================================================================
