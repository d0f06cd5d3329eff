---------------------------- MODULE FlagsProofs ----------------------------
(***************************************************************************)
(* Proofs about Flags: whatever flags statements, bodies and executed       *)
(* scripts a stack holds, the arguments in force are those of the innermost *)
(* script, a statement stays inside what it allocated and hands nothing out *)
(* twice, and the numbered statements of a script take its arguments in     *)
(* order; all but the last unless an error skipped the end of a script,     *)
(* the last also unless numbered statements were nested or broken off.      *)
(***************************************************************************)
EXTENDS Flags, FiniteSetTheorems, SequenceTheorems, TLAPS

(* The records of the stack.                                                *)
Block ==
  [kind : {"block"}, owner : {"main", "execute", "body"},
   phase : {"parse", "run"}, todo : Seq(Statement), guarded : BOOLEAN,
   saved : {<<>>} \cup (Seq(Word) \X Nat), own : Seq(Word), first : Nat,
   takes : Seq(Nat), lost : BOOLEAN, tangled : BOOLEAN]

Matcher ==
  [kind : {"flags"}, phase : {"match", "rest"}, mode : 0..MaxMode,
   specs : Seq(FlagSpec), s : Nat, a : Nat, letters : Seq(Word),
   arg_idx : Nat, size : Nat, handled : SUBSET Nat, dealt : Seq(Nat),
   guarded : BOOLEAN, lost : BOOLEAN, tangled : BOOLEAN]

height == Len(acts)

(* The stack as the properties see it.                                      *)
IsScript(r) == r.kind = "block" /\ r.owner # "body"

Types ==
  /\ acts \in Seq(Block \cup Matcher)
  /\ script_argv \in Seq(Word) /\ flags_arg_index \in Nat
  /\ acts # <<>> => acts[1].kind = "block" /\ acts[1].owner = "main"
  /\ \A i \in 2..height :
       acts[i].kind = "block" /\ acts[i].owner # "body" =>
         acts[i].owner = "execute" /\ acts[i].saved \in Seq(Word) \X Nat

LEMMA InitTypes == Init => Types
<1> SUFFICES ASSUME Init PROVE Types
  OBVIOUS
<1>1. PICK args \in Arguments :
        /\ script_argv = <<Path, Path>> \o args
        /\ flags_arg_index = 2
        /\ acts = <<[kind |-> "block", owner |-> "main", phase |-> "parse",
                     todo |-> <<>>, guarded |-> FALSE, saved |-> <<>>,
                     own |-> <<Path, Path>> \o args, first |-> 2,
                     takes |-> <<>>, lost |-> FALSE, tangled |-> FALSE]>>
  BY DEF Init
<1>2. script_argv \in Seq(Word)
  BY <1>1, WordsAssumption
<1>3. acts[1] \in Block /\ height = 1
  BY <1>1, <1>2 DEF Block, height
<1> QED  BY <1>1, <1>2, <1>3 DEF Types

(* The greatest element of a set of naturals that has one.                  *)
LEMMA MaxIs ==
  ASSUME NEW S, S \subseteq Nat, NEW m \in S, \A i \in S : i <= m
  PROVE  Max(S) = m
<1>1. \E x \in S : \A i \in S : x >= i
  BY \A i \in S : m >= i
<1>2. Max(S) \in S /\ \A i \in S : Max(S) >= i
  BY <1>1 DEF Max
<1>3. \A x \in S : x >= m => x = m
  OBVIOUS
<1> QED  BY <1>2, <1>3

(* A bounded set of naturals has a greatest element.                        *)
LEMMA Greatest ==
  ASSUME NEW n \in Nat, NEW S, S \subseteq 0..n, S # {}
  PROVE  \E m \in S : \A i \in S : i <= m
<1> DEFINE Above(m) == (m + 1)..n
           T == {Above(m) : m \in S}
           R == StrictSubsetOrdering(0..n)
<1>1. T \subseteq FiniteSubsetsOf(0..n) /\ T # {}
  <2>1. \A m \in S : Above(m) \subseteq 0..n /\ IsFiniteSet(Above(m))
    BY FS_Interval
  <2> QED  BY <2>1 DEF FiniteSubsetsOf
<1>2. IsWellFoundedOn(R, FiniteSubsetsOf(0..n))
  BY FS_StrictSubsetOrderingWellFounded
<1>3. PICK x \in T : \A y \in T : ~(<<y, x>> \in R)
  <2> HIDE DEF T, R
  <2> QED  BY <1>1, <1>2, WFMin
<1>4. PICK m \in S : x = Above(m)
  OBVIOUS
<1> SUFFICES ASSUME NEW i \in S, i > m PROVE FALSE
  OBVIOUS
<1>5. /\ Above(i) \subseteq Above(m) /\ Above(m) \subseteq 0..n
      /\ i \in Above(m) /\ i \notin Above(i)
  OBVIOUS
<1>6. <<Above(i), Above(m)>> \in R
  <2> HIDE DEF Above
  <2> QED  BY <1>5 DEF StrictSubsetOrdering
<1>7. Above(i) \in T
  OBVIOUS
<1> HIDE DEF T, R, Above
<1> QED  BY <1>3, <1>4, <1>6, <1>7

(* The script a record belongs to.                                          *)
LEMMA ScriptAt ==
  ASSUME Types, NEW i \in 1..height
  PROVE  /\ ScriptOf(i) \in Scripts /\ ScriptOf(i) \in 1..i
         /\ \A k \in Scripts : k <= i => k <= ScriptOf(i)
         /\ acts[ScriptOf(i)] \in Block /\ IsScript(acts[ScriptOf(i)])
<1> DEFINE S == {j \in Scripts : j <= i}
<1>1. acts \in Seq(Block \cup Matcher) /\ height = Len(acts) /\ i \in Nat
  BY DEF Types, height
<1>2. S \subseteq 1..i /\ 1 \in S
  BY <1>1 DEF Types, Scripts
<1>3. PICK m \in S : \A k \in S : k <= m
  <2>1. S \subseteq 0..i
    BY <1>2
  <2> HIDE DEF S
  <2> QED  BY <1>1, <1>2, <2>1, Greatest
<1>4. ScriptOf(i) = m
  <2>1. S \subseteq Nat
    BY <1>2
  <2>2. Max(S) = m
    <3> HIDE DEF S
    <3> QED  BY <1>3, <2>1, MaxIs
  <2> QED  BY <2>2 DEF ScriptOf
<1>5. m \in Scripts /\ m \in 1..i /\ \A k \in Scripts : k <= i => k <= m
  BY <1>2, <1>3
<1>6. acts[m] \in Block /\ IsScript(acts[m])
  <2>1. acts[m] \in Block \cup Matcher /\ acts[m].kind = "block"
        /\ acts[m].owner # "body"
    BY <1>1, <1>5 DEF Scripts
  <2> QED  BY <2>1 DEF Matcher, IsScript
<1> QED  BY <1>4, <1>5, <1>6

-----------------------------------------------------------------------------
(* The steps, by what they do to the stack: a block goes on, a flags        *)
(* statement starts or goes on (and may run a body), a script is executed,  *)
(* a record ends, or an error cuts the stack.                               *)

Same(a, b) ==
  /\ a.kind = b.kind
  /\ a.kind = "block" =>
       /\ a.owner = b.owner /\ a.own = b.own /\ a.saved = b.saved
       /\ a.first = b.first /\ a.lost = b.lost

Counts(a, b) == a.takes = b.takes /\ a.tangled = b.tangled

(* The top record becomes g, and the script it is in, and no other, may     *)
(* count something; a record of no script may come on top.                  *)
Grows(g) ==
  /\ height > 0 /\ height' \in {height, height + 1}
  /\ acts' \in Seq(Block \cup Matcher)
  /\ acts'[height] = g
  /\ \A i \in 1..height : Same(acts[i], acts'[i])
  /\ \A i \in 1..(height - 1) : acts[i].kind = "flags" => acts'[i] = acts[i]
  /\ \A i \in Scripts : i # ScriptOf(height) => Counts(acts[i], acts'[i])
  /\ height' = height + 1 => ~IsScript(acts'[height + 1])
  /\ script_argv' = script_argv

(* No script counts anything, and no numbered statement starts or ends.     *)
Quiet ==
  /\ \A i \in Scripts : Counts(acts[i], acts'[i])
  /\ flags_arg_index' = flags_arg_index
  /\ height' = height + 1 /\ acts'[height + 1].kind = "flags" =>
       acts'[height + 1].mode = 0
  /\ top.kind = "flags" =>
       /\ acts'[height].mode = top.mode
       /\ top.mode > 0 => /\ acts'[height].phase = top.phase
                          /\ acts'[height].arg_idx = top.arg_idx

(* A block goes on.                                                         *)
BlockTurns(g) ==
  /\ top.kind = "block" /\ g \in Block /\ Same(top, g) /\ Counts(top, g)
  /\ acts' = Top(g) /\ height > 0
  /\ UNCHANGED <<script_argv, flags_arg_index>>

(* A flags statement goes on to g, and runs the body of a spec.             *)
Turns(g) ==
  /\ height > 0 /\ top.kind = "flags" /\ g \in Matcher
  /\ acts' \in {Top(g), Append(Top(g), Body)}
  /\ script_argv' = script_argv

LEMMA TopTypes ==
  ASSUME Types, acts # <<>>
  PROVE  /\ height \in Nat /\ height > 0 /\ height = Len(acts)
         /\ top = acts[height] /\ top \in Block \cup Matcher
         /\ top.kind = "block" => top \in Block
         /\ top.kind = "flags" => top \in Matcher
<1>1. height \in Nat /\ height > 0 /\ height = Len(acts) /\ top = acts[height]
  BY DEF Types, height, top
<1>2. top \in Block \cup Matcher
  BY <1>1 DEF Types
<1> QED  BY <1>1, <1>2 DEF Block, Matcher

LEMMA BodyType == Body \in Block /\ Body.owner = "body" /\ Body.kind = "block"
<1>1. <<>> \in Seq(Word) /\ <<>> \in Seq(Statement) /\ <<>> \in Seq(Nat)
  OBVIOUS
<1> DEFINE f == Script("body", <<>>, 0)
<1>2. f = [kind |-> "block", owner |-> "body", phase |-> "parse",
           todo |-> <<>>, guarded |-> FALSE,
           saved |-> <<script_argv, flags_arg_index>>, own |-> <<>>,
           first |-> 0, takes |-> <<>>, lost |-> FALSE, tangled |-> FALSE]
  BY DEF Script
<1>3. Body = [f EXCEPT !.saved = <<>>]
  BY DEF Body
<1> HIDE DEF f
<1> QED  BY <1>1, <1>2, <1>3 DEF Block

LEMMA BlockGrows ==
  ASSUME Types, NEW g, BlockTurns(g)
  PROVE  Grows(g) /\ Quiet /\ height' = height
<1>1. height \in Nat /\ height > 0 /\ top = acts[height] /\ top \in Block
      /\ acts \in Seq(Block \cup Matcher) /\ height = Len(acts)
  BY TopTypes DEF BlockTurns, height, Types
<1>2. /\ acts' \in Seq(Block \cup Matcher) /\ height' = height
      /\ acts'[height] = g /\ \A i \in 1..(height - 1) : acts'[i] = acts[i]
  BY <1>1 DEF BlockTurns, Top, height
<1>3. Same(top, g) /\ Counts(top, g)
  BY DEF BlockTurns
<1>4. Scripts \subseteq 1..height
  BY <1>1 DEF Scripts
<1>5. \A i \in 1..height : Same(acts[i], acts'[i]) /\ Counts(acts[i], acts'[i])
  BY <1>1, <1>2, <1>3 DEF Same, Counts
<1>6. Grows(g)
  BY <1>1, <1>2, <1>4, <1>5 DEF Grows, BlockTurns
<1>7. Quiet
  BY <1>1, <1>2, <1>4, <1>5 DEF Quiet, BlockTurns
<1> QED  BY <1>2, <1>6, <1>7

LEMMA TurnGrows ==
  ASSUME Types, NEW g, Turns(g)
  PROVE  /\ Grows(g) /\ \A i \in Scripts : Counts(acts[i], acts'[i])
         /\ height' = height + 1 => acts'[height + 1] = Body
<1>1. height \in Nat /\ height > 0 /\ top = acts[height] /\ top \in Matcher
      /\ acts \in Seq(Block \cup Matcher) /\ height = Len(acts)
  BY TopTypes DEF Turns, height, Types
<1>2. PICK A \in Seq(Block \cup Matcher) :
        /\ A = Top(g) /\ Len(A) = height /\ A[height] = g
        /\ \A i \in 1..(height - 1) : A[i] = acts[i]
  <2> DEFINE A == [acts EXCEPT ![height] = g]
  <2>1. A = Top(g)
    BY <1>1 DEF Top
  <2>2. g \in Block \cup Matcher
    BY DEF Turns
  <2>3. /\ A \in Seq(Block \cup Matcher) /\ Len(A) = height /\ A[height] = g
        /\ \A i \in 1..(height - 1) : A[i] = acts[i]
    BY <1>1, <2>2
  <2> QED  BY <2>1, <2>3
<1>3. Body \in Block /\ ~IsScript(Body)
  BY BodyType DEF IsScript
<1>4. /\ acts' \in Seq(Block \cup Matcher) /\ height' \in {height, height + 1}
      /\ \A i \in 1..height : acts'[i] = A[i]
      /\ height' = height + 1 => acts'[height + 1] = Body
  <2>1. acts' = A \/ acts' = Append(A, Body)
    BY <1>2 DEF Turns
  <2> QED  BY <1>1, <1>2, <1>3, <2>1 DEF height
<1>5. \A i \in 1..(height - 1) : acts'[i] = acts[i]
  BY <1>1, <1>2, <1>4
<1>6. acts'[height] = g /\ Same(top, g)
  <2>1. g.kind = "flags"
    BY DEF Turns, Matcher
  <2> QED  BY <1>1, <1>2, <1>4, <2>1 DEF Turns, Same
<1>7. \A i \in Scripts : i \in 1..(height - 1)
  BY <1>1 DEF Scripts, Matcher
<1>8. \A i \in 1..height : Same(acts[i], acts'[i])
  BY <1>1, <1>5, <1>6 DEF Same
<1>9. \A i \in Scripts : Counts(acts[i], acts'[i])
  BY <1>5, <1>7 DEF Counts
<1> QED
  BY <1>1, <1>3, <1>4, <1>5, <1>6, <1>8, <1>9 DEF Grows, Turns

-----------------------------------------------------------------------------
(* What a flags statement has handed out.                                   *)

Catches(f) == \E s \in DOMAIN f.specs : f.specs[s].catch_all

(* Everything once; without numbers, everything before a if somebody takes  *)
(* it; with numbers, the arguments before the next one, and then those      *)
(* before a.                                                                *)
Once(f) ==
  /\ \A j \in DOMAIN f.dealt : f.dealt[j] \in f.handled
  /\ \A j, k \in DOMAIN f.dealt : f.dealt[j] = f.dealt[k] => j = k

Reach(f) ==
  /\ f.a >= 2
  /\ f.mode = 0 =>
       /\ f.phase = "match"
       /\ \A x \in f.handled : x < f.a
       /\ Catches(f) => \A x \in 2..(f.a - 1) : x \in f.handled
  /\ f.mode > 0 /\ f.phase = "match" =>
       f.a = 2 /\ \A x \in f.handled : x < f.arg_idx
  /\ f.mode > 0 /\ f.phase = "rest" => \A x \in 2..(f.a - 1) : x \in f.handled

Serves(f) == Once(f) /\ Reach(f)

Hands(f, g, list) ==
  /\ g.dealt = f.dealt \o list
  /\ g.handled = f.handled \cup {list[i] : i \in DOMAIN list}

LEMMA OnceMore ==
  ASSUME NEW f \in Matcher, NEW g, NEW list \in Seq(Nat), Hands(f, g, list),
         Once(f),
         \A i \in DOMAIN list : list[i] \notin f.handled,
         \A i, j \in DOMAIN list : list[i] = list[j] => i = j
  PROVE  Once(g)
<1>1. f.dealt \in Seq(Nat)
  BY DEF Matcher
<1>2. PICK d \in Seq(Nat) : d = f.dealt
  BY <1>1
<1>3. PICK e \in Seq(Nat) :
        /\ e = g.dealt
        /\ Len(e) = Len(d) + Len(list)
        /\ \A i \in 1..(Len(d) + Len(list)) :
             e[i] = IF i <= Len(d) THEN d[i] ELSE list[i - Len(d)]
  <2>1. d \o list = g.dealt
    BY <1>2 DEF Hands
  <2>2. /\ d \o list \in Seq(Nat) /\ Len(d \o list) = Len(d) + Len(list)
        /\ \A i \in 1..(Len(d) + Len(list)) :
             (d \o list)[i] = IF i <= Len(d) THEN d[i] ELSE list[i - Len(d)]
    BY ConcatProperties
  <2> QED  BY <2>1, <2>2
<1>4. /\ Len(d) \in Nat /\ Len(list) \in Nat
      /\ DOMAIN d = 1..Len(d) /\ DOMAIN e = 1..Len(e)
      /\ DOMAIN list = 1..Len(list)
      /\ \A i \in 1..Len(d) : i \in 1..Len(e) /\ e[i] = d[i]
      /\ \A i \in (Len(d) + 1)..Len(e) :
           e[i] = list[i - Len(d)] /\ i - Len(d) \in 1..Len(list)
  <2>1. /\ Len(d) \in Nat /\ Len(list) \in Nat
        /\ DOMAIN d = 1..Len(d) /\ DOMAIN e = 1..Len(e)
        /\ DOMAIN list = 1..Len(list)
    OBVIOUS
  <2>2. ASSUME NEW i \in 1..Len(d) PROVE i \in 1..Len(e) /\ e[i] = d[i]
    <3>1. i \in 1..(Len(d) + Len(list)) /\ i <= Len(d)
      BY <2>1
    <3> QED  BY <1>3, <3>1
  <2>3. ASSUME NEW i \in (Len(d) + 1)..Len(e)
        PROVE  e[i] = list[i - Len(d)] /\ i - Len(d) \in 1..Len(list)
    <3>1. /\ i \in 1..(Len(d) + Len(list)) /\ ~(i <= Len(d))
          /\ i - Len(d) \in 1..Len(list)
      BY <1>3, <2>1
    <3> QED  BY <1>3, <3>1
  <2> QED  BY <2>1, <2>2, <2>3
<1>5. \A i \in 1..Len(d) : e[i] \in f.handled
  BY <1>2, <1>4 DEF Once
<1>6. \A i \in (Len(d) + 1)..Len(e) : e[i] \notin f.handled
  BY <1>4
<1>7. \A i, j \in 1..Len(d) : e[i] = e[j] => i = j
  BY <1>2, <1>4 DEF Once
<1>8. ASSUME NEW i \in (Len(d) + 1)..Len(e), NEW j \in (Len(d) + 1)..Len(e),
             e[i] = e[j]
      PROVE  i = j
  <2>1. list[i - Len(d)] = list[j - Len(d)]
    BY <1>4, <1>8
  <2>2. i - Len(d) = j - Len(d)
    BY <1>4, <2>1
  <2> QED  BY <1>4, <2>2
<1>9. \A i \in 1..Len(e) : i \in 1..Len(d) \/ i \in (Len(d) + 1)..Len(e)
  BY <1>4
<1>10. \A i, j \in 1..Len(e) : e[i] = e[j] => i = j
  BY <1>5, <1>6, <1>7, <1>8, <1>9
<1>11. \A i \in 1..Len(e) : e[i] \in g.handled
  BY <1>4, <1>5, <1>9 DEF Hands
<1> QED  BY <1>3, <1>4, <1>10, <1>11 DEF Once

(* A statement goes from f to g, in a script with n arguments.              *)
Goes(f, g, n) ==
  /\ g \in Matcher /\ g.mode = f.mode /\ g.size = f.size
  /\ \A x \in g.handled : x \in f.handled \/ x < n
  /\ Serves(f) => Serves(g)

(* Only s, a, arg_idx, letters, dealt and handled change.                   *)
Gone(f, list, s, a, arg_idx, letters) ==
  [f EXCEPT !.s = s, !.a = a, !.arg_idx = arg_idx, !.letters = letters,
            !.dealt = f.dealt \o list,
            !.handled = f.handled \cup {list[i] : i \in DOMAIN list}]

Under(list, n) == \A i \in DOMAIN list : list[i] < n

(* It hands out what it has not, and the rest of what is said of it stays.  *)
Allowed(f, list, a, arg_idx) ==
  Once(f) /\ Reach(f) =>
    /\ \A i \in DOMAIN list : list[i] \notin f.handled
    /\ \A i, j \in DOMAIN list : list[i] = list[j] => i = j
    /\ \A g \in Matcher :
         /\ g.mode = f.mode /\ g.phase = f.phase /\ g.specs = f.specs
         /\ Hands(f, g, list) /\ g.a = a /\ g.arg_idx = arg_idx
         => Reach(g)

LEMMA GoesOn ==
  ASSUME NEW f \in Matcher, NEW n \in Nat,
         NEW list \in Seq(Nat), Under(list, n),
         NEW s \in Nat, NEW a \in Nat, NEW arg_idx \in Nat,
         NEW letters \in Seq(Word),
         Allowed(f, list, a, arg_idx)
  PROVE  /\ Goes(f, Gone(f, list, s, a, arg_idx, letters), n)
         /\ Gone(f, list, s, a, arg_idx, letters).phase = f.phase
         /\ Gone(f, list, s, a, arg_idx, letters).arg_idx = arg_idx
<1> DEFINE g == Gone(f, list, s, a, arg_idx, letters)
<1>0. g = Gone(f, list, s, a, arg_idx, letters)
  OBVIOUS
<1> HIDE DEF g
<1>1. /\ f.dealt \in Seq(Nat) /\ f.handled \in SUBSET Nat
      /\ \A i \in DOMAIN list : list[i] \in Nat
  <2>1. \A i \in DOMAIN list : list[i] \in Nat
    OBVIOUS
  <2> QED  BY <2>1 DEF Matcher
<1>2. PICK d \in Seq(Nat) : d = f.dealt \o list
  BY <1>1, ConcatProperties
<1>3. PICK h \in SUBSET Nat : h = f.handled \cup {list[i] : i \in DOMAIN list}
  BY <1>1
<1>4. /\ g \in Matcher /\ g.mode = f.mode /\ g.size = f.size
      /\ g.phase = f.phase /\ g.specs = f.specs
      /\ g.a = a /\ g.arg_idx = arg_idx /\ g.dealt = d /\ g.handled = h
  BY <1>0, <1>2, <1>3 DEF Matcher, Gone
<1>5. Hands(f, g, list)
  BY <1>2, <1>3, <1>4 DEF Hands
<1>6. ASSUME Serves(f) PROVE Serves(g)
  <2>1. Once(f) /\ Reach(f)
    BY <1>6 DEF Serves
  <2>2. Once(g)
    BY <1>5, <2>1, OnceMore DEF Allowed
  <2> QED  BY <1>4, <1>5, <2>1, <2>2 DEF Serves, Allowed
<1> QED  BY <1>0, <1>3, <1>4, <1>6 DEF Goes, Under

(* The records the actions write are of this form.                          *)
LEMMA GoneForms ==
  ASSUME top \in Matcher, NEW list, NEW letters, NEW k \in Nat
  PROVE  /\ [top EXCEPT !.s = @ + 1]
              = Gone(top, <<>>, top.s + 1, top.a, top.arg_idx, top.letters)
         /\ [top EXCEPT !.a = @ + 1]
              = Gone(top, <<>>, top.s, top.a + 1, top.arg_idx, top.letters)
         /\ [top EXCEPT !.letters = Tail(@)]
              = Gone(top, <<>>, top.s, top.a, top.arg_idx, Tail(top.letters))
         /\ [Deal(list) EXCEPT !.s = @ + 1, !.arg_idx = @ + 1]
              = Gone(top, list, top.s + 1, top.a, top.arg_idx + 1, top.letters)
         /\ [Deal(list) EXCEPT !.a = @ + k]
              = Gone(top, list, top.s, top.a + k, top.arg_idx, top.letters)
         /\ [Deal(list) EXCEPT !.a = @ + 1, !.letters = letters]
              = Gone(top, list, top.s, top.a + 1, top.arg_idx, letters)
<1>1. PICK f \in Matcher : f = top
  OBVIOUS
<1>2. f.dealt \o <<>> = f.dealt
  BY ConcatEmptySeq DEF Matcher
<1>3. f.handled \cup {<<>>[i] : i \in DOMAIN <<>>} = f.handled
  OBVIOUS
<1>4. /\ [f EXCEPT !.s = @ + 1] = Gone(f, <<>>, f.s + 1, f.a, f.arg_idx, f.letters)
      /\ [f EXCEPT !.a = @ + 1] = Gone(f, <<>>, f.s, f.a + 1, f.arg_idx, f.letters)
      /\ [f EXCEPT !.letters = Tail(@)]
           = Gone(f, <<>>, f.s, f.a, f.arg_idx, Tail(f.letters))
  BY <1>2, <1>3 DEF Gone, Matcher
<1>5. PICK d : d = f.dealt \o list
  OBVIOUS
<1>6. PICK h : h = f.handled \cup {list[i] : i \in DOMAIN list}
  OBVIOUS
<1>7. Deal(list) = [f EXCEPT !.dealt = d, !.handled = h]
  BY <1>1, <1>5, <1>6 DEF Deal
<1> DEFINE e == [f EXCEPT !.dealt = d, !.handled = h]
<1>8. [e EXCEPT !.s = @ + 1, !.arg_idx = @ + 1]
        = Gone(f, list, f.s + 1, f.a, f.arg_idx + 1, f.letters)
  <2>1. [e EXCEPT !.s = @ + 1, !.arg_idx = @ + 1]
          = [f EXCEPT !.s = f.s + 1, !.a = f.a, !.arg_idx = f.arg_idx + 1,
                      !.letters = f.letters, !.dealt = d, !.handled = h]
    BY DEF Matcher
  <2> QED  BY <1>5, <1>6, <2>1 DEF Gone
<1>9. [e EXCEPT !.a = @ + k]
         = Gone(f, list, f.s, f.a + k, f.arg_idx, f.letters)
  <2>1. [e EXCEPT !.a = @ + k]
          = [f EXCEPT !.s = f.s, !.a = f.a + k, !.arg_idx = f.arg_idx,
                      !.letters = f.letters, !.dealt = d, !.handled = h]
    BY DEF Matcher
  <2> QED  BY <1>5, <1>6, <2>1 DEF Gone
<1>10. [e EXCEPT !.a = @ + 1, !.letters = letters]
         = Gone(f, list, f.s, f.a + 1, f.arg_idx, letters)
  <2>1. [e EXCEPT !.a = @ + 1, !.letters = letters]
          = [f EXCEPT !.s = f.s, !.a = f.a + 1, !.arg_idx = f.arg_idx,
                      !.letters = letters, !.dealt = d, !.handled = h]
    BY DEF Matcher
  <2> QED  BY <1>5, <1>6, <2>1 DEF Gone
<1> HIDE DEF e
<1>11. Deal(list) = e
  BY <1>7 DEF e
<1> QED  BY <1>1, <1>4, <1>8, <1>9, <1>10, <1>11

(* A statement goes on: where it is does not change, nor does what is next  *)
(* for a numbered one.                                                      *)
Serving(g) ==
  /\ Turns(g) /\ Goes(top, g, argc) /\ g.phase = top.phase
  /\ top.mode > 0 => g.arg_idx = top.arg_idx
  /\ flags_arg_index' = flags_arg_index

(* It is enough to know what is dealt and how far the statement gets.       *)
LEMMA ServesOn ==
  ASSUME Types, acts # <<>>, top.kind = "flags",
         NEW list \in Seq(Nat), \A i \in DOMAIN list : list[i] < argc,
         NEW s \in Nat, NEW a \in Nat, NEW letters \in Seq(Word),
         Allowed(top, list, a, top.arg_idx),
         NEW g, g = Gone(top, list, s, a, top.arg_idx, letters),
         acts' \in {Top(g), Append(Top(g), Body)},
         UNCHANGED <<script_argv, flags_arg_index>>
  PROVE  Serving(g)
<1>1. top \in Matcher /\ height > 0 /\ argc \in Nat
  BY TopTypes DEF Types, argc
<1>2. PICK f \in Matcher, n \in Nat, arg_idx \in Nat :
        f = top /\ n = argc /\ arg_idx = top.arg_idx
  BY <1>1 DEF Matcher
<1>3. Goes(f, g, n) /\ g.phase = f.phase /\ g.arg_idx = arg_idx
  <2>1. Under(list, n)
    BY <1>2 DEF Under
  <2>2. Allowed(f, list, a, arg_idx) /\ g = Gone(f, list, s, a, arg_idx, letters)
    BY <1>2
  <2>3. /\ Goes(f, Gone(f, list, s, a, arg_idx, letters), n)
        /\ Gone(f, list, s, a, arg_idx, letters).phase = f.phase
        /\ Gone(f, list, s, a, arg_idx, letters).arg_idx = arg_idx
    BY <2>1, <2>2, GoesOn
  <2> QED  BY <2>2, <2>3
<1> QED  BY <1>1, <1>2, <1>3 DEF Serving, Turns, Goes

LEMMA RunningForms ==
  ASSUME NEW stack, NEW spec
  PROVE  Running(stack, spec) \in {stack, Append(stack, Body)}
BY DEF Running

LEMMA RestServes ==
  ASSUME Types, Rest
  PROVE  \E g : Serving(g)
<1>1. /\ acts # <<>> /\ top.kind = "flags" /\ top.phase = "rest"
      /\ Catches(top) /\ top.a < argc
      /\ UNCHANGED <<script_argv, flags_arg_index>>
  BY DEF Rest, CatchAlls, Catches
<1>2. PICK f \in Matcher : f = top
  BY <1>1, TopTypes
<1>3. /\ f.a \in Nat /\ f.a + 1 \in Nat /\ f.s \in Nat /\ f.letters \in Seq(Word)
      /\ argc \in Nat /\ f.mode \in Nat
  BY BoundsAssumption DEF Types, argc, Matcher
<1>4. CASE f.a \in f.handled
  <2> DEFINE g == [top EXCEPT !.a = @ + 1]
  <2>1. acts' = Top(g)
    BY <1>2, <1>4 DEF Rest
  <2>2. g = Gone(top, <<>>, top.s, top.a + 1, top.arg_idx, top.letters)
    BY <1>2, GoneForms
  <2> HIDE DEF g
  <2>3. ASSUME Reach(f), NEW h \in Matcher,
               h.mode = f.mode, h.phase = f.phase, h.specs = f.specs,
               Hands(f, h, <<>>), h.a = f.a + 1, h.arg_idx = f.arg_idx
        PROVE  Reach(h)
    <3>1. h.handled = f.handled
      BY <2>3 DEF Hands
    <3> QED  BY <1>1, <1>2, <1>3, <1>4, <2>3, <3>1 DEF Reach
  <2>4. <<>> \in Seq(Nat) /\ DOMAIN <<>> = {}
    OBVIOUS
  <2>5. Allowed(top, <<>>, top.a + 1, top.arg_idx)
    BY <1>2, <2>3, <2>4 DEF Allowed
  <2> QED  BY <1>1, <1>2, <1>3, <2>1, <2>2, <2>4, <2>5, ServesOn
<1>5. CASE f.a \notin f.handled
  <2> DEFINE g == [Deal(<<top.a>>) EXCEPT !.a = @ + 1]
  <2>1. acts' \in {Top(g), Append(Top(g), Body)}
    BY <1>2, <1>5, RunningForms DEF Rest
  <2>2. g = Gone(top, <<top.a>>, top.s, top.a + 1, top.arg_idx, top.letters)
    BY <1>2, GoneForms
  <2> HIDE DEF g
  <2>3. ASSUME Reach(f), NEW h \in Matcher,
               h.mode = f.mode, h.phase = f.phase, h.specs = f.specs,
               Hands(f, h, <<f.a>>), h.a = f.a + 1, h.arg_idx = f.arg_idx
        PROVE  Reach(h)
    <3>1. h.handled = f.handled \cup {f.a}
      BY <2>3 DEF Hands
    <3> QED  BY <1>1, <1>2, <1>3, <2>3, <3>1 DEF Reach
  <2>4. /\ <<f.a>> \in Seq(Nat)
        /\ \A i \in DOMAIN <<f.a>> : i = 1 /\ <<f.a>>[i] = f.a
    BY <1>3
  <2>5. /\ \A i \in DOMAIN <<f.a>> : <<f.a>>[i] < argc /\ <<f.a>>[i] \notin f.handled
        /\ \A i, j \in DOMAIN <<f.a>> : <<f.a>>[i] = <<f.a>>[j] => i = j
    BY <1>1, <1>2, <1>5, <2>4
  <2>6. Allowed(top, <<top.a>>, top.a + 1, top.arg_idx)
    BY <1>2, <2>3, <2>5 DEF Allowed
  <2> QED  BY <1>1, <1>2, <1>3, <2>1, <2>2, <2>4, <2>5, <2>6, ServesOn
<1> QED  BY <1>4, <1>5

(* The other turns of a statement, from the one record they start with.     *)
LEMMA Numbers ==
  ASSUME Types, acts # <<>>, top.kind = "flags"
  PROVE  /\ top \in Matcher /\ top.a \in Nat /\ top.s \in Nat /\ top.mode \in Nat
         /\ top.letters \in Seq(Word) /\ argc \in Nat /\ top.arg_idx \in Nat
         /\ top.a + 1 \in Nat /\ top.a + 2 \in Nat /\ top.s + 1 \in Nat
<1>1. top \in Matcher
  BY TopTypes
<1>2. /\ top.a \in Nat /\ top.s \in Nat /\ top.mode \in Nat /\ top.arg_idx \in Nat
      /\ top.letters \in Seq(Word)
  BY <1>1, BoundsAssumption DEF Matcher
<1>3. argc \in Nat
  <2>1. script_argv \in Seq(Word)
    BY DEF Types
  <2> QED  BY <2>1 DEF argc
<1> QED  BY <1>1, <1>2, <1>3

(* Nothing is handed out.                                                   *)
LEMMA HandsNothing ==
  ASSUME Types, acts # <<>>, top.kind = "flags",
         NEW s \in Nat, NEW letters \in Seq(Word), NEW a \in Nat,
         a = top.a \/ (a = top.a + 1 /\ top.mode = 0 /\ ~Catches(top)),
         NEW g, g = Gone(top, <<>>, s, a, top.arg_idx, letters),
         acts' \in {Top(g), Append(Top(g), Body)},
         UNCHANGED <<script_argv, flags_arg_index>>
  PROVE  Serving(g)
<1>1. PICK f \in Matcher : f = top /\ f.a \in Nat /\ f.mode \in Nat
  BY Numbers
<1>0. \A x \in f.handled : x \in Nat
  BY DEF Matcher
<1>2. ASSUME Reach(f), NEW h \in Matcher,
             h.mode = f.mode, h.phase = f.phase, h.specs = f.specs,
             Hands(f, h, <<>>), h.a = a, h.arg_idx = f.arg_idx
      PROVE  Reach(h)
  <2>1. h.handled = f.handled /\ (Catches(h) <=> Catches(f))
    BY <1>2 DEF Hands, Catches
  <2>2. CASE a = f.a
    <3>1. h.a = f.a /\ h.mode = f.mode /\ h.phase = f.phase /\ h.arg_idx = f.arg_idx
      BY <1>2, <2>2
    <3> QED  BY <1>2, <2>1, <3>1 DEF Reach
  <2>3. CASE a = f.a + 1 /\ f.mode = 0 /\ ~Catches(f)
    <3>1. h.a = f.a + 1 /\ h.mode = 0 /\ h.phase = f.phase /\ ~Catches(h)
      BY <1>2, <2>1, <2>3
    <3>2. \A x \in h.handled : x \in Nat /\ x < f.a
      BY <1>0, <1>2, <2>1, <2>3 DEF Reach
    <3>3. \A x \in h.handled : x < h.a
      BY <1>1, <3>1, <3>2
    <3>4. h.a >= 2 /\ h.phase = "match"
      BY <1>1, <1>2, <2>3, <3>1 DEF Reach
    <3> QED  BY <3>1, <3>3, <3>4 DEF Reach
  <2> QED  BY <1>1, <2>2, <2>3
<1>3. <<>> \in Seq(Nat) /\ DOMAIN <<>> = {}
  OBVIOUS
<1>4. Allowed(top, <<>>, a, top.arg_idx)
  BY <1>1, <1>2, <1>3 DEF Allowed
<1> QED  BY <1>3, <1>4, ServesOn

(* Without numbers: the next argument, or the next two, are handed out.     *)
LEMMA HandsNext ==
  ASSUME Types, acts # <<>>, top.kind = "flags", top.mode = 0,
         NEW letters \in Seq(Word), NEW k \in {1, 2}, top.a + k <= argc,
         NEW list, list = (IF k = 1 THEN <<top.a>> ELSE <<top.a, top.a + 1>>),
         NEW g, g = Gone(top, list, top.s, top.a + k, top.arg_idx, letters),
         acts' \in {Top(g), Append(Top(g), Body)},
         UNCHANGED <<script_argv, flags_arg_index>>
  PROVE  Serving(g)
<1>0. argc \in Nat /\ top.s \in Nat /\ top.a + k \in Nat
  BY Numbers
<1>1. PICK f \in Matcher : f = top /\ f.a \in Nat /\ f.mode = 0
  BY Numbers
<1>2. /\ list \in Seq(Nat) /\ DOMAIN list = 1..k
      /\ \A i \in 1..k : list[i] = f.a + i - 1
      /\ {list[i] : i \in 1..k} = f.a..(f.a + k - 1)
  <2>1. CASE k = 1
    <3>1. list = <<f.a>> /\ DOMAIN list = {1} /\ list[1] = f.a
      BY <1>1, <2>1
    <3>2. 1..k = {1} /\ f.a..(f.a + k - 1) = {f.a}
      BY <1>1, <2>1
    <3>3. {list[i] : i \in 1..k} = {f.a}
      BY <3>1, <3>2
    <3>4. \A i \in 1..k : i = 1
      BY <3>2
    <3>7. <<f.a>> \in Seq(Nat)
      BY <1>1
    <3>8. list \in Seq(Nat)
      BY <3>1, <3>7
    <3>5. list \in Seq(Nat) /\ DOMAIN list = 1..k
      BY <3>1, <3>2, <3>8
    <3>6. \A i \in 1..k : list[i] = f.a + i - 1
      BY <1>1, <3>1, <3>4
    <3> QED  BY <3>2, <3>3, <3>5, <3>6
  <2>2. CASE k = 2
    <3>1. list = <<f.a, f.a + 1>> /\ DOMAIN list = {1, 2}
          /\ list[1] = f.a /\ list[2] = f.a + 1
      BY <1>1, <2>2
    <3>2. 1..k = {1, 2} /\ f.a..(f.a + k - 1) = {f.a, f.a + 1}
      BY <1>1, <2>2
    <3>3. {list[i] : i \in 1..k} = {f.a, f.a + 1}
      <4>1. {list[i] : i \in 1..k} = {list[i] : i \in {1, 2}}
        BY <3>2
      <4>2. {list[i] : i \in {1, 2}} = {list[1], list[2]}
        OBVIOUS
      <4> QED  BY <3>1, <4>1, <4>2
    <3>4. \A i \in 1..k : i = 1 \/ i = 2
      BY <3>2
    <3>7. <<f.a, f.a + 1>> \in Seq(Nat)
      BY <1>1
    <3>8. list \in Seq(Nat)
      BY <3>1, <3>7
    <3>5. list \in Seq(Nat) /\ DOMAIN list = 1..k
      BY <3>1, <3>2, <3>8
    <3>6. \A i \in 1..k : list[i] = f.a + i - 1
      BY <1>1, <3>1, <3>4
    <3> QED  BY <3>2, <3>3, <3>5, <3>6
  <2> QED  BY <2>1, <2>2
<1>3. ASSUME Reach(f), NEW h \in Matcher,
             h.mode = f.mode, h.phase = f.phase, h.specs = f.specs,
             Hands(f, h, list), h.a = f.a + k, h.arg_idx = f.arg_idx
      PROVE  Reach(h)
  <2>1. h.handled = f.handled \cup f.a..(f.a + k - 1)
    BY <1>2, <1>3 DEF Hands
  <2>2. Catches(h) <=> Catches(f)
    BY <1>3 DEF Catches
  <2>3. PICK n \in Nat : n = f.a + k /\ n = h.a /\ n > f.a
    BY <1>1, <1>3
  <2>0. \A x \in f.handled : x \in Nat /\ x < f.a
    BY <1>1, <1>3 DEF Reach, Matcher
  <2>4. \A x \in h.handled : x < n
    BY <1>1, <2>0, <2>1, <2>3
  <2>5. ASSUME Catches(f), NEW x \in 2..(n - 1) PROVE x \in h.handled
    <3>1. \A y \in 2..(f.a - 1) : y \in f.handled
      BY <1>1, <1>3, <2>5 DEF Reach
    <3>2. x \in 2..(f.a - 1) \/ x \in f.a..(f.a + k - 1)
      BY <1>1, <2>3, <2>5
    <3> QED  BY <2>1, <3>1, <3>2
  <2>6. h.mode = 0 /\ h.phase = "match" /\ n >= 2
    BY <1>1, <1>3, <2>3 DEF Reach
  <2> QED  BY <2>2, <2>3, <2>4, <2>5, <2>6 DEF Reach
<1>4. Reach(f) => \A i \in DOMAIN list : list[i] \notin f.handled
  BY <1>1, <1>2 DEF Reach
<1>5. /\ \A i, j \in DOMAIN list : list[i] = list[j] => i = j
      /\ \A i \in DOMAIN list : list[i] < argc
  BY <1>0, <1>1, <1>2
<1>6. Allowed(top, list, top.a + k, top.arg_idx)
  BY <1>1, <1>3, <1>4, <1>5 DEF Allowed
<1> QED  BY <1>0, <1>2, <1>5, <1>6, ServesOn

LEMMA SkipServes ==
  ASSUME Types, Positional, top.specs[top.s].catch_all \/ top.arg_idx >= argc
  PROVE  \E g : Serving(g)
<1> DEFINE g == [top EXCEPT !.s = @ + 1]
<1>1. /\ acts # <<>> /\ top.kind = "flags" /\ acts' = Top(g)
      /\ UNCHANGED <<script_argv, flags_arg_index>>
  BY DEF Positional, Matching
<1>2. g = Gone(top, <<>>, top.s + 1, top.a, top.arg_idx, top.letters)
  BY <1>1, Numbers, GoneForms
<1> HIDE DEF g
<1> QED  BY <1>1, <1>2, Numbers, HandsNothing

LEMMA LetterServes ==
  ASSUME Types, Letter
  PROVE  \E g : Serving(g)
<1> DEFINE g == [top EXCEPT !.letters = Tail(@)]
<1>1. /\ acts # <<>> /\ top.kind = "flags" /\ top.letters # <<>>
      /\ UNCHANGED <<script_argv, flags_arg_index>>
      /\ acts' \in {Top(g), Append(Top(g), Body)}
  BY RunningForms DEF Letter, Matching
<1>2. g = Gone(top, <<>>, top.s, top.a, top.arg_idx, Tail(top.letters))
  BY <1>1, Numbers, GoneForms
<1>3. Tail(top.letters) \in Seq(Word)
  BY <1>1, Numbers
<1> HIDE DEF g
<1> QED  BY <1>1, <1>2, <1>3, Numbers, HandsNothing

(* A statement without numbers looks at its next argument.                  *)
LEMMA Looks ==
  ASSUME Types, Matching(FALSE), top.letters = <<>>, top.a < argc
  PROVE  /\ acts # <<>> /\ top.kind = "flags" /\ top.mode = 0
         /\ top \in Matcher /\ top.a + 1 <= argc /\ top.letters \in Seq(Word)
<1>1. acts # <<>> /\ top.kind = "flags" /\ ~(top.mode > 0)
  BY DEF Matching
<1>2. top \in Matcher /\ top.mode \in Nat /\ top.a \in Nat /\ argc \in Nat
      /\ top.letters \in Seq(Word)
  BY <1>1, Numbers
<1>3. top.mode = 0 /\ top.a + 1 <= argc
  BY <1>1, <1>2
<1> QED  BY <1>1, <1>2, <1>3

LEMMA NamedServes ==
  ASSUME Types, NamedFlag
  PROVE  Raise \/ \E g : Serving(g)
<1> DEFINE w == Arg(top.a)
           spec == top.specs[Min(Named(NameOf[w]))]
           apart == spec.typed /\ NameOf[w] = w
           one == [Deal(<<top.a>>) EXCEPT !.a = @ + 1]
           two == [Deal(<<top.a, top.a + 1>>) EXCEPT !.a = @ + 2]
<1>1. /\ Matching(FALSE) /\ top.letters = <<>> /\ top.a < argc
      /\ apart /\ top.a + 1 >= argc => Raise
      /\ ~(apart /\ top.a + 1 >= argc) =>
           /\ acts' = IF apart THEN Running(Top(two), spec)
                               ELSE Running(Top(one), spec)
           /\ UNCHANGED <<script_argv, flags_arg_index>>
  BY DEF NamedFlag
<1> HIDE DEF spec, apart, one, two
<1>2. /\ acts # <<>> /\ top.kind = "flags" /\ top.mode = 0
      /\ top.letters \in Seq(Word) /\ top.a + 1 <= argc
      /\ top.a \in Nat /\ argc \in Nat
  BY <1>1, Looks, Numbers
<1>3. /\ one = Gone(top, <<top.a>>, top.s, top.a + 1, top.arg_idx, top.letters)
      /\ two = Gone(top, <<top.a, top.a + 1>>, top.s, top.a + 2, top.arg_idx,
                    top.letters)
  BY <1>1, Looks, GoneForms DEF one, two
<1>4. CASE apart /\ top.a + 1 >= argc
  BY <1>1, <1>4
<1>5. CASE apart /\ ~(top.a + 1 >= argc)
  <2>1. acts' \in {Top(two), Append(Top(two), Body)} /\ top.a + 2 <= argc
    BY <1>1, <1>2, <1>5, RunningForms
  <2>2. PICK k \in {1, 2} : k = 2
    OBVIOUS
  <2>3. PICK list : list = (IF k = 1 THEN <<top.a>> ELSE <<top.a, top.a + 1>>)
    OBVIOUS
  <2>4. two = Gone(top, list, top.s, top.a + k, top.arg_idx, top.letters)
        /\ top.a + k <= argc
    <3>1. list = <<top.a, top.a + 1>>
      BY <2>2, <2>3
    <3> QED  BY <1>3, <2>1, <2>2, <3>1
  <2>5. Serving(two)
    BY <1>1, <1>2, <1>5, <2>1, <2>3, <2>4, HandsNext
  <2> QED  BY <2>5
<1>6. CASE ~apart
  <2>1. acts' \in {Top(one), Append(Top(one), Body)}
    BY <1>1, <1>6, RunningForms
  <2> QED  BY <1>1, <1>2, <1>3, <1>6, <2>1, HandsNext
<1> QED  BY <1>4, <1>5, <1>6

LEMMA OtherServes ==
  ASSUME Types, OtherArgument
  PROVE  \E g : Serving(g)
<1> DEFINE w == NameOf[Arg(top.a)]
           more == [Deal(<<top.a>>) EXCEPT !.a = @ + 1, !.letters = Letters[w]]
           one == [Deal(<<top.a>>) EXCEPT !.a = @ + 1]
           none == [top EXCEPT !.a = @ + 1]
<1>1. /\ Matching(FALSE) /\ top.letters = <<>> /\ top.a < argc
      /\ acts' = IF Letters[w] # <<>> THEN Top(more)
                 ELSE IF CatchAlls # {} THEN Running(Top(one), CatchAll)
                 ELSE Top(none)
      /\ UNCHANGED <<script_argv, flags_arg_index>>
  BY DEF OtherArgument
<1>2. /\ acts # <<>> /\ top.kind = "flags" /\ top.mode = 0
      /\ top.letters \in Seq(Word) /\ top.a + 1 <= argc
      /\ top.a \in Nat /\ argc \in Nat /\ top.s \in Nat /\ top.a + 1 \in Nat
  BY <1>1, Looks, Numbers
<1>3. Letters[w] \in Seq(Word)
  <2>1. Arg(top.a) \in Word
    BY <1>2, <1>1 DEF Arg, argc, Types
  <2> QED  BY <2>1, WordsAssumption
<1> HIDE DEF w
<1>4. /\ more = Gone(top, <<top.a>>, top.s, top.a + 1, top.arg_idx, Letters[w])
      /\ one = Gone(top, <<top.a>>, top.s, top.a + 1, top.arg_idx, top.letters)
      /\ none = Gone(top, <<>>, top.s, top.a + 1, top.arg_idx, top.letters)
  BY <1>1, Looks, GoneForms
<1> HIDE DEF more, one, none
<1>5. CASE Letters[w] # <<>>
  BY <1>1, <1>2, <1>3, <1>4, <1>5, HandsNext
<1>6. CASE Letters[w] = <<>> /\ CatchAlls # {}
  <2>1. acts' \in {Top(one), Append(Top(one), Body)}
    BY <1>1, <1>6, RunningForms
  <2> QED  BY <1>1, <1>2, <1>4, <2>1, HandsNext
<1>7. CASE Letters[w] = <<>> /\ CatchAlls = {}
  <2>1. ~Catches(top)
    BY <1>7 DEF CatchAlls, Catches
  <2> QED  BY <1>1, <1>2, <1>4, <1>7, <2>1, HandsNothing
<1> QED  BY <1>5, <1>6, <1>7

-----------------------------------------------------------------------------
(* The inductive invariant: of a script, the arguments it will find again   *)
(* and the argument it takes next; of a flags statement, what it may index  *)
(* and what it has handed out.                                              *)

Last(j) == \A k \in Scripts : k <= j
Upper(j, k) == k \in Scripts /\ j < k /\ \A l \in Scripts : l <= j \/ k <= l

(* They are in force, or saved by the script it executes.                   *)
Keeps(j) ==
  ~acts[j].lost =>
    /\ Last(j) => acts[j].own = script_argv
    /\ \A k \in Scripts : Upper(j, k) => acts[k].saved[1] = acts[j].own

Numbered(j) == {i \in Flags : ScriptOf(i) = j /\ acts[i].mode > 0}
Due(r) == r.first + Len(r.takes)

(* The argument it takes next is known to the one numbered statement at     *)
(* work; else it is in force, or saved by the script it executes.           *)
Good(j) ==
  ~acts[j].lost /\ ~acts[j].tangled =>
    /\ acts[j].takes = [k \in 1..Len(acts[j].takes) |-> acts[j].first + k - 1]
    /\ \A i, l \in Numbered(j) : i = l
    /\ \A i \in Numbered(j) :
         acts[i].phase = "match" => acts[i].arg_idx = Due(acts[j])
    /\ (\A i \in Numbered(j) : acts[i].phase # "match") =>
         /\ Last(j) => flags_arg_index = Due(acts[j])
         /\ \A k \in Scripts : Upper(j, k) => acts[k].saved[2] = Due(acts[j])

(* It is as long as the arguments of its script.                            *)
Fits(i) ==
  ~InScript(i).lost =>
    /\ acts[i].size = Len(InScript(i).own)
    /\ \A a \in acts[i].handled : a < acts[i].size

Inv ==
  /\ Types
  /\ \A j \in Scripts : Keeps(j) /\ Good(j)
  /\ \A i \in Flags : Fits(i) /\ Serves(acts[i])

(* The lower n records stay what they are.                                  *)
Alike(a, b) ==
  /\ a.kind = b.kind
  /\ a.kind = "block" =>
       /\ a.owner = b.owner /\ a.own = b.own /\ a.saved = b.saved
       /\ a.first = b.first /\ (a.lost => b.lost)

Aligned(n) ==
  /\ n \in Nat /\ n <= height /\ n <= height'
  /\ \A i \in 1..n : Alike(acts[i], acts'[i])

Shape ==
  /\ height \in Nat /\ height = Len(acts) /\ DOMAIN acts = 1..height
  /\ Scripts = {i \in 1..height : IsScript(acts[i])}
  /\ Flags = {i \in 1..height : acts[i].kind = "flags"}
  /\ \A i \in 1..height :
       /\ acts[i] \in Block \cup Matcher
       /\ acts[i].kind = "block" <=> acts[i] \in Block
       /\ acts[i].kind = "flags" <=> acts[i] \in Matcher
       /\ acts[i].kind \in {"block", "flags"}
  /\ height > 0 => 1 \in Scripts
  /\ \A i \in Scripts : i > 1 => acts[i].owner = "execute"
                        /\ acts[i].saved \in Seq(Word) \X Nat

Places ==
  \A i \in 1..height :
    /\ ScriptOf(i) \in Scripts /\ ScriptOf(i) \in 1..i
    /\ \A k \in Scripts : k <= i => k <= ScriptOf(i)
    /\ acts[ScriptOf(i)] \in Block /\ IsScript(acts[ScriptOf(i)])

LEMMA Domains == Types => Shape
<1> SUFFICES ASSUME Types PROVE Shape
  OBVIOUS
<1>1. height \in Nat /\ height = Len(acts) /\ DOMAIN acts = 1..height
  BY DEF Types, height
<1>2. \A i \in 1..height : acts[i] \in Block \cup Matcher
  BY <1>1 DEF Types
<1>3. \A r \in Block \cup Matcher :
        /\ r.kind = "block" <=> r \in Block
        /\ r.kind = "flags" <=> r \in Matcher
        /\ r.kind \in {"block", "flags"}
  <2>1. \A r \in Block : r.kind = "block"
    BY DEF Block
  <2>2. \A r \in Matcher : r.kind = "flags"
    BY DEF Matcher
  <2> QED  BY <2>1, <2>2
<1>4. Scripts = {i \in 1..height : IsScript(acts[i])}
      /\ Flags = {i \in 1..height : acts[i].kind = "flags"}
  BY <1>1 DEF Scripts, Flags, IsScript
<1>5. height > 0 => 1 \in Scripts
  BY <1>1, <1>4 DEF Types, IsScript
<1>6. \A i \in Scripts : i > 1 => acts[i].owner = "execute"
                               /\ acts[i].saved \in Seq(Word) \X Nat
  BY <1>1, <1>4 DEF Types, IsScript
<1> QED  BY <1>1, <1>2, <1>3, <1>4, <1>5, <1>6 DEF Shape

LEMMA Placed == Types => Places
BY ScriptAt DEF Places

(* The same of the next state.                                              *)
LEMMA DomainsNext == Types' => Shape'
BY Domains, PTL

LEMMA PlacedNext == Types' => Places'
BY Placed, PTL

LEMMA Framed ==
  ASSUME Types, Types', NEW n \in Nat, Aligned(n), NEW i \in 1..n
  PROVE  /\ i \in Scripts' <=> i \in Scripts
         /\ i \in Flags' <=> i \in Flags
         /\ ScriptOf(i)' = ScriptOf(i)
<1>1. /\ height \in Nat /\ height' \in Nat /\ n <= height /\ n <= height'
      /\ Scripts = {j \in 1..height : IsScript(acts[j])}
      /\ Scripts' = {j \in 1..height' : IsScript(acts'[j])}
      /\ Flags = {j \in 1..height : acts[j].kind = "flags"}
      /\ Flags' = {j \in 1..height' : acts'[j].kind = "flags"}
  BY Domains, DomainsNext DEF Aligned, Shape
<1>2. \A j \in 1..n : /\ IsScript(acts[j]) <=> IsScript(acts'[j])
                      /\ acts[j].kind = acts'[j].kind
                      /\ j \in 1..height /\ j \in 1..height'
  BY <1>1 DEF Aligned, Alike, IsScript
<1>3. \A j \in 1..n : (j \in Scripts' <=> j \in Scripts)
                      /\ (j \in Flags' <=> j \in Flags)
  BY <1>1, <1>2
<1>4. {j \in Scripts' : j <= i} = {j \in Scripts : j <= i}
  <2>1. ASSUME NEW j, j \in Scripts \/ j \in Scripts', j <= i
        PROVE  j \in 1..n
    BY <1>1, <2>1
  <2> QED  BY <1>3, <2>1
<1>5. ScriptOf(i)' = ScriptOf(i)
  BY <1>4 DEF ScriptOf
<1> QED  BY <1>3, <1>5

(* What is said of the scripts below one that stays, stays.                 *)
LEMMA Below ==
  ASSUME Types, Types', NEW n \in Scripts, Aligned(n),
         \A i \in 1..(n - 1) : acts[i].kind = "flags" => acts'[i] = acts[i],
         NEW j \in Scripts, j < n,
         acts'[j].lost = acts[j].lost, Counts(acts[j], acts'[j]),
         Keeps(j), Good(j)
  PROVE  Keeps(j)' /\ Good(j)'
<1>1. /\ n \in 1..height /\ height \in Nat /\ height' \in Nat
      /\ n <= height' /\ n \in Nat /\ j \in 1..n /\ j # n
      /\ Scripts \subseteq 1..height /\ Scripts' \subseteq 1..height'
      /\ Flags \subseteq 1..height /\ Flags' \subseteq 1..height'
  BY Domains, DomainsNext DEF Aligned, Shape
<1>2. \A i \in 1..n : /\ i \in Scripts' <=> i \in Scripts
                      /\ i \in Flags' <=> i \in Flags
                      /\ ScriptOf(i)' = ScriptOf(i)
  BY <1>1, Framed
<1>3. n \in Scripts' /\ j \in Scripts'
  BY <1>1, <1>2
<1>4. ~Last(j) /\ ~Last(j)'
  BY <1>1, <1>3 DEF Last
<1>5. \A k : Upper(j, k)' => k \in 1..n /\ k \in Scripts /\ Upper(j, k)
                             /\ acts'[k].saved = acts[k].saved
  <2> SUFFICES ASSUME NEW k, Upper(j, k)'
               PROVE  k \in 1..n /\ k \in Scripts /\ Upper(j, k)
                      /\ acts'[k].saved = acts[k].saved
    OBVIOUS
  <2>1. k \in Scripts' /\ j < k /\ \A l \in Scripts' : l <= j \/ k <= l
    BY DEF Upper
  <2>2. k \in 1..n
    <3>1. n <= j \/ k <= n
      BY <1>3, <2>1
    <3>2. k \in 1..height'
      BY <1>1, <2>1
    <3> QED  BY <1>1, <3>1, <3>2
  <2>3. k \in Scripts
    BY <1>2, <2>1, <2>2
  <2>4. ASSUME NEW l \in Scripts PROVE l <= j \/ k <= l
    <3>1. l \in 1..height
      BY <1>1
    <3>2. l \in 1..n => l <= j \/ k <= l
      BY <1>2, <2>1
    <3> QED  BY <1>1, <2>2, <3>1, <3>2
  <2>5. acts'[k].saved = acts[k].saved
    BY <2>2, <2>3 DEF Aligned, Alike, Scripts
  <2> QED  BY <2>1, <2>2, <2>3, <2>4, <2>5 DEF Upper
<1>6. Alike(acts[j], acts'[j]) /\ acts[j].kind = "block"
  BY <1>1 DEF Aligned, Scripts
<1>7. Keeps(j)'
  BY <1>4, <1>5, <1>6 DEF Keeps, Alike
<1>8. \A i \in Numbered(j)' : i \in Numbered(j) /\ acts'[i] = acts[i]
  <2> SUFFICES ASSUME NEW i \in Numbered(j)'
               PROVE  i \in Numbered(j) /\ acts'[i] = acts[i]
    OBVIOUS
  <2>1. i \in Flags' /\ ScriptOf(i)' = j /\ acts'[i].mode > 0
    BY DEF Numbered
  <2>2. i \in 1..height' /\ \A k \in Scripts' : k <= i => k <= j
    <3>1. i \in 1..height'
      BY <1>1, <2>1
    <3>2. \A k \in Scripts' : k <= i => k <= ScriptOf(i)'
      BY <3>1, PlacedNext DEF Places
    <3> QED  BY <2>1, <3>1, <3>2
  <2>3. i < n
    BY <1>1, <1>3, <2>2
  <2>4. i \in 1..n /\ i \in 1..(n - 1)
    BY <1>1, <2>2, <2>3
  <2>5. i \in Flags /\ ScriptOf(i) = j
    BY <1>2, <2>1, <2>4
  <2>6. acts'[i] = acts[i]
    BY <2>4, <2>5 DEF Flags
  <2> QED  BY <2>1, <2>5, <2>6 DEF Numbered
<1>9. \A i \in Numbered(j) : i \in Numbered(j)' /\ acts'[i] = acts[i]
  <2> SUFFICES ASSUME NEW i \in Numbered(j)
               PROVE  i \in Numbered(j)' /\ acts'[i] = acts[i]
    OBVIOUS
  <2>1. i \in Flags /\ ScriptOf(i) = j /\ acts[i].mode > 0
    BY DEF Numbered
  <2>2. i \in 1..height /\ \A k \in Scripts : k <= i => k <= j
    <3>1. i \in 1..height
      BY <1>1, <2>1
    <3> QED  BY <2>1, <3>1, ScriptAt
  <2>3. i < n
    BY <1>1, <2>2
  <2>4. i \in 1..n /\ i \in 1..(n - 1)
    BY <1>1, <2>2, <2>3
  <2>5. i \in Flags' /\ ScriptOf(i)' = j
    BY <1>2, <2>1, <2>4
  <2>6. acts'[i] = acts[i]
    BY <2>1, <2>4 DEF Flags
  <2> QED  BY <2>1, <2>5, <2>6 DEF Numbered
<1>10. Due(acts'[j]) = Due(acts[j]) /\ acts'[j].takes = acts[j].takes
       /\ acts'[j].first = acts[j].first /\ acts'[j].tangled = acts[j].tangled
  BY <1>6 DEF Counts, Alike, Due
<1>11. Good(j)'
  <2> SUFFICES ASSUME ~acts'[j].lost, ~acts'[j].tangled PROVE Good(j)'
    BY DEF Good
  <2>1. /\ acts[j].takes = [k \in 1..Len(acts[j].takes) |-> acts[j].first + k - 1]
        /\ \A i, l \in Numbered(j) : i = l
        /\ \A i \in Numbered(j) :
             acts[i].phase = "match" => acts[i].arg_idx = Due(acts[j])
        /\ (\A i \in Numbered(j) : acts[i].phase # "match") =>
             \A k \in Scripts : Upper(j, k) => acts[k].saved[2] = Due(acts[j])
    BY <1>10 DEF Good
  <2>2. acts'[j].takes = [k \in 1..Len(acts'[j].takes) |-> acts'[j].first + k - 1]
    BY <1>10, <2>1
  <2>3. /\ \A i, l \in Numbered(j)' : i = l
        /\ \A i \in Numbered(j)' :
             acts'[i].phase = "match" => acts'[i].arg_idx = Due(acts'[j])
    BY <1>8, <1>10, <2>1
  <2>4. ASSUME \A i \in Numbered(j)' : acts'[i].phase # "match"
        PROVE  \A k \in Scripts' :
                 Upper(j, k)' => acts'[k].saved[2] = Due(acts'[j])
    <3>1. \A i \in Numbered(j) : acts[i].phase # "match"
      BY <1>9, <2>4
    <3> QED  BY <1>5, <1>10, <2>1, <3>1
  <2> QED  BY <1>4, <2>2, <2>3, <2>4 DEF Good
<1> QED  BY <1>7, <1>11

LEMMA FitsOn ==
  ASSUME Types, Types', NEW n \in Nat, Aligned(n), NEW i \in 1..n,
         acts'[i].size = acts[i].size, Fits(i),
         \A a \in acts'[i].handled :
           a \in acts[i].handled \/ (~InScript(i).lost => a < acts[i].size)
  PROVE  Fits(i)'
<1>1. n <= height /\ n <= height' /\ height \in Nat /\ height' \in Nat
      /\ i \in 1..height
  BY Domains, DomainsNext DEF Aligned, Shape
<1>2. PICK m : m = ScriptOf(i) /\ m = ScriptOf(i)' /\ m \in 1..i
               /\ m \in Scripts
  BY <1>1, Framed, ScriptAt
<1>3. InScript(i) = acts[m] /\ InScript(i)' = acts'[m]
  BY <1>2 DEF InScript
<1>4. Alike(acts[m], acts'[m]) /\ acts[m].kind = "block"
  BY <1>2 DEF Aligned, Scripts
<1> QED  BY <1>3, <1>4 DEF Fits, Alike

-----------------------------------------------------------------------------
(* The stack goes on or grows.                                              *)

LEMMA GrowsTypes ==
  ASSUME Types, NEW g, Grows(g), flags_arg_index' \in Nat
  PROVE  Types' /\ Aligned(height)
<1>1. /\ height \in Nat /\ height > 0 /\ height' \in {height, height + 1}
      /\ acts' \in Seq(Block \cup Matcher) /\ height' = Len(acts')
      /\ \A i \in 1..height : Same(acts[i], acts'[i])
      /\ height' = height + 1 => ~IsScript(acts'[height + 1])
      /\ script_argv' \in Seq(Word) /\ height = Len(acts)
  BY DEF Grows, Types, height
<1>2. acts'[1].kind = "block" /\ acts'[1].owner = "main"
  BY <1>1 DEF Types, Same
<1>3. ASSUME NEW i \in 2..height', acts'[i].kind = "block", acts'[i].owner # "body"
      PROVE  acts'[i].owner = "execute" /\ acts'[i].saved \in Seq(Word) \X Nat
  <2>1. i \in 2..height
    BY <1>1, <1>3 DEF IsScript
  <2>2. Same(acts[i], acts'[i])
    BY <1>1, <2>1
  <2> QED  BY <1>3, <2>1, <2>2 DEF Types, Same
<1>4. Types'
  <2>1. \A i \in 2..height' :
          acts'[i].kind = "block" /\ acts'[i].owner # "body" =>
            acts'[i].owner = "execute" /\ acts'[i].saved \in Seq(Word) \X Nat
    BY <1>3
  <2> QED  BY <1>1, <1>2, <2>1 DEF Types
<1>5. Aligned(height)
  BY <1>1 DEF Aligned, Alike, Same
<1> QED  BY <1>4, <1>5

LEMMA GrowsFrame ==
  ASSUME Inv, NEW g, Grows(g), flags_arg_index' \in Nat,
         NEW m, m = ScriptOf(height)
  PROVE  /\ Types' /\ Aligned(height) /\ Scripts' = Scripts
         /\ m \in Scripts /\ Last(m) /\ Last(m)' /\ m \in 1..height
         /\ Same(acts[m], acts'[m])
         /\ \A j \in Scripts' : Keeps(j)' /\ (j # m => Good(j)')
         /\ \A i \in Flags' : i < height => Fits(i)' /\ Serves(acts'[i])
         /\ \A i \in m..height' : ScriptOf(i)' = m
<1>1. /\ height \in Nat /\ height > 0 /\ height' \in {height, height + 1}
      /\ \A i \in 1..height : Same(acts[i], acts'[i])
      /\ \A i \in 1..(height - 1) : acts[i].kind = "flags" => acts'[i] = acts[i]
      /\ \A i \in Scripts : i # m => Counts(acts[i], acts'[i])
      /\ height' = height + 1 => ~IsScript(acts'[height + 1])
      /\ script_argv' = script_argv /\ Types
  BY DEF Inv, Grows, Types, height
<1>2. Types' /\ Aligned(height)
  BY <1>1, GrowsTypes
<1>3. /\ Scripts \subseteq 1..height /\ Scripts' \subseteq 1..height'
      /\ Scripts' = {i \in 1..height' : IsScript(acts'[i])}
      /\ Flags' \subseteq 1..height'
  BY <1>1, <1>2, Domains, DomainsNext DEF Shape
<1>4. /\ m \in Scripts /\ m \in 1..height
      /\ \A k \in Scripts : k <= m
  <2>1. height \in 1..height
    BY <1>1
  <2>2. /\ m \in Scripts /\ m \in 1..height
        /\ \A k \in Scripts : k <= height => k <= m
    BY <1>1, <2>1, Placed DEF Places
  <2> QED  BY <1>1, <1>3, <2>2
<1>5. \A i \in 1..height : /\ i \in Scripts' <=> i \in Scripts
                           /\ i \in Flags' <=> i \in Flags
                           /\ ScriptOf(i)' = ScriptOf(i)
  BY <1>1, <1>2, Framed
<1>6. Scripts' = Scripts
  <2>1. \A i \in Scripts' : i \in 1..height
    BY <1>1, <1>3
  <2> QED  BY <1>3, <1>5, <2>1
<1>7. Last(m) /\ Last(m)'
  BY <1>4, <1>6 DEF Last
<1>8. ASSUME NEW i \in m..height' PROVE ScriptOf(i)' = m
  <2>1. /\ i \in 1..height' /\ i \in Nat /\ m <= i
        /\ ScriptOf(i)' \in Scripts /\ ScriptOf(i)' \in Nat
        /\ \A k \in Scripts : k <= i => k <= ScriptOf(i)'
    BY <1>1, <1>2, <1>3, <1>4, <1>6, PlacedNext DEF Places
  <2> QED  BY <1>1, <1>4, <2>1
<1>9. Same(acts[m], acts'[m])
  BY <1>1, <1>4
<1>10. Keeps(m)'
  <2>1. ASSUME NEW k \in Scripts, Upper(m, k)' PROVE FALSE
    BY <1>3, <1>4, <2>1 DEF Upper
  <2>2. acts[m].kind = "block" /\ Keeps(m)
    BY <1>4 DEF Inv, Scripts
  <2> QED  BY <1>1, <1>6, <1>7, <1>9, <2>1, <2>2 DEF Keeps, Same
<1>11. ASSUME NEW j \in Scripts, j # m PROVE Keeps(j)' /\ Good(j)'
  <2>1. j < m /\ j \in 1..height /\ acts[j].kind = "block"
    BY <1>3, <1>4, <1>11 DEF Scripts
  <2>2. acts'[j].lost = acts[j].lost /\ Counts(acts[j], acts'[j])
    BY <1>1, <1>11, <2>1 DEF Same
  <2>3. Aligned(m)
    BY <1>1, <1>2, <1>4 DEF Aligned
  <2>4. \A i \in 1..(m - 1) : acts[i].kind = "flags" => acts'[i] = acts[i]
    BY <1>1, <1>4
  <2>5. Keeps(j) /\ Good(j)
    BY DEF Inv
  <2> QED  BY <1>1, <1>2, <1>4, <2>1, <2>2, <2>3, <2>4, <2>5, Below
<1>12. ASSUME NEW i \in Flags', i < height PROVE Fits(i)' /\ Serves(acts'[i])
  <2>1. i \in 1..(height - 1) /\ i \in 1..height
    BY <1>1, <1>3, <1>12
  <2>2. i \in Flags /\ acts[i].kind = "flags"
    BY <1>5, <2>1 DEF Flags
  <2>3. acts'[i] = acts[i]
    BY <1>1, <2>1, <2>2
  <2>4. Fits(i) /\ Serves(acts[i])
    BY <2>2 DEF Inv
  <2> QED  BY <1>1, <1>2, <2>1, <2>3, <2>4, FitsOn
<1> QED
  BY <1>2, <1>4, <1>6, <1>7, <1>8, <1>9, <1>10, <1>11, <1>12

(* The numbered statement at work is where it was.                          *)
LEMMA QuietGood ==
  ASSUME Inv, NEW g, Grows(g), Quiet, NEW m, m = ScriptOf(height)
  PROVE  Good(m)'
<1>0. flags_arg_index' \in Nat
  BY DEF Inv, Types, Quiet
<1>1. /\ Types' /\ Aligned(height) /\ Scripts' = Scripts
      /\ m \in Scripts /\ Last(m) /\ Last(m)' /\ m \in 1..height
      /\ Same(acts[m], acts'[m])
      /\ \A i \in m..height' : ScriptOf(i)' = m
  BY <1>0, GrowsFrame
<1>2. /\ height \in Nat /\ height > 0 /\ height' \in {height, height + 1}
      /\ Scripts \subseteq 1..height
      /\ \A i \in 1..(height - 1) : acts[i].kind = "flags" => acts'[i] = acts[i]
      /\ Flags' \subseteq 1..height' /\ Flags \subseteq 1..height /\ Types
  BY <1>1, Domains, DomainsNext DEF Inv, Grows, Shape
<1>3. acts[m].kind = "block" /\ top = acts[height]
  BY <1>1 DEF Scripts, height, top
<1>4. \A i \in 1..height : /\ i \in Flags' <=> i \in Flags
                           /\ ScriptOf(i)' = ScriptOf(i)
  BY <1>1, <1>2, Framed
<1>5. ASSUME NEW i \in 1..height, i \in Flags
      PROVE  /\ acts'[i].mode = acts[i].mode
             /\ acts[i].mode > 0 => /\ acts'[i].phase = acts[i].phase
                                    /\ acts'[i].arg_idx = acts[i].arg_idx
  <2>1. acts[i].kind = "flags"
    BY <1>5 DEF Flags
  <2>2. CASE i = height
    BY <1>3, <2>1, <2>2 DEF Quiet
  <2>3. CASE i \in 1..(height - 1)
    BY <1>2, <2>1, <2>3
  <2> QED  BY <1>2, <2>2, <2>3
<1>6. ASSUME NEW i \in Flags', acts'[i].mode > 0 PROVE i \in 1..height
  <2>1. CASE height' = height + 1 /\ i = height + 1
    <3>1. acts'[height + 1].kind = "flags"
      BY <1>6, <2>1 DEF Flags
    <3>2. acts'[i].mode = 0
      BY <2>1, <3>1 DEF Quiet
    <3> QED  BY <1>6, <3>2
  <2> QED  BY <1>2, <1>6, <2>1
<1>7. Numbered(m)' = Numbered(m)
      /\ \A i \in Numbered(m) : /\ acts'[i].phase = acts[i].phase
                                /\ acts'[i].arg_idx = acts[i].arg_idx
  <2>1. ASSUME NEW i \in Numbered(m)' PROVE i \in Numbered(m)
    <3>1. i \in Flags' /\ ScriptOf(i)' = m /\ acts'[i].mode > 0
      BY DEF Numbered
    <3>2. i \in 1..height
      BY <1>6, <3>1
    <3> QED  BY <1>4, <1>5, <3>1, <3>2 DEF Numbered
  <2>2. ASSUME NEW i \in Numbered(m)
        PROVE  /\ i \in Numbered(m)' /\ acts'[i].phase = acts[i].phase
               /\ acts'[i].arg_idx = acts[i].arg_idx
    <3>1. i \in Flags /\ ScriptOf(i) = m /\ acts[i].mode > 0 /\ i \in 1..height
      BY <1>2 DEF Numbered
    <3> QED  BY <1>4, <1>5, <3>1 DEF Numbered
  <2> QED  BY <2>1, <2>2
<1>8. Counts(acts[m], acts'[m]) /\ flags_arg_index' = flags_arg_index
  BY <1>1 DEF Quiet
<1>9. Due(acts'[m]) = Due(acts[m])
  BY <1>1, <1>3, <1>8 DEF Counts, Same, Due
<1>10. Good(m)
  BY <1>1 DEF Inv
<1>11. \A k \in Scripts : ~Upper(m, k)'
  BY <1>1, <1>2 DEF Upper, Last
<1> QED
  BY <1>1, <1>3, <1>7, <1>8, <1>9, <1>10, <1>11 DEF Good, Counts, Same

(* What a step that grows has to show of the records on top.                *)
LEMMA GrowsInv ==
  ASSUME Inv, NEW g, Grows(g), flags_arg_index' \in Nat,
         NEW m, m = ScriptOf(height),
         Good(m)',
         \A i \in {height, height + 1} :
           i \in Flags' => Fits(i)' /\ Serves(acts'[i])
  PROVE  Inv'
<1>1. /\ Types' /\ Scripts' = Scripts
      /\ \A j \in Scripts' : Keeps(j)' /\ (j # m => Good(j)')
      /\ \A i \in Flags' : i < height => Fits(i)' /\ Serves(acts'[i])
  BY GrowsFrame
<1>2. \A i \in Flags' : i < height \/ i \in {height, height + 1}
  BY <1>1, Domains, DomainsNext DEF Inv, Shape, Grows
<1> QED  BY <1>1, <1>2 DEF Inv

LEMMA BlockInv ==
  ASSUME Inv, NEW g, BlockTurns(g)
  PROVE  Inv'
<1>1. Grows(g) /\ Quiet /\ height' = height /\ flags_arg_index' \in Nat
  BY BlockGrows DEF Inv, BlockTurns, Types
<1>0. PICK m : m = ScriptOf(height)
  OBVIOUS
<1>2. Good(m)'
  BY <1>0, <1>1, QuietGood
<1>3. height \notin Flags' /\ height + 1 \notin Flags'
  <2>1. acts'[height] = g /\ g.kind = "block" /\ height \in Nat
    BY <1>1, TopTypes DEF Grows, BlockTurns, Block, Inv, Types, height
  <2>2. Flags' \subseteq 1..height
    BY <1>1, GrowsTypes, DomainsNext DEF Inv, Shape
  <2> QED  BY <2>1, <2>2 DEF Flags
<1> QED  BY <1>0, <1>1, <1>2, <1>3, GrowsInv

(* The next record is not a flags statement, and the one that goes on fits. *)
LEMMA TurnFits ==
  ASSUME Inv, NEW g, Grows(g), flags_arg_index' \in Nat,
         top.kind = "flags", Goes(top, g, argc), NEW n, n = height
  PROVE  Fits(n)' /\ Serves(acts'[n])
<1>1. /\ n \in Nat /\ n > 0 /\ n \in 1..n /\ Types
      /\ acts'[n] = g /\ top = acts[n] /\ n \in Flags
  BY Domains DEF Grows, Inv, Shape, top, height
<1>2. PICK m : m = ScriptOf(n)
  OBVIOUS
<1>3. /\ Types' /\ Aligned(n)
      /\ m \in Scripts /\ Last(m)
  BY <1>2, GrowsFrame
<1>4. Fits(n) /\ Serves(top) /\ Keeps(m)
  BY <1>1, <1>3 DEF Inv
<1>5. ~InScript(n).lost => argc = top.size
  BY <1>1, <1>2, <1>3, <1>4 DEF Fits, Keeps, InScript, argc
<1>6. /\ g.size = top.size /\ Serves(g)
      /\ \A x \in g.handled : x \in top.handled \/ x < argc
  BY <1>4 DEF Goes
<1>7. \A x \in acts'[n].handled :
        x \in acts[n].handled
        \/ (~InScript(n).lost => x < acts[n].size)
  BY <1>1, <1>5, <1>6
<1> QED  BY <1>1, <1>3, <1>4, <1>6, <1>7, FitsOn

LEMMA ServingInv ==
  ASSUME Inv, NEW g, Serving(g)
  PROVE  Inv'
<1>1. /\ Turns(g) /\ Goes(top, g, argc) /\ g.phase = top.phase
      /\ top.mode > 0 => g.arg_idx = top.arg_idx
      /\ Types /\ top.kind = "flags"
      /\ flags_arg_index' = flags_arg_index /\ flags_arg_index' \in Nat
  BY DEF Serving, Turns, Inv, Types
<1>2. /\ Grows(g) /\ \A i \in Scripts : Counts(acts[i], acts'[i])
      /\ height' = height + 1 => acts'[height + 1] = Body
  BY <1>1, TurnGrows
<1>3. acts'[height] = g /\ g.mode = top.mode /\ Body.kind = "block"
  BY <1>1, <1>2, BodyType DEF Grows, Goes
<1>4. Quiet
  BY <1>1, <1>2, <1>3 DEF Quiet
<1>5. PICK m : m = ScriptOf(height)
  OBVIOUS
<1>6. Good(m)'
  BY <1>2, <1>4, <1>5, QuietGood
<1>7. height + 1 \notin Flags'
  <2>1. Types' /\ height \in Nat /\ Flags' \subseteq 1..height'
        /\ height' \in {height, height + 1}
    BY <1>1, <1>2, GrowsTypes, Domains, DomainsNext DEF Shape, Grows
  <2>2. height + 1 \in Flags' => height' = height + 1
    BY <2>1
  <2> QED  BY <1>2, <1>3, <2>2 DEF Flags
<1>8. PICK n : n = height
  OBVIOUS
<1>9. Fits(n)' /\ Serves(acts'[n])
  BY <1>1, <1>2, <1>8, TurnFits
<1> QED  BY <1>1, <1>2, <1>5, <1>6, <1>7, <1>8, <1>9, GrowsInv

(* The numbered statements of the innermost script after a step.            *)
LEMMA NumberedAfter ==
  ASSUME Inv, NEW g, Grows(g), flags_arg_index' \in Nat,
         NEW m, m = ScriptOf(height), NEW n, n = height,
         NEW i \in Numbered(m)'
  PROVE  /\ acts'[i].kind = "flags" /\ acts'[i].mode > 0 /\ i \in Nat
         /\ \/ i < n /\ i \in Numbered(m) /\ acts'[i] = acts[i]
            \/ i = n
            \/ i = n + 1 /\ height' = n + 1
<1>1. /\ Types /\ Types' /\ Aligned(n) /\ m \in Scripts
  BY GrowsFrame DEF Inv
<1>2. /\ n \in Nat /\ n > 0 /\ height' \in {n, n + 1}
      /\ \A k \in 1..(n - 1) : acts[k].kind = "flags" => acts'[k] = acts[k]
      /\ Flags' \subseteq 1..height'
  BY <1>1, Domains, DomainsNext DEF Grows, Shape
<1>3. i \in Flags' /\ ScriptOf(i)' = m /\ acts'[i].mode > 0
  BY DEF Numbered
<1>4. acts'[i].kind = "flags" /\ i \in 1..height'
  BY <1>2, <1>3 DEF Flags
<1>5. CASE i < n
  <2>1. i \in 1..n /\ i \in 1..(n - 1)
    BY <1>2, <1>4, <1>5
  <2>2. i \in Flags /\ ScriptOf(i) = m
    BY <1>1, <1>2, <1>3, <2>1, Framed
  <2>3. acts'[i] = acts[i]
    BY <1>2, <2>1, <2>2 DEF Flags
  <2> QED  BY <1>2, <1>3, <1>4, <1>5, <2>2, <2>3 DEF Numbered
<1>6. CASE ~(i < n)
  BY <1>2, <1>3, <1>4, <1>6
<1> QED  BY <1>5, <1>6

(* A numbered statement ends its loop, and the cursor goes where it is.     *)
LEMMA PositionalEndInv ==
  ASSUME Inv, PositionalEnd
  PROVE  Inv'
<1> DEFINE g == [top EXCEPT !.phase = "rest"]
<1>1. /\ acts # <<>> /\ top.kind = "flags" /\ top.phase = "match" /\ top.mode > 0
      /\ flags_arg_index' = top.arg_idx /\ acts' = Top(g)
      /\ script_argv' = script_argv /\ Types
  BY DEF PositionalEnd, Matching, Inv
<1>2. top \in Matcher /\ height > 0 /\ height \in Nat /\ top = acts[height]
  BY <1>1, TopTypes
<1>3. /\ g \in Matcher /\ g.phase = "rest" /\ g.mode = top.mode /\ g.a = top.a
      /\ g.size = top.size /\ g.handled = top.handled /\ g.dealt = top.dealt
  BY <1>2 DEF Matcher
<1> HIDE DEF g
<1>4. Turns(g)
  BY <1>1, <1>2, <1>3 DEF Turns
<1>5. /\ Grows(g) /\ \A i \in Scripts : Counts(acts[i], acts'[i])
      /\ height' = height
  <2>1. height' = height
    BY <1>1, <1>2 DEF Top, height
  <2> QED  BY <1>1, <1>2, <1>4, <2>1, TurnGrows
<1>6. Goes(top, g, argc)
  <2>1. ASSUME Serves(top) PROVE Serves(g)
    <3>1. Once(g)
      BY <1>3, <2>1 DEF Serves, Once
    <3>2. top.a = 2
      BY <1>1, <2>1 DEF Serves, Reach
    <3>3. Reach(g)
      BY <1>1, <1>3, <3>2 DEF Reach
    <3> QED  BY <3>1, <3>3 DEF Serves
  <2> QED  BY <1>3, <2>1 DEF Goes
<1>7. flags_arg_index' \in Nat
  BY <1>1, <1>2 DEF Matcher
<1>8. PICK n, m : n = height /\ m = ScriptOf(height)
  OBVIOUS
<1>9. Fits(n)' /\ Serves(acts'[n])
  BY <1>1, <1>5, <1>6, <1>7, <1>8, TurnFits
<1>10. /\ Types' /\ Scripts' = Scripts /\ m \in Scripts /\ Last(m) /\ Last(m)'
       /\ m \in 1..n /\ Same(acts[m], acts'[m]) /\ Flags' \subseteq 1..n
       /\ Scripts \subseteq 1..n
  BY <1>1, <1>5, <1>7, <1>8, GrowsFrame, Domains, DomainsNext DEF Shape
<1>11. n + 1 \notin Flags'
  BY <1>2, <1>8, <1>10
<1>12. Good(m)'
  <2> SUFFICES ASSUME ~acts'[m].lost, ~acts'[m].tangled
               PROVE  Good(m)'
    BY DEF Good
  <2>1. acts[m].kind = "block" /\ Counts(acts[m], acts'[m])
    BY <1>5, <1>10 DEF Scripts
  <2>2. ~acts[m].lost /\ ~acts[m].tangled /\ Good(m)
        /\ Due(acts'[m]) = Due(acts[m])
    BY <1>10, <2>1 DEF Counts, Same, Inv, Due
  <2>3. n \in Numbered(m)
    BY <1>1, <1>2, <1>8 DEF Numbered, Flags, height
  <2>4. top.arg_idx = Due(acts[m]) /\ \A i \in Numbered(m) : i = n
    BY <1>1, <1>2, <1>8, <2>2, <2>3 DEF Good
  <2>5. \A i \in Numbered(m)' : i = n
    <3>1. ASSUME NEW i \in Numbered(m)' PROVE i = n
      <4>1. /\ i \in Nat
            /\ (i < n /\ i \in Numbered(m)) \/ i = n \/ (i = n + 1 /\ height' = n + 1)
        BY <1>5, <1>7, <1>8, NumberedAfter
      <4> QED  BY <1>2, <1>5, <1>8, <2>4, <4>1
    <3> QED  BY <3>1
  <2>6. acts'[n].phase = "rest"
    BY <1>3, <1>5, <1>8 DEF Grows
  <2>7. \A k \in Scripts : ~Upper(m, k)'
    BY <1>10 DEF Upper, Last
  <2> QED
    BY <1>1, <1>10, <2>1, <2>2, <2>4, <2>5, <2>6, <2>7
    DEF Good, Counts, Same
<1> QED  BY <1>5, <1>7, <1>8, <1>9, <1>11, <1>12, GrowsInv

(* A numbered spec takes the next argument.                                 *)
Takes(g) ==
  /\ Positional
  /\ ~top.specs[top.s].catch_all /\ top.arg_idx < argc
  /\ g = [Deal(<<top.arg_idx>>) EXCEPT !.s = @ + 1, !.arg_idx = @ + 1]

LEMMA TakesForms ==
  ASSUME Types, NEW g, Takes(g), NEW n, n = height, NEW m, m = ScriptOf(n)
  PROVE  /\ Grows(g) /\ Goes(top, g, argc)
         /\ top.kind = "flags" /\ top.phase = "match" /\ top.mode > 0
         /\ g.phase = "match" /\ g.mode = top.mode /\ g.arg_idx = top.arg_idx + 1
         /\ acts[m].takes \in Seq(Nat) /\ acts[m].first \in Nat
         /\ acts'[m].takes = Append(acts[m].takes, top.arg_idx)
         /\ acts'[m].tangled = acts[m].tangled
         /\ height' = n + 1 => acts'[n + 1] = Body
         /\ flags_arg_index' = flags_arg_index
<1> DEFINE B == [Top(g) EXCEPT ![m].takes = Append(@, top.arg_idx)]
<1>1. /\ acts # <<>> /\ top.kind = "flags" /\ top.phase = "match" /\ top.mode > 0
      /\ g = [Deal(<<top.arg_idx>>) EXCEPT !.s = @ + 1, !.arg_idx = @ + 1]
      /\ acts' \in {B, Append(B, Body)} /\ top.arg_idx < argc
      /\ UNCHANGED <<script_argv, flags_arg_index>>
  <2>1. acts # <<>> /\ top.kind = "flags" /\ top.phase = "match" /\ top.mode > 0
    BY DEF Takes, Positional, Matching
  <2>2. top.arg_idx \in Nat /\ argc \in Nat
    BY <2>1, Numbers
  <2>3. ~(top.specs[top.s].catch_all \/ top.arg_idx >= argc)
    BY <2>2 DEF Takes
  <2>4. acts' = Running(B, top.specs[top.s])
        /\ UNCHANGED <<script_argv, flags_arg_index>>
    BY <2>3 DEF Takes, Positional, height
  <2> HIDE DEF B
  <2>5. acts' \in {B, Append(B, Body)}
    BY <2>4, RunningForms
  <2> QED  BY <2>1, <2>4, <2>5 DEF Takes
<1>2. /\ top \in Matcher /\ n > 0 /\ n \in Nat /\ top = acts[n]
      /\ acts \in Seq(Block \cup Matcher) /\ n = Len(acts)
  BY <1>1, TopTypes DEF Types
<1>3. /\ m \in Scripts /\ m \in 1..n /\ acts[m] \in Block /\ IsScript(acts[m])
      /\ m # n /\ \A k \in Scripts : k \in 1..n /\ (k <= n => k <= m)
  <2>1. /\ m \in Scripts /\ m \in 1..n /\ acts[m] \in Block /\ IsScript(acts[m])
        /\ \A k \in Scripts : k <= n => k <= m
    BY <1>2, ScriptAt
  <2>2. m # n
    BY <1>1, <1>2, <2>1 DEF Block
  <2> QED  BY <2>1, <2>2, Domains DEF Shape
<1>4. Goes(top, g, argc) /\ g.phase = top.phase /\ g.arg_idx = top.arg_idx + 1
  <2>1. PICK f \in Matcher, k \in Nat, x \in Nat :
          f = top /\ k = argc /\ x = f.arg_idx
    BY <1>1, <1>2, Numbers
  <2>2. g = Gone(f, <<x>>, f.s + 1, f.a, x + 1, f.letters)
    BY <1>1, <1>2, <2>1, GoneForms
  <2>3. f.s + 1 \in Nat /\ f.a \in Nat /\ x + 1 \in Nat /\ f.letters \in Seq(Word)
        /\ f.mode > 0 /\ f.phase = "match" /\ x < k
    BY <1>1, <2>1 DEF Matcher
  <2>4. /\ <<x>> \in Seq(Nat) /\ \A i \in DOMAIN <<x>> : i = 1 /\ <<x>>[i] = x
    OBVIOUS
  <2>5. ASSUME Reach(f), NEW h \in Matcher,
               h.mode = f.mode, h.phase = f.phase, h.specs = f.specs,
               Hands(f, h, <<x>>), h.a = f.a, h.arg_idx = x + 1
        PROVE  Reach(h)
    <3>1. \A y \in f.handled : y \in Nat /\ y < x
      BY <2>1, <2>3, <2>5 DEF Reach, Matcher
    <3>2. h.handled = f.handled \cup {x}
      BY <2>5 DEF Hands
    <3>3. \A y \in h.handled : y < h.arg_idx
      BY <2>5, <3>1, <3>2
    <3>4. h.a = 2 /\ h.mode > 0 /\ h.mode # 0 /\ h.phase = "match"
      BY <2>3, <2>5 DEF Reach
    <3> QED  BY <3>3, <3>4 DEF Reach
  <2>6. Reach(f) => x \notin f.handled
    BY <2>1, <2>3 DEF Reach, Matcher
  <2>7. Allowed(f, <<x>>, f.a, x + 1)
    BY <2>4, <2>5, <2>6 DEF Allowed
  <2>8. \A i \in DOMAIN <<x>> : <<x>>[i] < k
    BY <2>3, <2>4
  <2>9. Goes(f, g, k) /\ g.phase = f.phase /\ g.arg_idx = x + 1
    <3>1. PICK list \in Seq(Nat), s \in Nat, y \in Nat, a \in Nat :
            list = <<x>> /\ s = f.s + 1 /\ y = x + 1 /\ a = f.a
      BY <2>3, <2>4
    <3>2. PICK letters \in Seq(Word) : letters = f.letters
      BY <2>3
    <3>3. /\ Under(list, k)
          /\ Allowed(f, list, a, y) /\ g = Gone(f, list, s, a, y, letters)
      BY <2>2, <2>7, <2>8, <3>1, <3>2 DEF Under
    <3>4. /\ Goes(f, Gone(f, list, s, a, y, letters), k)
          /\ Gone(f, list, s, a, y, letters).phase = f.phase
          /\ Gone(f, list, s, a, y, letters).arg_idx = y
      BY <3>3, GoesOn
    <3> QED  BY <3>1, <3>3, <3>4
  <2> QED  BY <2>1, <2>9
<1>5. g \in Matcher /\ g.mode = top.mode /\ g.kind = "flags"
  BY <1>4 DEF Goes, Matcher
<1>6. PICK s \in Block :
        /\ s = [acts[m] EXCEPT !.takes = Append(@, top.arg_idx)]
        /\ acts[m].takes \in Seq(Nat) /\ acts[m].first \in Nat
        /\ s.takes = Append(acts[m].takes, top.arg_idx)
        /\ s.tangled = acts[m].tangled /\ Same(acts[m], s)
  <2> DEFINE s == [acts[m] EXCEPT !.takes = Append(@, top.arg_idx)]
  <2>1. PICK r \in Block, x \in Nat : r = acts[m] /\ x = top.arg_idx
    BY <1>2, <1>3 DEF Matcher
  <2>2. Append(r.takes, x) \in Seq(Nat) /\ r.takes \in Seq(Nat)
    BY DEF Block
  <2>3. PICK t \in Seq(Nat) : t = Append(r.takes, x)
    BY <2>2
  <2>4. /\ [r EXCEPT !.takes = t] \in Block
        /\ [r EXCEPT !.takes = t].takes = t
        /\ [r EXCEPT !.takes = t].tangled = r.tangled
        /\ Same(r, [r EXCEPT !.takes = t]) /\ r.first \in Nat
    BY DEF Block, Same
  <2>5. s = [r EXCEPT !.takes = t]
    BY <2>1, <2>3
  <2> QED  BY <2>1, <2>2, <2>3, <2>4, <2>5
<1>7. /\ B \in Seq(Block \cup Matcher) /\ Len(B) = n
      /\ B[n] = g /\ B[m] = s
      /\ \A i \in 1..n : i # n /\ i # m => B[i] = acts[i]
  <2> DEFINE T == [acts EXCEPT ![n] = g]
  <2>1. Top(g) = T
    BY <1>2 DEF Top
  <2>2. /\ T \in Seq(Block \cup Matcher) /\ Len(T) = n /\ T[n] = g
        /\ \A i \in 1..n : i # n => T[i] = acts[i]
    BY <1>2, <1>5
  <2> HIDE DEF T
  <2>3. B = [T EXCEPT ![m] = s]
    BY <1>3, <1>6, <2>1, <2>2
  <2> HIDE DEF B
  <2> QED  BY <1>3, <1>6, <2>2, <2>3
<1> HIDE DEF B
<1>8. /\ acts' \in Seq(Block \cup Matcher) /\ height' \in {n, n + 1}
      /\ \A i \in 1..n : acts'[i] = B[i]
      /\ height' = n + 1 => acts'[n + 1] = Body
  <2>1. acts' = B \/ acts' = Append(B, Body)
    BY <1>1 DEF B
  <2> HIDE DEF B
  <2>2. CASE acts' = B
    BY <1>2, <1>7, <2>2 DEF height
  <2>3. CASE acts' = Append(B, Body)
    <3>1. PICK b \in Block : b = Body
      BY BodyType
    <3>2. PICK z \in Seq(Block \cup Matcher) : z = B
      BY <1>7
    <3>3. /\ Append(z, b) \in Seq(Block \cup Matcher)
          /\ Len(Append(z, b)) = Len(z) + 1 /\ Append(z, b)[Len(z) + 1] = b
          /\ \A i \in 1..Len(z) : Append(z, b)[i] = z[i]
      BY AppendProperties
    <3> QED  BY <1>2, <1>7, <2>3, <3>1, <3>2, <3>3 DEF height
  <2> QED  BY <2>1, <2>2, <2>3
<1>9. acts'[n] = g /\ acts'[m] = s
      /\ \A i \in 1..n : i # n /\ i # m => acts'[i] = acts[i]
  BY <1>2, <1>3, <1>7, <1>8
<1>10. Grows(g)
  <2>1. \A i \in 1..n : Same(acts[i], acts'[i])
    <3>1. Same(acts[n], acts'[n])
      BY <1>1, <1>2, <1>5, <1>9 DEF Same
    <3>2. Same(acts[m], acts'[m])
      BY <1>6, <1>9
    <3>3. \A i \in 1..n : i # n /\ i # m => Same(acts[i], acts'[i])
      BY <1>9 DEF Same
    <3> QED  BY <3>1, <3>2, <3>3
  <2>2. \A i \in 1..(n - 1) : acts[i].kind = "flags" => acts'[i] = acts[i]
    <3>1. acts[m].kind # "flags"
      BY <1>3 DEF Block
    <3> QED  BY <1>2, <1>9, <3>1
  <2>3. \A i \in Scripts : i # m => Counts(acts[i], acts'[i])
    <3>1. \A i \in Scripts : i \in 1..n /\ i # n
      BY <1>1, <1>2, <1>3 DEF Scripts
    <3> QED  BY <1>9, <3>1 DEF Counts
  <2>4. height' = n + 1 => ~IsScript(acts'[n + 1])
    BY <1>8, BodyType DEF IsScript
  <2> QED  BY <1>1, <1>2, <1>8, <1>9, <2>1, <2>2, <2>3, <2>4 DEF Grows
<1> QED  BY <1>1, <1>4, <1>5, <1>6, <1>8, <1>9, <1>10

LEMMA TakeInv ==
  ASSUME Inv, NEW g, Takes(g)
  PROVE  Inv'
<1>1. PICK n, m : n = height /\ m = ScriptOf(n) /\ m = ScriptOf(height)
  OBVIOUS
<1>2. /\ Grows(g) /\ Goes(top, g, argc)
      /\ top.kind = "flags" /\ top.phase = "match" /\ top.mode > 0
      /\ g.phase = "match" /\ g.mode = top.mode /\ g.arg_idx = top.arg_idx + 1
      /\ acts[m].takes \in Seq(Nat) /\ acts[m].first \in Nat
      /\ acts'[m].takes = Append(acts[m].takes, top.arg_idx)
      /\ acts'[m].tangled = acts[m].tangled
      /\ height' = n + 1 => acts'[n + 1] = Body
      /\ flags_arg_index' = flags_arg_index /\ flags_arg_index' \in Nat
  BY <1>1, TakesForms DEF Inv, Types
<1>3. Fits(n)' /\ Serves(acts'[n])
  BY <1>1, <1>2, TurnFits
<1>4. /\ Types' /\ Scripts' = Scripts /\ m \in Scripts /\ Last(m) /\ Last(m)'
      /\ m \in 1..n /\ Same(acts[m], acts'[m]) /\ Flags' \subseteq 1..height'
      /\ \A i \in m..height' : ScriptOf(i)' = m
      /\ Scripts \subseteq 1..n /\ n \in Nat /\ height' \in {n, n + 1}
      /\ Types /\ top \in Matcher /\ top = acts[n]
  BY <1>1, <1>2, GrowsFrame, Domains, DomainsNext DEF Shape, Grows, Inv, top, height
<1>5. n + 1 \notin Flags'
  <2>1. n + 1 \in Flags' => height' = n + 1 /\ acts'[n + 1].kind = "flags"
    BY <1>4 DEF Flags
  <2> QED  BY <1>2, <2>1, BodyType
<1>6. Good(m)'
  <2> SUFFICES ASSUME ~acts'[m].lost, ~acts'[m].tangled
               PROVE  Good(m)'
    BY DEF Good
  <2>1. acts[m].kind = "block"
    BY <1>4 DEF Scripts
  <2>2. ~acts[m].lost /\ ~acts[m].tangled /\ Good(m)
        /\ acts'[m].first = acts[m].first
    BY <1>2, <1>4, <2>1 DEF Same, Inv
  <2>3. n \in Numbered(m) /\ n \in Numbered(m)'
    <3>1. n \in Numbered(m)
      BY <1>1, <1>2, <1>4 DEF Numbered, Flags, height
    <3>2. acts'[n] = g /\ n \in 1..height' /\ n \in m..height'
      BY <1>1, <1>2, <1>4 DEF Grows
    <3>3. n \in Flags' /\ acts'[n].mode > 0
      BY <1>2, <1>4, <3>2, DomainsNext DEF Shape, Goes, Matcher
    <3> QED  BY <1>4, <3>1, <3>2, <3>3 DEF Numbered
  <2>4. top.arg_idx = Due(acts[m]) /\ \A i \in Numbered(m) : i = n
    BY <1>1, <1>2, <1>4, <2>2, <2>3 DEF Good
  <2>5. \A i \in Numbered(m)' : i = n
    <3>1. ASSUME NEW i \in Numbered(m)' PROVE i = n
      <4>1. /\ i \in Nat /\ acts'[i].kind = "flags"
            /\ (i < n /\ i \in Numbered(m)) \/ i = n \/ (i = n + 1 /\ height' = n + 1)
        BY <1>1, <1>2, NumberedAfter, Inv
      <4> QED  BY <1>2, <1>4, <2>4, <4>1, BodyType
    <3> QED  BY <3>1
  <2>6. PICK t \in Seq(Nat), e \in Nat :
          t = acts[m].takes /\ e = acts[m].first
    BY <1>2
  <2>7. /\ t = [k \in 1..Len(t) |-> e + k - 1]
        /\ top.arg_idx = e + Len(t)
    BY <2>2, <2>4, <2>6 DEF Good, Due
  <2>8. /\ Append(t, e + Len(t)) = [k \in 1..(Len(t) + 1) |-> e + k - 1]
        /\ Len(Append(t, e + Len(t))) = Len(t) + 1
    <3>1. PICK u : u = Append(t, e + Len(t))
      OBVIOUS
    <3>2. /\ u \in Seq(Nat) /\ Len(u) = Len(t) + 1 /\ Len(t) \in Nat
          /\ \A k \in 1..(Len(t) + 1) :
               u[k] = IF k = Len(t) + 1 THEN e + Len(t) ELSE t[k]
      BY <3>1
    <3>3. \A k \in 1..(Len(t) + 1) : u[k] = e + k - 1
      <4>1. ASSUME NEW k \in 1..Len(t) PROVE u[k] = e + k - 1
        <5>1. t[k] = e + k - 1
          BY <2>7, <4>1
        <5> QED  BY <3>2, <4>1, <5>1
      <4>2. ASSUME NEW k, k = Len(t) + 1 PROVE u[k] = e + k - 1
        BY <3>2, <4>2
      <4>3. \A k \in 1..(Len(t) + 1) : k \in 1..Len(t) \/ k = Len(t) + 1
        BY <3>2
      <4> QED  BY <4>1, <4>2, <4>3
    <3>4. u = [k \in 1..(Len(t) + 1) |-> e + k - 1]
      BY <3>2, <3>3
    <3> QED  BY <3>1, <3>2, <3>4
  <2>9. /\ acts'[m].takes
             = [k \in 1..Len(acts'[m].takes) |-> acts'[m].first + k - 1]
        /\ Due(acts'[m]) = top.arg_idx + 1
    <3>1. PICK u : u = Append(t, e + Len(t))
      OBVIOUS
    <3>2. acts'[m].takes = u /\ acts'[m].first = e
      BY <1>2, <2>2, <2>6, <2>7, <3>1
    <3>3. /\ u = [k \in 1..(Len(t) + 1) |-> e + k - 1]
          /\ Len(u) = Len(t) + 1
      BY <2>8, <3>1, Zenon
    <3>4. Len(t) \in Nat
      OBVIOUS
    <3> QED  BY <2>7, <3>2, <3>3, <3>4 DEF Due
  <2>10. acts'[n].phase = "match" /\ acts'[n].arg_idx = top.arg_idx + 1
    BY <1>1, <1>2 DEF Grows
  <2> QED  BY <2>3, <2>5, <2>9, <2>10 DEF Good
<1> QED  BY <1>1, <1>2, <1>3, <1>4, <1>5, <1>6, GrowsInv

(* A block goes on to its next statement.                                   *)
LEMMA AtForms ==
  ASSUME Types, NEW type, AtStatement(type), NEW inTry \in BOOLEAN,
         NEW t, t = [top EXCEPT !.todo = Tail(@), !.guarded = inTry]
  PROVE  /\ acts # <<>> /\ top \in Block /\ t \in Block
         /\ Head(top.todo) \in Statement /\ Head(top.todo).type = type
         /\ Same(top, t) /\ Counts(top, t)
<1>1. acts # <<>> /\ top.kind = "block" /\ top.todo # <<>>
      /\ Head(top.todo).type = type
  BY DEF AtStatement
<1>2. PICK b \in Block : b = top
  BY <1>1, TopTypes
<1>3. b.todo \in Seq(Statement) /\ b.todo # <<>>
  BY <1>1, <1>2 DEF Block
<1>4. PICK q \in Seq(Statement) : q = Tail(b.todo)
  <2>1. Tail(b.todo) \in Seq(Statement)
    BY <1>3
  <2> QED  BY <2>1
<1>5. Head(b.todo) \in Statement
  BY <1>3
<1>6. t = [b EXCEPT !.todo = q, !.guarded = inTry]
  BY <1>2, <1>4
<1>7. t \in Block /\ Same(b, t) /\ Counts(b, t)
  BY <1>6 DEF Block, Same, Counts
<1> QED  BY <1>1, <1>2, <1>5, <1>7

LEMMA StartForms ==
  ASSUME Types, NEW inTry \in BOOLEAN, FlagsStart(inTry),
         NEW n, n = height, NEW m, m = ScriptOf(n), NEW g, g = acts'[n],
         NEW f, f = acts'[n + 1]
  PROVE  /\ Grows(g) /\ height' = n + 1 /\ flags_arg_index' = flags_arg_index
         /\ f \in Matcher /\ Serves(f) /\ f.size = argc /\ f.handled = {}
         /\ f.phase = "match" /\ f.arg_idx = flags_arg_index
         /\ acts[n].kind = "block" /\ acts'[n].kind = "block"
         /\ acts'[m].takes = acts[m].takes
         /\ acts[m].tangled => acts'[m].tangled
         /\ f.mode = 0 => Counts(acts[m], acts'[m])
         /\ f.mode > 0 /\ (\E k \in Flags : k > m /\ acts[k].mode > 0)
              => acts'[m].tangled
<1> DEFINE st == Head(top.todo)
           c == st.mode > 0 /\ \E k \in Flags : k > m /\ acts[k].mode > 0
           t == [top EXCEPT !.todo = Tail(@), !.guarded = inTry]
           here == [Top(t) EXCEPT ![m].tangled = @ \/ c]
           e == [kind |-> "flags", phase |-> "match", mode |-> st.mode,
                 specs |-> st.specs, s |-> 1, a |-> 2, letters |-> <<>>,
                 arg_idx |-> flags_arg_index, size |-> argc, handled |-> {},
                 dealt |-> <<>>, guarded |-> FALSE, lost |-> FALSE,
                 tangled |-> FALSE]
<1>1. /\ AtStatement("flags") /\ acts' = Append(here, e)
      /\ UNCHANGED <<script_argv, flags_arg_index>>
  BY DEF FlagsStart, HandledSize, height
<1>2. /\ acts # <<>> /\ top \in Block /\ t \in Block /\ st \in Statement
      /\ st.type = "flags" /\ Same(top, t) /\ Counts(top, t)
  BY <1>1, AtForms
<1>3. /\ n > 0 /\ n \in Nat /\ top = acts[n] /\ n = Len(acts)
      /\ acts \in Seq(Block \cup Matcher)
      /\ argc \in Nat /\ flags_arg_index \in Nat /\ script_argv' = script_argv
  BY <1>1, <1>2, TopTypes DEF Types, argc
<1>4. st.mode \in 0..MaxMode /\ st.specs \in Seq(FlagSpec) /\ st.mode \in Nat
  <2>1. PICK x \in Statement : x = st
    BY <1>2
  <2>2. x.type = "flags" /\ x.type # "execute"
    BY <1>2, <2>1
  <2>3. x.mode \in 0..MaxMode /\ x.specs \in Seq(FlagSpec)
    BY <2>2, StatementAssumption
  <2> QED  BY <2>1, <2>3, BoundsAssumption
<1>5. /\ m \in Scripts /\ m \in 1..n /\ acts[m] \in Block /\ IsScript(acts[m])
      /\ Scripts \subseteq 1..n
  BY <1>2, <1>3, ScriptAt, Domains DEF Shape
<1>6. e \in Matcher
  BY <1>3, <1>4 DEF Matcher
<1>7. PICK b \in BOOLEAN : b = c
  OBVIOUS
<1> HIDE DEF st, c
<1>8. PICK T \in Seq(Block \cup Matcher) :
        /\ T = Top(t) /\ Len(T) = n /\ T[n] = t
        /\ \A i \in 1..n : i # n => T[i] = acts[i]
  <2> DEFINE T == [acts EXCEPT ![n] = t]
  <2>1. Top(t) = T
    BY <1>3 DEF Top
  <2> HIDE DEF t
  <2>2. /\ T \in Seq(Block \cup Matcher) /\ Len(T) = n /\ T[n] = t
        /\ \A i \in 1..n : i # n => T[i] = acts[i]
    BY <1>2, <1>3
  <2> QED  BY <2>1, <2>2
<1>9. T[m] \in Block /\ Same(acts[m], T[m]) /\ Counts(acts[m], T[m])
  BY <1>2, <1>3, <1>5, <1>8 DEF Same, Counts
<1> HIDE DEF t, e
<1>10. PICK r \in Block : /\ r = [T[m] EXCEPT !.tangled = T[m].tangled \/ b]
                          /\ Same(acts[m], r) /\ r.takes = acts[m].takes
                          /\ r.tangled <=> (T[m].tangled \/ b)
  <2>1. PICK z \in Block : z = T[m]
    BY <1>9
  <2>2. PICK d \in BOOLEAN : d = (z.tangled \/ b)
    OBVIOUS
  <2>3. /\ [z EXCEPT !.tangled = d] \in Block
        /\ [z EXCEPT !.tangled = d].tangled = d
        /\ [z EXCEPT !.tangled = d].takes = z.takes
        /\ Same(z, [z EXCEPT !.tangled = d])
    BY DEF Block, Same
  <2>4. Same(acts[m], [z EXCEPT !.tangled = d])
    BY <1>9, <2>1, <2>3 DEF Same
  <2> DEFINE r == [T[m] EXCEPT !.tangled = T[m].tangled \/ b]
  <2>5. r = [z EXCEPT !.tangled = d]
    BY <2>1, <2>2
  <2>6. z.takes = acts[m].takes
    BY <1>9, <2>1 DEF Counts
  <2>7. r \in Block /\ Same(acts[m], r) /\ r.takes = acts[m].takes
    BY <2>3, <2>4, <2>5, <2>6
  <2>8. r.tangled <=> (T[m].tangled \/ b)
    BY <2>1, <2>2, <2>3, <2>5
  <2> HIDE DEF r
  <2> QED  BY <2>7, <2>8 DEF r
<1>11. /\ here \in Seq(Block \cup Matcher) /\ Len(here) = n
       /\ here[m] = r /\ \A i \in 1..n : i # m => here[i] = T[i]
  <2>1. here = [T EXCEPT ![m] = r]
    BY <1>5, <1>7, <1>8, <1>10
  <2> HIDE DEF here
  <2> QED  BY <1>5, <1>8, <1>10, <2>1
<1> HIDE DEF here
<1>12. /\ acts' \in Seq(Block \cup Matcher) /\ height' = n + 1
       /\ acts'[n + 1] = e /\ \A i \in 1..n : acts'[i] = here[i]
  BY <1>1, <1>3, <1>6, <1>11 DEF height
<1>13. /\ acts'[m] = r
       /\ \A i \in 1..n : i # n /\ i # m => acts'[i] = acts[i]
       /\ n # m => acts'[n] = t
  <2>1. acts'[m] = r
    BY <1>5, <1>11, <1>12
  <2>2. ASSUME NEW i \in 1..n, i # m PROVE acts'[i] = T[i]
    BY <1>11, <1>12, <2>2
  <2>3. n \in 1..n
    BY <1>3
  <2> QED  BY <1>8, <2>1, <2>2, <2>3
<1>14. \A i \in 1..n : Same(acts[i], acts'[i])
  <2>1. Same(acts[m], acts'[m])
    BY <1>10, <1>13
  <2>2. n # m => Same(acts[n], acts'[n])
    BY <1>2, <1>3, <1>13
  <2>3. ASSUME NEW i \in 1..n, i # m, i # n PROVE Same(acts[i], acts'[i])
    <3>1. acts'[i] = acts[i]
      BY <1>13, <2>3
    <3> QED  BY <3>1 DEF Same
  <2> QED  BY <2>1, <2>2, <2>3
<1>15. Grows(g)
  <2>1. \A i \in 1..(n - 1) : acts[i].kind = "flags" => acts'[i] = acts[i]
    <3>1. acts[m].kind # "flags"
      BY <1>5 DEF Block
    <3> QED  BY <1>3, <1>13, <3>1
  <2>2. \A i \in Scripts : i # m => Counts(acts[i], acts'[i])
    BY <1>2, <1>3, <1>5, <1>13 DEF Counts
  <2>3. ~IsScript(acts'[n + 1])
    BY <1>6, <1>12 DEF IsScript, Matcher
  <2> QED
    BY <1>3, <1>12, <1>14, <2>1, <2>2, <2>3 DEF Grows
<1>16. f = e /\ f \in Matcher
  BY <1>6, <1>12
<1>17. /\ f.size = argc /\ f.handled = {} /\ f.phase = "match" /\ f.a = 2
       /\ f.arg_idx = flags_arg_index /\ f.dealt = <<>> /\ f.mode = st.mode
  BY <1>16 DEF e
<1>18. Serves(f)
  <2>1. Once(f)
    BY <1>17 DEF Once
  <2>2. Reach(f)
    BY <1>17 DEF Reach
  <2> QED  BY <2>1, <2>2 DEF Serves
<1>19. acts[n].kind = "block" /\ acts'[n].kind = "block"
  BY <1>2, <1>3, <1>14 DEF Block, Same
<1>20. /\ acts'[m].takes = acts[m].takes
       /\ acts'[m].tangled <=> (acts[m].tangled \/ c)
  <2>1. T[m].tangled = acts[m].tangled
    BY <1>9 DEF Counts
  <2> QED  BY <1>7, <1>10, <1>13, <2>1
<1>21. f.mode = 0 => Counts(acts[m], acts'[m])
  <2>1. f.mode = 0 => ~b
    <3>1. f.mode = 0 => ~c
      BY <1>17 DEF c
    <3> QED  BY <1>7, <3>1
  <2>2. acts[m].tangled \in BOOLEAN
    BY <1>5 DEF Block
  <2>3. ASSUME ~b PROVE acts'[m].tangled = acts[m].tangled
    BY <1>9, <1>10, <1>13, <2>2, <2>3 DEF Counts
  <2> QED  BY <1>20, <2>1, <2>3 DEF Counts
<1>22. f.mode > 0 /\ (\E k \in Flags : k > m /\ acts[k].mode > 0)
         => acts'[m].tangled
  BY <1>17, <1>20 DEF c
<1> QED
  BY <1>1, <1>12, <1>15, <1>16, <1>17, <1>18, <1>19, <1>20, <1>21, <1>22

LEMMA FlagsStartInv ==
  ASSUME Inv, NEW inTry \in BOOLEAN, FlagsStart(inTry)
  PROVE  Inv'
<1>1. PICK n, m, g, f : /\ n = height /\ m = ScriptOf(n) /\ m = ScriptOf(height)
                        /\ g = acts'[n] /\ f = acts'[n + 1]
  OBVIOUS
<1>2. /\ Grows(g) /\ height' = n + 1 /\ flags_arg_index' = flags_arg_index
      /\ f \in Matcher /\ Serves(f) /\ f.size = argc /\ f.handled = {}
      /\ f.phase = "match" /\ f.arg_idx = flags_arg_index
      /\ acts[n].kind = "block" /\ acts'[n].kind = "block"
      /\ acts'[m].takes = acts[m].takes
      /\ acts[m].tangled => acts'[m].tangled
      /\ f.mode = 0 => Counts(acts[m], acts'[m])
      /\ f.mode > 0 /\ (\E k \in Flags : k > m /\ acts[k].mode > 0)
           => acts'[m].tangled
      /\ flags_arg_index' \in Nat /\ Types
  BY <1>1, StartForms DEF Inv, Types
<1>3. /\ Types' /\ Scripts' = Scripts /\ m \in Scripts /\ Last(m) /\ Last(m)'
      /\ m \in 1..n /\ Same(acts[m], acts'[m]) /\ Flags' \subseteq 1..height'
      /\ Flags' = {i \in 1..height' : acts'[i].kind = "flags"}
      /\ \A i \in m..height' : ScriptOf(i)' = m
      /\ Scripts \subseteq 1..n /\ n \in Nat /\ acts[m].kind = "block"
      /\ Flags \subseteq 1..n
  <2>1. /\ Types' /\ Scripts' = Scripts /\ m \in Scripts /\ Last(m) /\ Last(m)'
        /\ m \in 1..n /\ Same(acts[m], acts'[m])
        /\ \A i \in m..height' : ScriptOf(i)' = m
    BY <1>1, <1>2, GrowsFrame
  <2>2. Shape /\ Shape'
    BY <1>2, <2>1, Domains, DomainsNext
  <2>3. /\ Flags' \subseteq 1..height'
        /\ Flags' = {i \in 1..height' : acts'[i].kind = "flags"}
        /\ Scripts \subseteq 1..n /\ n \in Nat /\ Flags \subseteq 1..n
    BY <1>1, <2>2 DEF Shape
  <2>4. acts[m].kind = "block"
    BY <2>1 DEF Scripts
  <2> QED  BY <2>1, <2>3, <2>4
<1>4. n \notin Flags' /\ n + 1 \in Flags' /\ ScriptOf(n + 1)' = m
  BY <1>1, <1>2, <1>3 DEF Matcher
<1>5. Fits(n + 1)'
  <2>1. InScript(n + 1)' = acts'[m]
    BY <1>4 DEF InScript
  <2>2. Keeps(m)
    BY <1>3 DEF Inv
  <2>3. ~acts'[m].lost => argc = Len(acts'[m].own)
    BY <1>3, <2>2 DEF Keeps, Same, argc
  <2>4. acts'[n + 1].size = argc /\ acts'[n + 1].handled = {}
    BY <1>1, <1>2
  <2> QED  BY <2>1, <2>3, <2>4 DEF Fits
<1>6. CASE f.mode = 0
  <2>1. Quiet
    <3>1. \A i \in Scripts : Counts(acts[i], acts'[i])
      BY <1>1, <1>2, <1>6 DEF Grows
    <3>2. top.kind # "flags"
      BY <1>1, <1>2, TopTypes DEF top, height
    <3> QED  BY <1>1, <1>2, <1>6, <3>1, <3>2 DEF Quiet
  <2>2. Good(m)'
    BY <1>1, <1>2, <2>1, QuietGood
  <2> QED  BY <1>1, <1>2, <1>4, <1>5, <2>2, GrowsInv
<1>7. CASE f.mode > 0
  <2>1. Good(m)'
    <3> SUFFICES ASSUME ~acts'[m].lost, ~acts'[m].tangled
                 PROVE  Good(m)'
      BY DEF Good
    <3>1. ~acts[m].lost /\ ~acts[m].tangled /\ Good(m)
          /\ acts'[m].first = acts[m].first /\ Due(acts'[m]) = Due(acts[m])
      BY <1>2, <1>3 DEF Same, Inv, Due
    <3>2. ASSUME NEW i \in Numbered(m) PROVE FALSE
      <4>1. i \in Flags /\ ScriptOf(i) = m /\ acts[i].mode > 0
        BY DEF Numbered
      <4>2. i \in 1..height
        BY <1>1, <1>3, <4>1
      <4>3. m \in 1..i
        BY <1>2, <4>1, <4>2, Placed DEF Places
      <4>4. i # m
        BY <1>3, <4>1 DEF Flags
      <4> QED  BY <1>2, <1>7, <4>1, <4>2, <4>3, <4>4
    <3>3. flags_arg_index = Due(acts[m])
      BY <1>3, <3>1, <3>2 DEF Good
    <3>4. n + 1 \in Numbered(m)'
      BY <1>1, <1>4, <1>7 DEF Numbered
    <3>5. \A i \in Numbered(m)' : i = n + 1
      <4>1. ASSUME NEW i \in Numbered(m)' PROVE i = n + 1
        <5>1. /\ i \in Nat /\ acts'[i].kind = "flags"
              /\ (i < n /\ i \in Numbered(m)) \/ i = n \/ i = n + 1
          BY <1>1, <1>2, NumberedAfter
        <5> QED  BY <1>2, <3>2, <5>1
      <4> QED  BY <4>1
    <3> QED  BY <1>1, <1>2, <3>1, <3>3, <3>4, <3>5 DEF Good
  <2> QED  BY <1>1, <1>2, <1>4, <1>5, <2>1, GrowsInv
<1>8. f.mode = 0 \/ f.mode > 0
  BY <1>2, BoundsAssumption DEF Matcher
<1> QED  BY <1>6, <1>7, <1>8

-----------------------------------------------------------------------------
(* The stack shrinks.                                                       *)

LEMMA EmptyInv ==
  ASSUME acts' = <<>>, script_argv' \in Seq(Word), flags_arg_index' \in Nat
  PROVE  Inv'
<1>1. Types'
  BY DEF Types, height
<1>2. Scripts' = {} /\ Flags' = {}
  BY DEF Scripts, Flags
<1> QED  BY <1>1, <1>2 DEF Inv

LEMMA ShrinksTypes ==
  ASSUME Types, height' > 0, Aligned(height'),
         acts' \in Seq(Block \cup Matcher),
         script_argv' \in Seq(Word), flags_arg_index' \in Nat
  PROVE  Types'
<1>1. height \in Nat /\ height' \in Nat /\ height' <= height /\ height' = Len(acts')
      /\ \A i \in 1..height' : Alike(acts[i], acts'[i])
  BY DEF Types, height, Aligned
<1>2. acts'[1].kind = "block" /\ acts'[1].owner = "main"
  BY <1>1 DEF Types, Alike, height
<1>3. ASSUME NEW i \in 2..height', acts'[i].kind = "block", acts'[i].owner # "body"
      PROVE  acts'[i].owner = "execute" /\ acts'[i].saved \in Seq(Word) \X Nat
  <2>1. i \in 2..height /\ Alike(acts[i], acts'[i])
    BY <1>1
  <2> QED  BY <1>3, <2>1 DEF Types, Alike
<1>4. \A i \in 2..height' :
        acts'[i].kind = "block" /\ acts'[i].owner # "body" =>
          acts'[i].owner = "execute" /\ acts'[i].saved \in Seq(Word) \X Nat
  BY <1>3
<1> QED  BY <1>1, <1>2, <1>4 DEF Types

LEMMA ShrinksFrame ==
  ASSUME Inv, Types', NEW n, n = height', n > 0, n <= height,
         NEW m, m = ScriptOf(n), Aligned(n),
         \A i \in 1..n : acts[i].kind = "flags" => acts'[i] = acts[i],
         \A j \in Scripts :
           j < m => acts'[j].lost = acts[j].lost /\ Counts(acts[j], acts'[j])
  PROVE  /\ n \in Nat /\ m \in Scripts /\ m \in Scripts' /\ m \in 1..n /\ Last(m)'
         /\ Alike(acts[m], acts'[m]) /\ acts[m].kind = "block"
         /\ \A j \in Scripts' : j \in Scripts /\ j \in 1..n
         /\ \A j \in Scripts : j \in 1..n => j \in Scripts' /\ j <= m
         /\ \A j \in Scripts' : j # m => Keeps(j)' /\ Good(j)'
         /\ \A i \in Flags' : Fits(i)' /\ Serves(acts'[i])
         /\ \A i \in Numbered(m)' :
              i \in Numbered(m) /\ i \in 1..n /\ acts'[i] = acts[i]
         /\ \A i \in Numbered(m) :
              i \in 1..n => i \in Numbered(m)' /\ acts'[i] = acts[i]
<1>1. /\ Types /\ height \in Nat /\ n \in Nat /\ n \in 1..height
      /\ Scripts \subseteq 1..height /\ Scripts' \subseteq 1..n
      /\ Flags \subseteq 1..height /\ Flags' \subseteq 1..n
  BY Domains, DomainsNext DEF Inv, Shape
<1>2. \A i \in 1..n : /\ i \in Scripts' <=> i \in Scripts
                      /\ i \in Flags' <=> i \in Flags
                      /\ ScriptOf(i)' = ScriptOf(i)
  BY <1>1, Framed
<1>3. /\ m \in Scripts /\ m \in 1..n
      /\ \A k \in Scripts : k <= n => k <= m
  BY <1>1, Placed DEF Places
<1>4. /\ m \in Scripts' /\ Alike(acts[m], acts'[m]) /\ acts[m].kind = "block"
      /\ \A j \in Scripts' : j \in Scripts /\ j \in 1..n
      /\ \A j \in Scripts : j \in 1..n => j \in Scripts' /\ j <= m
  BY <1>1, <1>2, <1>3 DEF Aligned, Scripts
<1>5. Last(m)'
  BY <1>1, <1>4 DEF Last
<1>6. ASSUME NEW j \in Scripts', j # m PROVE Keeps(j)' /\ Good(j)'
  <2>1. j \in Scripts /\ j < m /\ j \in 1..n
    BY <1>1, <1>3, <1>4, <1>6
  <2>2. Aligned(m)
    BY <1>1, <1>3 DEF Aligned
  <2>3. \A i \in 1..(m - 1) : acts[i].kind = "flags" => acts'[i] = acts[i]
    BY <1>1, <1>3
  <2>4. /\ Keeps(j) /\ Good(j)
        /\ acts'[j].lost = acts[j].lost /\ Counts(acts[j], acts'[j])
    BY <2>1 DEF Inv
  <2> QED  BY <1>1, <1>3, <2>1, <2>2, <2>3, <2>4, Below
<1>7. ASSUME NEW i \in Flags' PROVE Fits(i)' /\ Serves(acts'[i])
  <2>1. i \in 1..n /\ i \in Flags /\ acts'[i] = acts[i]
    BY <1>1, <1>2, <1>7 DEF Flags
  <2>2. Fits(i) /\ Serves(acts[i])
    BY <2>1 DEF Inv
  <2> QED  BY <1>1, <2>1, <2>2, FitsOn
<1>8. ASSUME NEW i \in Numbered(m)'
      PROVE  i \in Numbered(m) /\ i \in 1..n /\ acts'[i] = acts[i]
  <2>1. i \in Flags' /\ ScriptOf(i)' = m /\ acts'[i].mode > 0 /\ i \in 1..n
    BY <1>1 DEF Numbered
  <2>2. i \in Flags /\ ScriptOf(i) = m /\ acts'[i] = acts[i]
    BY <1>2, <2>1 DEF Flags
  <2> QED  BY <2>1, <2>2 DEF Numbered
<1>9. ASSUME NEW i \in Numbered(m), i \in 1..n
      PROVE  i \in Numbered(m)' /\ acts'[i] = acts[i]
  <2>1. i \in Flags /\ ScriptOf(i) = m /\ acts[i].mode > 0
    BY DEF Numbered
  <2>2. i \in Flags' /\ ScriptOf(i)' = m /\ acts'[i] = acts[i]
    BY <1>2, <1>9, <2>1 DEF Flags
  <2> QED  BY <2>1, <2>2 DEF Numbered
<1> QED  BY <1>1, <1>3, <1>4, <1>5, <1>6, <1>7, <1>8, <1>9

LEMMA ShrinksInv ==
  ASSUME Inv, Types', NEW n, n = height', n > 0, n <= height,
         NEW m, m = ScriptOf(n), Aligned(n),
         \A i \in 1..n : acts[i].kind = "flags" => acts'[i] = acts[i],
         \A j \in Scripts :
           j < m => acts'[j].lost = acts[j].lost /\ Counts(acts[j], acts'[j]),
         Keeps(m)', Good(m)'
  PROVE  Inv'
<1>1. /\ \A j \in Scripts' : j # m => Keeps(j)' /\ Good(j)'
      /\ \A i \in Flags' : Fits(i)' /\ Serves(acts'[i])
  BY ShrinksFrame
<1> QED  BY <1>1 DEF Inv

(* The record on top ends.                                                  *)
LEMMA PopForms ==
  ASSUME Types, acts' = Pop, NEW n \in Nat, n > 0, height = n + 1,
         script_argv' \in Seq(Word), flags_arg_index' \in Nat
  PROVE  /\ Types' /\ Aligned(n) /\ height' = n /\ height = n + 1
         /\ n \in Nat /\ n > 0 /\ height \in Nat /\ height' \in Nat
         /\ \A i \in 1..n : acts'[i] = acts[i]
<1>1. /\ acts \in Seq(Block \cup Matcher) /\ height = Len(acts)
      /\ height \in Nat /\ Len(acts) \in Nat
      /\ n \in Nat /\ n > 0 /\ height = n + 1
  BY DEF Types, height
<1>2. /\ Pop \in Seq(Block \cup Matcher) /\ Len(Pop) = n
      /\ \A i \in 1..n : Pop[i] = acts[i]
  <2>1. Pop = SubSeq(acts, 1, n)
    BY <1>1 DEF Pop
  <2>2. ASSUME NEW i \in 1..n PROVE acts[i] \in Block \cup Matcher
    <3>1. Len(acts) = n + 1
      BY <1>1
    <3>2. i \in 1..(n + 1)
      OBVIOUS
    <3>3. \A k \in 1..Len(acts) : acts[k] \in Block \cup Matcher
      BY DEF Types
    <3> QED  BY <3>1, <3>2, <3>3
  <2>3. /\ SubSeq(acts, 1, n) \in Seq(Block \cup Matcher)
        /\ Len(SubSeq(acts, 1, n)) = n
        /\ \A i \in 1..n : SubSeq(acts, 1, n)[i] = acts[i]
    BY <1>1, <2>2, SubSeqProperties
  <2> QED  BY <2>1, <2>3
<1>3. /\ acts' \in Seq(Block \cup Matcher) /\ height' = n
      /\ \A i \in 1..n : acts'[i] = acts[i]
  BY <1>2 DEF height
<1>0. height' \in Nat
  BY <1>1, <1>3
<1>4. Aligned(n)
  <2>1. ASSUME NEW i \in 1..n PROVE Alike(acts[i], acts'[i])
    <3>1. acts'[i] = acts[i]
      BY <1>3
    <3> QED  BY <3>1 DEF Alike
  <2>2. n <= height
    BY <1>1
  <2>3. n <= height'
    BY <1>0, <1>1, <1>3
  <2> QED  BY <1>1, <2>1, <2>2, <2>3 DEF Aligned
<1>5. Types'
  BY <1>1, <1>3, <1>4, ShrinksTypes
<1> QED  BY <1>0, <1>1, <1>3, <1>4, <1>5

LEMMA PopEmpty ==
  ASSUME Types, acts # <<>>, acts' = Pop, NEW n \in Nat, ~(n > 0), height = n + 1
  PROVE  acts' = <<>> /\ height = 1
<1>1. height = 1 /\ Len(acts) = 1
  BY TopTypes
<1>2. Pop = SubSeq(acts, 1, 0)
  BY <1>1 DEF Pop
<1> QED  BY <1>1, <1>2, SubSeqEmpty

(* The body of a spec or a flags statement ends.                            *)
LEMMA InnerEnds ==
  ASSUME Inv, acts' = Pop, NEW n \in Nat, n > 0, height = n + 1, ~IsScript(top),
         top.kind = "flags" => top.phase = "rest" \/ top.mode = 0,
         UNCHANGED <<script_argv, flags_arg_index>>
  PROVE  Inv'
<1>1. PICK m : m = ScriptOf(n)
  OBVIOUS
<1>2. script_argv' \in Seq(Word) /\ flags_arg_index' \in Nat /\ Types
  BY DEF Inv, Types
<1>3. /\ Types' /\ Aligned(n) /\ height' = n /\ height = n + 1
      /\ n \in Nat /\ n > 0 /\ n <= height
      /\ height \in Nat /\ height' \in Nat
      /\ \A i \in 1..n : acts'[i] = acts[i]
  BY <1>1, <1>2, PopForms DEF Aligned
<1>4. \A j \in Scripts : j < m => acts'[j].lost = acts[j].lost
                                  /\ Counts(acts[j], acts'[j])
  <2>1. n \in 1..height
    BY <1>3
  <2>2. m \in 1..n /\ Scripts \subseteq 1..height
    BY <1>1, <1>2, <2>1, Placed, Domains DEF Places, Shape
  <2>3. ASSUME NEW j \in Scripts, j < m PROVE acts'[j] = acts[j]
    <3>1. j \in 1..height
      BY <2>2
    <3>2. j \in 1..n
      BY <1>3, <2>2, <2>3, <3>1
    <3> QED  BY <1>3, <3>2
  <2> QED  BY <2>3 DEF Counts
<1>5. /\ m \in Scripts /\ m \in Scripts' /\ m \in 1..n /\ Last(m)'
      /\ \A j \in Scripts' : j \in Scripts /\ j \in 1..n
      /\ \A j \in Scripts : j \in 1..n => j \in Scripts' /\ j <= m
      /\ \A i \in Numbered(m)' :
           i \in Numbered(m) /\ i \in 1..n /\ acts'[i] = acts[i]
      /\ \A i \in Numbered(m) :
           i \in 1..n => i \in Numbered(m)' /\ acts'[i] = acts[i]
  BY <1>1, <1>3, <1>4, ShrinksFrame
<1>6. top = acts[n + 1] /\ Scripts \subseteq 1..(n + 1) /\ Flags \subseteq 1..(n + 1)
      /\ n + 1 \notin Scripts /\ acts'[m] = acts[m]
  BY <1>2, <1>3, <1>5, Domains DEF Shape, top, height
<1>7. Last(m)
  <2>1. \A k \in Scripts : k \in 1..n
    BY <1>3, <1>6
  <2> QED  BY <1>5, <2>1 DEF Last
<1>8. \A k \in Scripts' : ~Upper(m, k)'
  BY <1>5, DomainsNext, <1>3 DEF Upper, Shape
<1>9. Keeps(m) /\ Good(m)
  BY <1>5 DEF Inv
<1>10. Keeps(m)'
  BY <1>5, <1>6, <1>7, <1>8, <1>9 DEF Keeps
<1>11. ASSUME NEW i \in Numbered(m), i \notin 1..n PROVE acts[i].phase # "match"
  <2>1. i \in Flags /\ acts[i].mode > 0
    BY DEF Numbered
  <2>2. i = n + 1
    <3>1. i \in 1..(n + 1)
      BY <1>6, <2>1
    <3> QED  BY <1>3, <1>11, <3>1
  <2>3. top.kind = "flags" /\ top.mode > 0
    BY <1>6, <2>1, <2>2 DEF Flags
  <2>4. top.phase = "rest"
    BY <2>3
  <2> QED  BY <1>6, <2>2, <2>4
<1>12. Good(m)'
  <2> SUFFICES ASSUME ~acts[m].lost, ~acts[m].tangled PROVE Good(m)'
    BY <1>6 DEF Good
  <2>1. /\ acts[m].takes = [k \in 1..Len(acts[m].takes) |-> acts[m].first + k - 1]
        /\ \A i, l \in Numbered(m) : i = l
        /\ \A i \in Numbered(m) :
             acts[i].phase = "match" => acts[i].arg_idx = Due(acts[m])
        /\ (\A i \in Numbered(m) : acts[i].phase # "match") =>
             flags_arg_index = Due(acts[m])
    BY <1>7, <1>9 DEF Good
  <2>2. ASSUME \A i \in Numbered(m)' : acts'[i].phase # "match"
        PROVE  flags_arg_index' = Due(acts'[m])
    <3>1. \A i \in Numbered(m) : acts[i].phase # "match"
      BY <1>5, <1>11, <2>2
    <3> QED  BY <1>6, <2>1, <3>1
  <2>3. /\ \A i, l \in Numbered(m)' : i = l
        /\ \A i \in Numbered(m)' :
             acts'[i].phase = "match" => acts'[i].arg_idx = Due(acts'[m])
    BY <1>5, <1>6, <2>1
  <2> QED  BY <1>6, <1>8, <2>1, <2>2, <2>3 DEF Good
<1> QED  BY <1>1, <1>3, <1>4, <1>10, <1>12, ShrinksInv

(* An executed script ends: the one that executed it gets its arguments and *)
(* its cursor back.                                                         *)
LEMMA ExecuteEnds ==
  ASSUME Inv, acts' = Pop, NEW n \in Nat, n > 0, height = n + 1, IsScript(top),
         script_argv' = top.saved[1], flags_arg_index' = top.saved[2]
  PROVE  Inv'
<1>1. PICK m : m = ScriptOf(n)
  OBVIOUS
<1>2. /\ Types /\ height \in Nat /\ top = acts[height] /\ height \in Scripts
      /\ Scripts \subseteq 1..height /\ Flags \subseteq 1..height
  BY Domains DEF Inv, Shape, top, height
<1>3. script_argv' \in Seq(Word) /\ flags_arg_index' \in Nat
  BY <1>2, Domains DEF Shape
<1>4. /\ Types' /\ Aligned(n) /\ height' = n /\ height = n + 1
      /\ n \in Nat /\ n > 0 /\ n <= height
      /\ height \in Nat /\ height' \in Nat
      /\ \A i \in 1..n : acts'[i] = acts[i]
  BY <1>1, <1>2, <1>3, PopForms DEF Aligned
<1>5. \A j \in Scripts : j < m => acts'[j].lost = acts[j].lost
                                  /\ Counts(acts[j], acts'[j])
  <2>1. n \in 1..height
    BY <1>4
  <2>2. m \in 1..n
    BY <1>1, <1>2, <2>1, Placed DEF Places
  <2>3. ASSUME NEW j \in Scripts, j < m PROVE acts'[j] = acts[j]
    <3>1. j \in 1..height
      BY <1>2
    <3>2. j \in 1..n
      BY <1>4, <2>2, <2>3, <3>1
    <3> QED  BY <1>4, <3>2
  <2> QED  BY <2>3 DEF Counts
<1>6. /\ m \in Scripts /\ m \in Scripts' /\ m \in 1..n /\ Last(m)'
      /\ \A j \in Scripts' : j \in Scripts /\ j \in 1..n
      /\ \A j \in Scripts : j \in 1..n => j \in Scripts' /\ j <= m
      /\ \A i \in Numbered(m)' :
           i \in Numbered(m) /\ i \in 1..n /\ acts'[i] = acts[i]
      /\ \A i \in Numbered(m) :
           i \in 1..n => i \in Numbered(m)' /\ acts'[i] = acts[i]
  BY <1>1, <1>4, <1>5, ShrinksFrame
<1>7. acts'[m] = acts[m]
  BY <1>4, <1>6
<1>8. Upper(m, height)
  <2>1. ASSUME NEW l \in Scripts PROVE l <= m \/ height <= l
    <3>1. l \in 1..height
      BY <1>2
    <3>2. l \in 1..n \/ l = height
      BY <1>4, <3>1
    <3>3. l \in 1..n => l <= m
      BY <1>6
    <3> QED  BY <1>2, <3>2, <3>3
  <2> QED  BY <1>2, <1>4, <1>6, <2>1 DEF Upper
<1>9. \A k \in Scripts' : ~Upper(m, k)'
  BY <1>4, <1>6, DomainsNext DEF Upper, Shape
<1>10. Keeps(m) /\ Good(m)
  BY <1>6 DEF Inv
<1>11. Keeps(m)'
  BY <1>2, <1>7, <1>8, <1>9, <1>10 DEF Keeps
<1>12. \A i \in Numbered(m) : i \in 1..n
  <2>1. height \notin Flags
    BY <1>2 DEF Flags, Scripts
  <2>2. ASSUME NEW i \in Flags PROVE i \in 1..n
    <3>1. i \in 1..height /\ i # height
      BY <1>2, <2>1
    <3> QED  BY <1>4, <3>1
  <2> QED  BY <2>2 DEF Numbered
<1>13. Good(m)'
  <2> SUFFICES ASSUME ~acts[m].lost, ~acts[m].tangled PROVE Good(m)'
    BY <1>7 DEF Good
  <2>1. /\ acts[m].takes = [k \in 1..Len(acts[m].takes) |-> acts[m].first + k - 1]
        /\ \A i, l \in Numbered(m) : i = l
        /\ \A i \in Numbered(m) :
             acts[i].phase = "match" => acts[i].arg_idx = Due(acts[m])
        /\ (\A i \in Numbered(m) : acts[i].phase # "match") =>
             acts[height].saved[2] = Due(acts[m])
    BY <1>2, <1>8, <1>10 DEF Good
  <2>2. ASSUME \A i \in Numbered(m)' : acts'[i].phase # "match"
        PROVE  flags_arg_index' = Due(acts'[m])
    <3>1. \A i \in Numbered(m) : acts[i].phase # "match"
      BY <1>6, <1>12, <2>2
    <3> QED  BY <1>2, <1>7, <2>1, <3>1
  <2>3. /\ \A i, l \in Numbered(m)' : i = l
        /\ \A i \in Numbered(m)' :
             acts'[i].phase = "match" => acts'[i].arg_idx = Due(acts'[m])
    BY <1>6, <1>7, <2>1
  <2> QED  BY <1>7, <1>9, <2>1, <2>2, <2>3 DEF Good
<1> QED  BY <1>1, <1>4, <1>5, <1>11, <1>13, ShrinksInv

LEMMA BlockEndInv ==
  ASSUME Inv, BlockEnd
  PROVE  Inv'
<1>1. /\ acts # <<>> /\ top.kind = "block" /\ acts' = Pop /\ Types
      /\ top.owner = "execute" =>
           script_argv' = top.saved[1] /\ flags_arg_index' = top.saved[2]
      /\ top.owner # "execute" => UNCHANGED <<script_argv, flags_arg_index>>
  BY DEF BlockEnd, Inv
<1>2. height \in Nat /\ height > 0 /\ top = acts[height]
  BY <1>1, TopTypes
<1>3. PICK n \in Nat : height = n + 1
  <2>1. height - 1 \in Nat /\ height = (height - 1) + 1
    BY <1>2
  <2> QED  BY <2>1
<1>4. CASE ~(n > 0)
  <2>1. acts' = <<>> /\ height = 1
    BY <1>1, <1>3, <1>4, PopEmpty
  <2>2. top.owner = "main"
    BY <1>1, <1>2, <2>1 DEF Types
  <2> QED  BY <1>1, <2>1, <2>2, EmptyInv DEF Types
<1>5. CASE n > 0 /\ ~IsScript(top)
  <2>1. top.owner = "body"
    BY <1>1, <1>5 DEF IsScript
  <2> QED  BY <1>1, <1>3, <1>5, <2>1, InnerEnds
<1>6. CASE n > 0 /\ IsScript(top)
  <2>1. height \in 2..height
    BY <1>2, <1>3, <1>6
  <2>2. top.owner = "execute"
    BY <1>2, <1>6, <2>1, <1>1 DEF Types, IsScript
  <2> QED  BY <1>1, <1>3, <1>6, <2>2, ExecuteEnds
<1> QED  BY <1>4, <1>5, <1>6

LEMMA FlagsEndInv ==
  ASSUME Inv, FlagsEnd
  PROVE  Inv'
<1>1. /\ acts # <<>> /\ top.kind = "flags" /\ acts' = Pop /\ Types
      /\ top.phase = "rest" \/ top.mode = 0
      /\ UNCHANGED <<script_argv, flags_arg_index>>
  BY DEF FlagsEnd, FlagsDone, Inv
<1>2. height \in Nat /\ height > 0 /\ top = acts[height]
  BY <1>1, TopTypes
<1>3. PICK n \in Nat : height = n + 1
  <2>1. height - 1 \in Nat /\ height = (height - 1) + 1
    BY <1>2
  <2> QED  BY <2>1
<1>4. n > 0
  <2>1. height # 1
    BY <1>1, <1>2 DEF Types
  <2> QED  BY <1>3, <2>1
<1> QED  BY <1>1, <1>3, <1>4, InnerEnds DEF IsScript

-----------------------------------------------------------------------------
(* A script is executed.                                                    *)
LEMMA ExecuteForms ==
  ASSUME Types, NEW inTry \in BOOLEAN, Execute(inTry), NEW n \in Nat, height = n,
         NEW m, m = ScriptOf(n), NEW e, e = acts'[n + 1]
  PROVE  /\ height' = n + 1 /\ Types' /\ Aligned(n) /\ n > 0
         /\ acts[n].kind = "block"
         /\ \A i \in 1..n : /\ Same(acts[i], acts'[i])
                            /\ Counts(acts[i], acts'[i]) \/ acts[i].kind = "flags"
                            /\ acts[i].kind = "flags" => acts'[i] = acts[i]
         /\ IsScript(e) /\ e.saved = <<script_argv, flags_arg_index>>
         /\ e.own = script_argv' /\ e.first = 1 /\ e.takes = <<>>
         /\ flags_arg_index' = 1
<1> DEFINE t == [top EXCEPT !.todo = Tail(@), !.guarded = inTry]
           args == Head(top.todo).args
           r == Script("execute", script_argv', 1)
<1>1. /\ AtStatement("execute") /\ script_argv' = <<Path>> \o args
      /\ acts' = Append(Top(t), r) /\ flags_arg_index' = 1
  BY DEF Execute
<1>2. /\ acts # <<>> /\ top \in Block /\ t \in Block
      /\ Head(top.todo) \in Statement /\ Head(top.todo).type = "execute"
      /\ Same(top, t) /\ Counts(top, t)
  BY <1>1, AtForms
<1>3. /\ n > 0 /\ top = acts[n] /\ Len(acts) = n
      /\ acts \in Seq(Block \cup Matcher)
      /\ flags_arg_index \in Nat /\ script_argv \in Seq(Word)
  BY <1>1, <1>2, TopTypes DEF Types
<1>4. script_argv' \in Seq(Word)
  <2>1. PICK x \in Statement : x = Head(top.todo)
    BY <1>2
  <2>2. x.args \in Arguments
    <3>1. x.type = "execute" /\ x.type # "flags"
      BY <1>2, <2>1
    <3> QED  BY <3>1, StatementAssumption
  <2>3. args \in Seq(Word)
    BY <2>1, <2>2, WordsAssumption
  <2>4. <<Path>> \in Seq(Word)
    BY WordsAssumption
  <2>5. PICK q \in Seq(Word) : q = args
    BY <2>3
  <2>6. <<Path>> \o q \in Seq(Word)
    BY <2>4, ConcatProperties
  <2> QED  BY <1>1, <2>5, <2>6
<1> HIDE DEF args, t
<1>5. /\ r \in Block /\ r.kind = "block" /\ r.owner = "execute"
      /\ r.saved = <<script_argv, flags_arg_index>> /\ r.own = script_argv'
      /\ r.first = 1 /\ r.takes = <<>>
  <2>1. PICK w \in Seq(Word), o \in Seq(Word), x \in Nat :
          w = script_argv' /\ o = script_argv /\ x = flags_arg_index
    BY <1>3, <1>4
  <2>2. r = [kind |-> "block", owner |-> "execute", phase |-> "parse",
             todo |-> <<>>, guarded |-> FALSE, saved |-> <<o, x>>, own |-> w,
             first |-> 1, takes |-> <<>>, lost |-> FALSE, tangled |-> FALSE]
    BY <2>1 DEF Script
  <2>3. <<>> \in Seq(Statement) /\ <<>> \in Seq(Nat) /\ <<o, x>> \in Seq(Word) \X Nat
    OBVIOUS
  <2> HIDE DEF r
  <2>4. r \in Block
    BY <2>2, <2>3 DEF Block
  <2> QED  BY <2>1, <2>2, <2>4
<1> HIDE DEF r
<1>6. PICK T \in Seq(Block \cup Matcher) :
        /\ T = Top(t) /\ Len(T) = n /\ T[n] = t
        /\ \A i \in 1..n : i # n => T[i] = acts[i]
  <2> DEFINE T == [acts EXCEPT ![n] = t]
  <2>1. Top(t) = T
    BY <1>3 DEF Top
  <2>2. /\ T \in Seq(Block \cup Matcher) /\ Len(T) = n /\ T[n] = t
        /\ \A i \in 1..n : i # n => T[i] = acts[i]
    BY <1>2, <1>3
  <2> QED  BY <2>1, <2>2
<1>7. /\ acts' \in Seq(Block \cup Matcher) /\ height' = n + 1
      /\ acts'[n + 1] = r /\ \A i \in 1..n : acts'[i] = T[i]
  BY <1>1, <1>5, <1>6 DEF height
<1>8. ASSUME NEW i \in 1..n
      PROVE  /\ Same(acts[i], acts'[i])
             /\ Counts(acts[i], acts'[i]) \/ acts[i].kind = "flags"
             /\ acts[i].kind = "flags" => acts'[i] = acts[i]
  <2>1. CASE i = n
    <3>1. acts'[i] = t /\ acts[i] = top
      BY <1>3, <1>6, <1>7, <2>1
    <3>2. top.kind # "flags"
      BY <1>2 DEF Block
    <3> QED  BY <1>2, <3>1, <3>2
  <2>2. CASE i # n
    <3>1. acts'[i] = acts[i]
      BY <1>6, <1>7, <2>2
    <3> QED  BY <3>1 DEF Same, Counts
  <2> QED  BY <2>1, <2>2
<1>9. Aligned(n)
  <2>1. n <= height /\ n <= height'
    BY <1>7
  <2> QED  BY <1>8, <2>1 DEF Aligned, Alike, Same
<1>10. Types'
  <2>1. acts'[1].kind = "block" /\ acts'[1].owner = "main"
    BY <1>3, <1>8 DEF Types, Same
  <2>2. ASSUME NEW i \in 2..(n + 1), acts'[i].kind = "block", acts'[i].owner # "body"
        PROVE  acts'[i].owner = "execute" /\ acts'[i].saved \in Seq(Word) \X Nat
    <3>1. CASE i = n + 1
      <4>1. acts'[i] = r
        BY <1>7, <3>1
      <4>2. r.saved \in Seq(Word) \X Nat
        BY <1>3, <1>5
      <4> QED  BY <1>5, <4>1, <4>2
    <3>2. CASE i \in 2..n
      <4>1. Same(acts[i], acts'[i])
        BY <1>8, <3>2
      <4>2. i \in 2..height
        BY <3>2
      <4> QED  BY <2>2, <4>1, <4>2 DEF Types, Same
    <3> QED  BY <3>1, <3>2
  <2>3. \A i \in 2..(n + 1) :
          acts'[i].kind = "block" /\ acts'[i].owner # "body" =>
            acts'[i].owner = "execute" /\ acts'[i].saved \in Seq(Word) \X Nat
    BY <2>2
  <2>4. \A i \in 2..height' :
          acts'[i].kind = "block" /\ acts'[i].owner # "body" =>
            acts'[i].owner = "execute" /\ acts'[i].saved \in Seq(Word) \X Nat
    BY <1>7, <2>3
  <2> QED  BY <1>1, <1>4, <1>7, <2>1, <2>4 DEF Types
<1>11. acts[n].kind = "block"
  BY <1>2, <1>3 DEF Block
<1> QED  BY <1>1, <1>3, <1>5, <1>7, <1>8, <1>9, <1>10, <1>11 DEF IsScript

LEMMA ExecuteInv ==
  ASSUME Inv, NEW inTry \in BOOLEAN, Execute(inTry)
  PROVE  Inv'
<1>1. PICK n \in Nat : height = n
  BY DEF Inv, Types, height
<1>2. PICK m, e : m = ScriptOf(n) /\ e = acts'[n + 1]
  OBVIOUS
<1>3. /\ height' = n + 1 /\ Types' /\ Types /\ Aligned(n) /\ n > 0
      /\ acts[n].kind = "block"
      /\ \A i \in 1..n : /\ Same(acts[i], acts'[i])
                         /\ Counts(acts[i], acts'[i]) \/ acts[i].kind = "flags"
                         /\ acts[i].kind = "flags" => acts'[i] = acts[i]
      /\ IsScript(e) /\ e.saved = <<script_argv, flags_arg_index>>
      /\ e.own = script_argv' /\ e.first = 1 /\ e.takes = <<>>
      /\ flags_arg_index' = 1
  BY <1>1, <1>2, ExecuteForms DEF Inv
<1>4. /\ Scripts \subseteq 1..n /\ Scripts' \subseteq 1..(n + 1)
      /\ Flags \subseteq 1..n /\ Flags' \subseteq 1..(n + 1)
      /\ n + 1 \in Scripts' /\ n + 1 \notin Flags'
  <2>1. /\ Scripts' = {i \in 1..height' : IsScript(acts'[i])}
        /\ Flags' = {i \in 1..height' : acts'[i].kind = "flags"}
        /\ Scripts \subseteq 1..height /\ Flags \subseteq 1..height
    BY <1>3, Domains, DomainsNext DEF Shape
  <2>2. n + 1 \in 1..(n + 1)
    OBVIOUS
  <2>3. acts'[n + 1].kind = "block" /\ IsScript(acts'[n + 1])
    BY <1>2, <1>3 DEF IsScript
  <2> QED  BY <1>1, <1>3, <2>1, <2>2, <2>3
<1>5. \A i \in 1..n : /\ i \in Scripts' <=> i \in Scripts
                      /\ i \in Flags' <=> i \in Flags
                      /\ ScriptOf(i)' = ScriptOf(i)
  BY <1>3, Framed
<1>6. /\ m \in Scripts /\ m \in 1..n /\ \A k \in Scripts : k <= m
  <2>1. n \in 1..height
    BY <1>1, <1>3
  <2>2. /\ m \in Scripts /\ m \in 1..n /\ \A k \in Scripts : k <= n => k <= m
    BY <1>2, <1>3, <2>1, Placed DEF Places
  <2> QED  BY <1>4, <2>2
<1>7. Last(m) /\ Keeps(m) /\ Good(m) /\ ~Last(m)' /\ Last(n + 1)'
  <2>1. ~Last(m)'
    BY <1>4, <1>6 DEF Last
  <2>2. Last(n + 1)'
    BY <1>4 DEF Last
  <2> QED  BY <1>6, <2>1, <2>2 DEF Last, Inv
<1>8. /\ Same(acts[m], acts'[m]) /\ Counts(acts[m], acts'[m])
      /\ acts[m].kind = "block" /\ Due(acts'[m]) = Due(acts[m])
  <2>1. acts[m].kind = "block"
    BY <1>6 DEF Scripts
  <2>2. Same(acts[m], acts'[m]) /\ Counts(acts[m], acts'[m])
    BY <1>3, <1>6, <2>1
  <2> QED  BY <2>1, <2>2 DEF Same, Counts, Due
<1>9. \A k \in Scripts' : /\ Upper(m, k)' => acts'[k].saved = <<script_argv, flags_arg_index>>
                          /\ ~Upper(n + 1, k)'
  <2>1. ASSUME NEW k \in Scripts', Upper(m, k)' PROVE k = n + 1
    <3>1. m < k /\ k \in 1..(n + 1)
      BY <1>4, <2>1 DEF Upper
    <3>2. CASE k \in 1..n
      <4>1. k \in Scripts
        BY <1>5, <3>2
      <4> QED  BY <1>6, <3>1, <3>2, <4>1
    <3> QED  BY <3>1, <3>2
  <2>2. ASSUME NEW k \in Scripts' PROVE ~Upper(n + 1, k)'
    BY <1>4 DEF Upper
  <2> QED  BY <1>2, <1>3, <2>1, <2>2
<1>10. Keeps(m)' /\ Good(m)'
  <2>1. Keeps(m)'
    BY <1>7, <1>8, <1>9 DEF Keeps, Same
  <2>2. Numbered(m)' = Numbered(m)
        /\ \A i \in Numbered(m) : acts'[i] = acts[i]
    <3>1. ASSUME NEW i \in Numbered(m)' PROVE i \in Numbered(m)
      <4>1. i \in Flags' /\ ScriptOf(i)' = m /\ acts'[i].mode > 0
        BY DEF Numbered
      <4>2. i \in 1..n
        <5>1. i \in 1..(n + 1) /\ i # n + 1
          BY <1>4, <4>1
        <5> QED  BY <5>1
      <4>3. i \in Flags /\ ScriptOf(i) = m
        BY <1>5, <4>1, <4>2
      <4>4. acts'[i] = acts[i]
        BY <1>3, <4>2, <4>3 DEF Flags
      <4> QED  BY <4>1, <4>3, <4>4 DEF Numbered
    <3>2. ASSUME NEW i \in Numbered(m)
          PROVE  i \in Numbered(m)' /\ acts'[i] = acts[i]
      <4>1. i \in Flags /\ ScriptOf(i) = m /\ acts[i].mode > 0 /\ i \in 1..n
        BY <1>4 DEF Numbered
      <4>2. i \in Flags' /\ ScriptOf(i)' = m
        BY <1>5, <4>1
      <4>3. acts'[i] = acts[i]
        BY <1>3, <4>1 DEF Flags
      <4> QED  BY <4>1, <4>2, <4>3 DEF Numbered
    <3> QED  BY <3>1, <3>2
  <2>3. Good(m)'
    BY <1>7, <1>8, <1>9, <2>2 DEF Good, Counts, Same
  <2> QED  BY <2>1, <2>3
<1>11. Keeps(n + 1)' /\ Good(n + 1)'
  <2>1. Keeps(n + 1)'
    BY <1>2, <1>3, <1>7, <1>9 DEF Keeps
  <2>2. ASSUME NEW i \in Numbered(n + 1)' PROVE FALSE
    <3>1. i \in Flags' /\ ScriptOf(i)' = n + 1
      BY DEF Numbered
    <3>2. i \in 1..n
      <4>1. i \in 1..(n + 1) /\ i # n + 1
        BY <1>4, <3>1
      <4> QED  BY <4>1
    <3>3. i \in 1..height /\ ScriptOf(i) = n + 1
      BY <1>1, <1>5, <3>1, <3>2
    <3>4. n + 1 \in 1..i
      BY <1>3, <3>3, Placed DEF Places
    <3> QED  BY <3>2, <3>4
  <2>3. acts'[n + 1].takes = <<>> /\ acts'[n + 1].first = 1
    BY <1>2, <1>3
  <2>4. Due(acts'[n + 1]) = 1 /\ Len(<<>>) = 0
    BY <2>3 DEF Due
  <2>5. <<>> = [k \in 1..Len(<<>>) |-> 1 + k - 1]
    <3>1. 1..Len(<<>>) = {}
      BY <2>4
    <3> QED  BY <3>1
  <2> QED  BY <1>3, <1>7, <1>9, <2>1, <2>2, <2>3, <2>4, <2>5 DEF Good
<1>12. ASSUME NEW j \in Scripts' PROVE Keeps(j)' /\ Good(j)'
  <2>1. CASE j = m \/ j = n + 1
    BY <1>10, <1>11, <2>1
  <2>2. CASE j # m /\ j # n + 1
    <3>1. j \in 1..n
      <4>1. j \in 1..(n + 1)
        BY <1>4
      <4> QED  BY <2>2, <4>1
    <3>2. j \in Scripts /\ j < m /\ acts[j].kind = "block"
      <4>1. j \in Scripts
        BY <1>5, <3>1
      <4>2. j <= m
        BY <1>6, <4>1
      <4> QED  BY <1>6, <2>2, <3>1, <4>1, <4>2 DEF Scripts
    <3>3. acts'[j].lost = acts[j].lost /\ Counts(acts[j], acts'[j])
      BY <1>3, <3>1, <3>2 DEF Same
    <3>4. Aligned(m)
      <4>1. \A i \in 1..n : Alike(acts[i], acts'[i])
        BY <1>3 DEF Aligned
      <4>2. m \in Nat /\ m <= n /\ \A i \in 1..m : i \in 1..n
        BY <1>6
      <4>3. m <= height /\ m <= height'
        BY <1>1, <1>3, <4>2
      <4> QED  BY <4>1, <4>2, <4>3 DEF Aligned
    <3>5. \A i \in 1..(m - 1) : acts[i].kind = "flags" => acts'[i] = acts[i]
      BY <1>3, <1>6
    <3>6. Keeps(j) /\ Good(j)
      BY <3>2 DEF Inv
    <3> QED  BY <1>3, <1>6, <3>2, <3>3, <3>4, <3>5, <3>6, Below
  <2> QED  BY <2>1, <2>2
<1>13. ASSUME NEW i \in Flags' PROVE Fits(i)' /\ Serves(acts'[i])
  <2>1. i \in 1..n
    <3>1. i \in 1..(n + 1) /\ i # n + 1
      BY <1>4
    <3> QED  BY <3>1
  <2>2. i \in Flags
    BY <1>5, <2>1
  <2>3. acts'[i] = acts[i]
    BY <1>3, <2>1, <2>2 DEF Flags
  <2>4. Fits(i) /\ Serves(acts[i])
    BY <2>2 DEF Inv
  <2> QED  BY <1>3, <2>1, <2>3, <2>4, FitsOn
<1> QED  BY <1>3, <1>12, <1>13 DEF Inv

-----------------------------------------------------------------------------
(* An error cuts the stack.                                                 *)

Landed(r, c, x, y) ==
  [r EXCEPT !.guarded = IF c THEN FALSE ELSE @,
            !.lost = @ \/ x, !.tangled = @ \/ y]

LEMMA LandRecord ==
  ASSUME NEW r \in Block \cup Matcher,
         NEW c \in BOOLEAN, NEW x \in BOOLEAN, NEW y \in BOOLEAN,
         NEW b, b = Landed(r, c, x, y)
  PROVE  /\ b \in Block \cup Matcher /\ Alike(r, b)
         /\ r.kind = "block" => /\ b.takes = r.takes
                                /\ b.lost <=> (r.lost \/ x)
                                /\ b.tangled <=> (r.tangled \/ y)
                                /\ ~x => b.lost = r.lost
                                /\ ~y => b.tangled = r.tangled
         /\ r.kind = "flags" /\ ~c /\ ~x /\ ~y => b = r
<1>1. PICK u \in BOOLEAN : u = IF c THEN FALSE ELSE r.guarded
  BY DEF Block, Matcher
<1>2. PICK v \in BOOLEAN : v <=> (r.lost \/ x)
  OBVIOUS
<1>3. PICK w \in BOOLEAN : w <=> (r.tangled \/ y)
  OBVIOUS
<1>4. b = [r EXCEPT !.guarded = u, !.lost = v, !.tangled = w]
  BY <1>1, <1>2, <1>3 DEF Landed
<1>5. CASE r \in Block
  <2>1. b \in Block /\ b.lost = v /\ b.tangled = w /\ b.takes = r.takes
    BY <1>4, <1>5 DEF Block
  <2>2. Alike(r, b)
    <3>1. /\ b.kind = r.kind /\ b.owner = r.owner /\ b.own = r.own
          /\ b.saved = r.saved /\ b.first = r.first
      BY <1>4, <1>5 DEF Block
    <3> QED  BY <1>2, <2>1, <3>1 DEF Alike
  <2>3. (~x => v = r.lost) /\ (~y => w = r.tangled)
    <3>1. r.lost \in BOOLEAN /\ r.tangled \in BOOLEAN
      BY <1>5 DEF Block
    <3> QED  BY <1>2, <1>3, <3>1
  <2>4. r.kind # "flags"
    BY <1>5 DEF Block
  <2> QED  BY <1>2, <1>3, <2>1, <2>2, <2>3, <2>4
<1>6. CASE r \in Matcher
  <2>1. b \in Matcher /\ b.kind = "flags" /\ r.kind = "flags"
    BY <1>4, <1>6 DEF Matcher
  <2>2. ASSUME ~c, ~x, ~y PROVE b = r
    <3>1. r.lost \in BOOLEAN /\ r.tangled \in BOOLEAN
      BY <1>6 DEF Matcher
    <3>2. u = r.guarded /\ v = r.lost /\ w = r.tangled
      BY <1>1, <1>2, <1>3, <2>2, <3>1
    <3> QED  BY <1>4, <1>6, <3>2 DEF Matcher
  <2>3. Alike(r, b)
    BY <2>1 DEF Alike
  <2> QED  BY <2>1, <2>2, <2>3
<1> QED  BY <1>5, <1>6

LEMMA LandForms ==
  ASSUME Types, NEW i \in Guarded, acts' = Land(i), NEW m, m = ScriptOf(i),
         UNCHANGED <<script_argv, flags_arg_index>>
  PROVE  /\ height' = i /\ i \in Nat /\ i > 0 /\ height \in Nat /\ i < height
         /\ Types' /\ Aligned(i) /\ m \in 1..i /\ acts[m].kind = "block"
         /\ \A k \in 1..i : acts[k].kind = "flags" => acts'[k] = acts[k]
         /\ \A k \in Scripts :
              k < m => acts'[k].lost = acts[k].lost /\ Counts(acts[k], acts'[k])
         /\ acts'[m].takes = acts[m].takes
         /\ acts'[m].lost <=> (acts[m].lost \/ \E s \in Scripts : s > i)
         /\ acts'[m].tangled <=> (acts[m].tangled \/ \E f \in Flags : f > i)
<1>1. /\ i \in Nat /\ i > 0 /\ height \in Nat /\ i < height /\ i \in 1..height
      /\ acts[i].kind = "block" /\ Scripts \subseteq 1..height
      /\ \A k \in 1..height : acts[k] \in Block \cup Matcher
  <2>1. height \in Nat /\ height = Len(acts) /\ Scripts \subseteq 1..height
        /\ \A k \in 1..height : acts[k] \in Block \cup Matcher
    BY Domains DEF Shape
  <2>2. i \in 1..(height - 1) /\ acts[i].kind = "block"
    BY <2>1 DEF Guarded
  <2> QED  BY <2>1, <2>2
<1>2. /\ m \in Scripts /\ m \in 1..i /\ acts[m].kind = "block"
  BY <1>1, Placed DEF Places, Scripts
<1> DEFINE x(k) == k = m /\ \E s \in Scripts : s > i
           y(k) == k = m /\ \E f \in Flags : f > i
           b(k) == [acts[k] EXCEPT
                      !.guarded = IF k = i THEN FALSE ELSE @,
                      !.lost = @ \/ x(k), !.tangled = @ \/ y(k)]
<1>3. Land(i) = [k \in 1..i |-> b(k)]
  BY DEF Land
<1>4. Len(acts') = i /\ DOMAIN acts' = 1..i /\ \A k \in 1..i : acts'[k] = b(k)
  <2> HIDE DEF b
  <2> QED  BY <1>1, <1>3
<1>5. ASSUME NEW k \in 1..i
      PROVE  /\ acts'[k] \in Block \cup Matcher /\ Alike(acts[k], acts'[k])
             /\ acts[k].kind = "block" =>
                  /\ acts'[k].takes = acts[k].takes
                  /\ acts'[k].lost <=> (acts[k].lost \/ x(k))
                  /\ acts'[k].tangled <=> (acts[k].tangled \/ y(k))
                  /\ ~x(k) => acts'[k].lost = acts[k].lost
                  /\ ~y(k) => acts'[k].tangled = acts[k].tangled
             /\ acts[k].kind = "flags" /\ k # i /\ ~x(k) /\ ~y(k) =>
                  acts'[k] = acts[k]
  <2>1. PICK c \in BOOLEAN, u \in BOOLEAN, v \in BOOLEAN :
          (c <=> k = i) /\ (u <=> x(k)) /\ (v <=> y(k))
    <3> HIDE DEF x, y
    <3>1. \E c \in BOOLEAN : c <=> k = i
      OBVIOUS
    <3>2. \E u \in BOOLEAN : u <=> x(k)
      OBVIOUS
    <3>3. \E v \in BOOLEAN : v <=> y(k)
      OBVIOUS
    <3> QED  BY <3>1, <3>2, <3>3
  <2>2. acts[k] \in Block \cup Matcher
    BY <1>1
  <2>3. acts'[k] = [acts[k] EXCEPT !.guarded = IF c THEN FALSE ELSE @,
                                   !.lost = @ \/ u, !.tangled = @ \/ v]
    <3> HIDE DEF x, y
    <3> QED  BY <1>4, <2>1
  <2>4. PICK r \in Block \cup Matcher, d \in {acts'[k]} : r = acts[k]
    BY <2>2
  <2>5. d = Landed(r, c, u, v)
    BY <2>3, <2>4 DEF Landed
  <2>6. /\ d \in Block \cup Matcher /\ Alike(r, d)
        /\ r.kind = "block" => /\ d.takes = r.takes
                               /\ d.lost <=> (r.lost \/ u)
                               /\ d.tangled <=> (r.tangled \/ v)
                               /\ ~u => d.lost = r.lost
                               /\ ~v => d.tangled = r.tangled
        /\ r.kind = "flags" /\ ~c /\ ~u /\ ~v => d = r
    BY <2>5, LandRecord
  <2> HIDE DEF x, y
  <2> QED  BY <2>1, <2>4, <2>6
<1>6. \A k \in 1..i : k # m => ~x(k) /\ ~y(k)
  OBVIOUS
<1>7. /\ x(m) <=> \E s \in Scripts : s > i
      /\ y(m) <=> \E f \in Flags : f > i
  OBVIOUS
<1> HIDE DEF x, y, b
<1>8. acts' \in Seq(Block \cup Matcher)
  <2>1. \A k \in 1..i : acts'[k] \in Block \cup Matcher
    BY <1>5
  <2>2. acts' = [k \in 1..i |-> acts'[k]]
    <3>1. acts' = [k \in 1..i |-> b(k)]
      BY <1>3
    <3>2. [k \in 1..i |-> b(k)] = [k \in 1..i |-> acts'[k]]
      BY <1>4
    <3> QED  BY <3>1, <3>2
  <2> QED  BY <1>1, <2>1, <2>2
<1>9. height' = i
  BY <1>4 DEF height
<1>10. Aligned(i)
  <2>1. \A k \in 1..i : Alike(acts[k], acts'[k])
    BY <1>5
  <2>2. i <= height /\ i <= height'
    BY <1>1, <1>9
  <2> QED  BY <1>1, <2>1, <2>2 DEF Aligned
<1>11. Types'
  BY <1>1, <1>8, <1>9, <1>10, ShrinksTypes DEF Types
<1>12. ASSUME NEW k \in 1..i, acts[k].kind = "flags" PROVE acts'[k] = acts[k]
  <2>1. k # m /\ k # i
    BY <1>1, <1>2, <1>12
  <2> QED  BY <1>5, <1>6, <1>12, <2>1
<1>13. ASSUME NEW k \in Scripts, k < m
       PROVE  acts'[k].lost = acts[k].lost /\ Counts(acts[k], acts'[k])
  <2>1. k \in 1..i /\ k # m /\ acts[k].kind = "block"
    <3>1. k \in 1..height /\ acts[k].kind = "block"
      BY <1>1 DEF Scripts
    <3> QED  BY <1>1, <1>2, <1>13, <3>1
  <2> QED  BY <1>5, <1>6, <2>1 DEF Counts
<1>14. /\ acts'[m].takes = acts[m].takes
       /\ acts'[m].lost <=> (acts[m].lost \/ \E s \in Scripts : s > i)
       /\ acts'[m].tangled <=> (acts[m].tangled \/ \E f \in Flags : f > i)
  BY <1>2, <1>5, <1>7
<1> QED
  BY <1>1, <1>2, <1>9, <1>10, <1>11, <1>12, <1>13, <1>14

LEMMA LandInv ==
  ASSUME Inv, NEW i \in Guarded, acts' = Land(i),
         UNCHANGED <<script_argv, flags_arg_index>>
  PROVE  Inv'
<1>1. PICK m : m = ScriptOf(i)
  OBVIOUS
<1>2. /\ height' = i /\ i \in Nat /\ i > 0 /\ height \in Nat /\ i < height
      /\ Types' /\ Types /\ Aligned(i) /\ m \in 1..i
      /\ \A k \in 1..i : acts[k].kind = "flags" => acts'[k] = acts[k]
      /\ \A k \in Scripts :
           k < m => acts'[k].lost = acts[k].lost /\ Counts(acts[k], acts'[k])
      /\ acts'[m].takes = acts[m].takes
      /\ acts'[m].lost <=> (acts[m].lost \/ \E s \in Scripts : s > i)
      /\ acts'[m].tangled <=> (acts[m].tangled \/ \E f \in Flags : f > i)
  BY <1>1, LandForms DEF Inv
<1>3. /\ m \in Scripts /\ m \in Scripts' /\ Last(m)'
      /\ Alike(acts[m], acts'[m]) /\ acts[m].kind = "block"
      /\ \A j \in Scripts : j \in 1..i => j \in Scripts' /\ j <= m
      /\ \A k \in Numbered(m)' :
           k \in Numbered(m) /\ k \in 1..i /\ acts'[k] = acts[k]
      /\ \A k \in Numbered(m) :
           k \in 1..i => k \in Numbered(m)' /\ acts'[k] = acts[k]
  BY <1>1, <1>2, ShrinksFrame
<1>4. Scripts \subseteq 1..height /\ Flags \subseteq 1..height
      /\ Scripts' \subseteq 1..i
  BY <1>2, Domains, DomainsNext DEF Shape
<1>5. ASSUME NEW k \in Scripts' PROVE ~Upper(m, k)'
  <2>1. k <= m /\ k \in Nat /\ m \in Nat
    BY <1>2, <1>3, <1>4 DEF Last
  <2> QED  BY <2>1 DEF Upper
<1>6. Keeps(m) /\ Good(m)
  BY <1>3 DEF Inv
<1>7. ASSUME ~acts'[m].lost PROVE Last(m) /\ ~acts[m].lost
  <2>1. ASSUME NEW k \in Scripts PROVE k <= m
    <3>1. k \in 1..height /\ ~(k > i)
      BY <1>2, <1>4, <1>7
    <3>2. k \in 1..i
      BY <1>2, <3>1
    <3> QED  BY <1>3, <3>2
  <2> QED  BY <1>2, <1>7, <2>1 DEF Last
<1>8. Keeps(m)'
  BY <1>3, <1>5, <1>6, <1>7 DEF Keeps, Alike
<1>9. Good(m)'
  <2> SUFFICES ASSUME ~acts'[m].lost, ~acts'[m].tangled PROVE Good(m)'
    BY DEF Good
  <2>1. Last(m) /\ ~acts[m].lost /\ ~acts[m].tangled
        /\ acts'[m].first = acts[m].first
    BY <1>2, <1>3, <1>7 DEF Alike
  <2>2. /\ acts[m].takes = [k \in 1..Len(acts[m].takes) |-> acts[m].first + k - 1]
        /\ \A k, l \in Numbered(m) : k = l
        /\ \A k \in Numbered(m) :
             acts[k].phase = "match" => acts[k].arg_idx = Due(acts[m])
        /\ (\A k \in Numbered(m) : acts[k].phase # "match") =>
             flags_arg_index = Due(acts[m])
    BY <1>6, <2>1 DEF Good
  <2>3. Due(acts'[m]) = Due(acts[m])
    BY <1>2, <2>1 DEF Due
  <2>4. ASSUME NEW k \in Numbered(m) PROVE k \in 1..i
    <3>1. k \in Flags
      BY DEF Numbered
    <3>2. k \in 1..height /\ ~(k > i)
      BY <1>2, <1>4, <3>1
    <3> QED  BY <1>2, <3>2
  <2>5. (\A k \in Numbered(m)' : acts'[k].phase # "match") =>
          flags_arg_index' = Due(acts'[m])
    BY <1>3, <2>2, <2>3, <2>4
  <2>6. /\ \A k, l \in Numbered(m)' : k = l
        /\ \A k \in Numbered(m)' :
             acts'[k].phase = "match" => acts'[k].arg_idx = Due(acts'[m])
    BY <1>3, <2>2, <2>3
  <2> QED  BY <1>2, <1>5, <2>1, <2>2, <2>5, <2>6 DEF Good
<1>10. i <= height
  BY <1>2
<1> QED  BY <1>1, <1>2, <1>8, <1>9, <1>10, ShrinksInv

LEMMA RaiseInv ==
  ASSUME Inv, Raise
  PROVE  Inv'
<1>1. script_argv' \in Seq(Word) /\ flags_arg_index' \in Nat /\ Types
      /\ UNCHANGED <<script_argv, flags_arg_index>>
  BY DEF Inv, Types, Raise
<1>2. CASE Guarded = {}
  BY <1>1, <1>2, EmptyInv DEF Raise
<1>3. CASE Guarded # {}
  <2>1. Len(acts) \in Nat
    BY <1>1 DEF Types
  <2>2. Guarded \subseteq 0..Len(acts) /\ Guarded \subseteq Nat
    BY <2>1 DEF Guarded
  <2>3. PICK i \in Guarded : \A k \in Guarded : k <= i
    BY <1>3, <2>1, <2>2, Greatest
  <2>4. Max(Guarded) = i
    BY <2>2, <2>3, MaxIs
  <2>5. acts' = Land(i)
    BY <1>3, <2>4 DEF Raise
  <2> QED  BY <1>1, <2>5, LandInv
<1> QED  BY <1>2, <1>3

-----------------------------------------------------------------------------
(* Every step keeps the invariant.                                          *)

LEMMA ParseInv ==
  ASSUME Inv, ParseEnd \/ \E st \in Statement : ParseStatement(st)
  PROVE  Inv'
<1>1. CASE ParseEnd
  <2> DEFINE g == [top EXCEPT !.phase = "run"]
  <2>1. /\ acts # <<>> /\ top.kind = "block" /\ acts' = Top(g)
        /\ UNCHANGED <<script_argv, flags_arg_index>>
    BY <1>1 DEF ParseEnd, Parsing
  <2>2. top \in Block /\ height > 0
    BY <2>1, TopTypes DEF Inv
  <2>3. g \in Block /\ Same(top, g) /\ Counts(top, g)
    BY <2>2 DEF Block, Same, Counts
  <2> HIDE DEF g
  <2>4. BlockTurns(g)
    BY <2>1, <2>2, <2>3 DEF BlockTurns
  <2> QED  BY <2>4, BlockInv
<1>2. ASSUME NEW st \in Statement, ParseStatement(st) PROVE Inv'
  <2> DEFINE g == [top EXCEPT !.todo = Append(@, st)]
  <2>1. /\ acts # <<>> /\ top.kind = "block"
        /\ Raise \/ (acts' = Top(g) /\ UNCHANGED <<script_argv, flags_arg_index>>)
    BY <1>2 DEF ParseStatement, Parsing
  <2>2. top \in Block /\ height > 0
    BY <2>1, TopTypes DEF Inv
  <2>3. g \in Block /\ Same(top, g) /\ Counts(top, g)
    <3>1. PICK b \in Block : b = top
      BY <2>2
    <3>2. Append(b.todo, st) \in Seq(Statement)
      BY DEF Block
    <3>3. PICK q \in Seq(Statement) : q = Append(b.todo, st)
      BY <3>2
    <3>4. g = [b EXCEPT !.todo = q]
      BY <3>1, <3>3
    <3>5. [b EXCEPT !.todo = q] \in Block /\ Same(b, [b EXCEPT !.todo = q])
          /\ Counts(b, [b EXCEPT !.todo = q])
      BY DEF Block, Same, Counts
    <3> QED  BY <3>1, <3>4, <3>5
  <2> HIDE DEF g
  <2>4. CASE Raise
    BY <2>4, RaiseInv
  <2>5. CASE acts' = Top(g) /\ UNCHANGED <<script_argv, flags_arg_index>>
    <3>1. BlockTurns(g)
      BY <2>1, <2>2, <2>3, <2>5 DEF BlockTurns
    <3> QED  BY <3>1, BlockInv
  <2> QED  BY <2>1, <2>4, <2>5
<1> QED  BY <1>1, <1>2

LEMMA MatchesInv ==
  ASSUME Inv, Matches
  PROVE  Inv'
<1>0. Types
  BY DEF Inv
<1>1. CASE Positional
  <2>1. acts # <<>> /\ top.kind = "flags"
    BY <1>1 DEF Positional, Matching
  <2>2. top.arg_idx \in Nat /\ argc \in Nat
    BY <1>0, <2>1, Numbers
  <2>3. CASE top.specs[top.s].catch_all \/ top.arg_idx >= argc
    BY <1>0, <1>1, <2>3, SkipServes, ServingInv
  <2>4. CASE ~(top.specs[top.s].catch_all \/ top.arg_idx >= argc)
    <3>1. PICK g : g = [Deal(<<top.arg_idx>>) EXCEPT !.s = @ + 1, !.arg_idx = @ + 1]
      OBVIOUS
    <3>2. Takes(g)
      BY <1>1, <2>2, <2>4, <3>1 DEF Takes
    <3> QED  BY <3>2, TakeInv
  <2> QED  BY <2>3, <2>4
<1>2. CASE PositionalEnd
  BY <1>2, PositionalEndInv
<1>3. CASE Rest
  BY <1>0, <1>3, RestServes, ServingInv
<1>4. CASE NamedFlag
  BY <1>0, <1>4, NamedServes, ServingInv, RaiseInv
<1>5. CASE OtherArgument
  BY <1>0, <1>5, OtherServes, ServingInv
<1>6. CASE Letter
  BY <1>0, <1>6, LetterServes, ServingInv
<1> QED  BY <1>1, <1>2, <1>3, <1>4, <1>5, <1>6 DEF Matches

LEMMA StaysInv ==
  ASSUME Inv, UNCHANGED vars
  PROVE  Inv'
<1>1. acts' = acts /\ script_argv' = script_argv /\ flags_arg_index' = flags_arg_index
  BY DEF vars
<1>2. Types'
  BY <1>1 DEF Inv, Types, height
<1>3. Scripts' = Scripts /\ Flags' = Flags
  BY <1>1 DEF Scripts, Flags
<1>4. ASSUME NEW i PROVE ScriptOf(i)' = ScriptOf(i)
  BY <1>3 DEF ScriptOf
<1>5. ASSUME NEW i \in Flags PROVE Fits(i)' /\ Serves(acts'[i])
  <2>1. Fits(i) /\ Serves(acts[i])
    BY DEF Inv
  <2>2. InScript(i)' = InScript(i)
    BY <1>1, <1>4 DEF InScript
  <2> QED  BY <1>1, <2>1, <2>2 DEF Fits
<1>6. ASSUME NEW j \in Scripts PROVE Keeps(j)' /\ Good(j)'
  <2>1. Keeps(j) /\ Good(j)
    BY DEF Inv
  <2>2. /\ Last(j)' <=> Last(j)
        /\ \A k : Upper(j, k)' <=> Upper(j, k)
    BY <1>3 DEF Last, Upper
  <2>3. Numbered(j)' = Numbered(j)
    BY <1>1, <1>3, <1>4 DEF Numbered
  <2>4. Keeps(j)'
    BY <1>1, <1>3, <2>1, <2>2 DEF Keeps
  <2>5. Good(j)'
    BY <1>1, <1>3, <2>1, <2>2, <2>3 DEF Good
  <2> QED  BY <2>4, <2>5
<1> QED  BY <1>2, <1>3, <1>5, <1>6 DEF Inv

LEMMA StepInv == Inv /\ [Next]_vars => Inv'
<1> SUFFICES ASSUME Inv, [Next]_vars PROVE Inv'
  OBVIOUS
<1>1. CASE UNCHANGED vars
  BY <1>1, StaysInv
<1>2. CASE ParseEnd \/ \E st \in Statement : ParseStatement(st)
  BY <1>2, ParseInv
<1>3. ASSUME NEW inTry \in BOOLEAN, Execute(inTry) \/ FlagsStart(inTry)
      PROVE  Inv'
  BY <1>3, ExecuteInv, FlagsStartInv
<1>4. CASE Matches
  BY <1>4, MatchesInv
<1>5. CASE FlagsEnd
  BY <1>5, FlagsEndInv
<1>6. CASE BlockEnd
  BY <1>6, BlockEndInv
<1>7. CASE Fail
  BY <1>7, RaiseInv DEF Fail
<1> QED  BY <1>1, <1>2, <1>3, <1>4, <1>5, <1>6, <1>7 DEF Next

LEMMA InitInv == Init => Inv
<1> SUFFICES ASSUME Init PROVE Inv
  OBVIOUS
<1>1. Types
  BY InitTypes
<1>2. /\ flags_arg_index = 2 /\ height = 1
      /\ acts[1].kind = "block" /\ acts[1].own = script_argv
      /\ acts[1].first = 2 /\ acts[1].takes = <<>>
  BY DEF Init, height
<1>3. Scripts = {1} /\ Flags = {}
  <2>1. /\ Scripts = {i \in 1..1 : IsScript(acts[i])}
        /\ Flags = {i \in 1..1 : acts[i].kind = "flags"} /\ 1 \in Scripts
    BY <1>1, <1>2, Domains DEF Shape
  <2> QED  BY <1>2, <2>1
<1>4. Last(1) /\ \A k \in Scripts : ~Upper(1, k)
  BY <1>3 DEF Last, Upper
<1>5. Keeps(1)
  BY <1>2, <1>4 DEF Keeps
<1>6. Good(1)
  <2>1. Numbered(1) = {}
    BY <1>3 DEF Numbered
  <2>2. Len(<<>>) = 0 /\ Due(acts[1]) = 2
    BY <1>2 DEF Due
  <2>3. <<>> = [k \in 1..Len(<<>>) |-> 2 + k - 1]
    <3>1. 1..Len(<<>>) = {}
      BY <2>2
    <3> QED  BY <3>1
  <2> QED  BY <1>2, <1>4, <2>1, <2>2, <2>3 DEF Good
<1> QED  BY <1>1, <1>3, <1>5, <1>6 DEF Inv

LEMMA Invariant == Spec => []Inv
BY InitInv, StepInv, PTL DEF Spec

(* The arguments in force are those of the innermost script, unless an      *)
(* error has skipped the end of one that it executed.                       *)
THEOREM ArgumentsAreOwn == Spec => []ArgumentsOwn
<1>1. Inv => ArgumentsOwn
  <2> SUFFICES ASSUME Inv, acts # <<>>
               PROVE  InScript(Len(acts)).lost
                      \/ InScript(Len(acts)).own = script_argv
    BY DEF ArgumentsOwn
  <2>1. PICK m : m = ScriptOf(height)
    OBVIOUS
  <2>2. /\ Scripts \subseteq 1..height /\ height \in 1..height /\ Types
    BY TopTypes, Domains DEF Inv, Shape
  <2>3. m \in Scripts /\ \A k \in Scripts : k <= height => k <= m
    BY <2>1, <2>2, Placed DEF Places
  <2>4. Last(m)
    <3>1. \A k \in Scripts : k <= height
      BY <2>2
    <3> QED  BY <2>3, <3>1 DEF Last
  <2>5. Keeps(m)
    BY <2>3 DEF Inv
  <2> QED  BY <2>1, <2>4, <2>5 DEF Keeps, InScript, height
<1> QED  BY Invariant, <1>1, PTL

(* No flags statement indexes what it allocated out of its bounds, unless   *)
(* an error changed the arguments in between.                               *)
THEOREM HandledIsLongEnough == Spec => []HandledFits
<1>1. Inv => HandledFits
  BY DEF Inv, Fits, HandledFits
<1> QED  BY Invariant, <1>1, PTL

(* A flags statement hands no argument out twice, and one with a catch-all  *)
(* that ends has handed out all of them but the first two.                  *)
THEOREM NothingDealtTwice == Spec => []DealtOnce
<1>1. Inv => DealtOnce
  <2> SUFFICES ASSUME Inv, NEW i \in Flags
               PROVE  /\ \A j, k \in DOMAIN acts[i].dealt :
                           acts[i].dealt[j] = acts[i].dealt[k] => j = k
                      /\ (/\ i = Len(acts) /\ FlagsDone(acts[i])
                          /\ \E s \in DOMAIN acts[i].specs : acts[i].specs[s].catch_all)
                           => 2..argc - 1 \subseteq acts[i].handled
    BY DEF DealtOnce
  <2>1. Serves(acts[i]) /\ acts[i] \in Matcher /\ argc \in Nat
    <3>1. Serves(acts[i]) /\ Types
      BY DEF Inv
    <3> QED  BY <3>1, Domains DEF Shape, Types, argc
  <2>2. PICK f \in Matcher : f = acts[i]
    BY <2>1
  <2>3. Once(f) /\ Reach(f) /\ f.a \in Nat /\ f.mode \in Nat
    BY <2>1, <2>2, BoundsAssumption DEF Serves, Matcher
  <2>4. \A j, k \in DOMAIN f.dealt : f.dealt[j] = f.dealt[k] => j = k
    BY <2>3 DEF Once
  <2>5. ASSUME FlagsDone(f), Catches(f), NEW x \in 2..(argc - 1)
        PROVE  x \in f.handled
    <3>1. f.a >= argc
      BY <2>5 DEF FlagsDone, Catches
    <3>2. x \in 2..(f.a - 1)
      BY <2>1, <2>3, <2>5, <3>1
    <3>3. CASE f.mode = 0
      BY <2>3, <2>5, <3>2, <3>3 DEF Reach
    <3>4. CASE f.mode > 0
      <4>1. f.phase = "rest"
        BY <2>5, <3>4 DEF FlagsDone
      <4> QED  BY <2>3, <3>2, <3>4, <4>1 DEF Reach
    <3> QED  BY <2>3, <3>3, <3>4
  <2> QED  BY <2>2, <2>4, <2>5 DEF Catches
<1> QED  BY Invariant, <1>1, PTL

(* The statements of a script that number its arguments take each of them   *)
(* once and in order, unless they are nested in each other or broken off.   *)
THEOREM ArgumentsTakenInOrder == Spec => []TakenInOrder
<1>1. Inv => TakenInOrder
  BY DEF Inv, Good, TakenInOrder
<1> QED  BY Invariant, <1>1, PTL
=============================================================================
