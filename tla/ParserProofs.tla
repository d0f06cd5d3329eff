---------------------------- MODULE ParserProofs ----------------------------
(***************************************************************************)
(* Proofs about Parser: the masks of the cases in progress and the counter *)
(* of open blocks follow the recursive descent, and the parser, which      *)
(* finds the end of each case by scanning ahead, decides of every text     *)
(* what the grammar decides, which reads it once and never looks ahead:    *)
(* for any texts, and however deep blocks, modules and scripts nest.       *)
(***************************************************************************)
EXTENDS Parser, Integers, FiniteSetTheorems, TLAPS

(* The calls in progress by what they are counted for: the text, a module,  *)
(* a case, or a block that waits for its fi.                                *)
Class(kind) ==
  CASE kind \in {"script", "module"} -> kind
    [] kind \in {"case", "default"} -> "case"
    [] OTHER -> "waiting"
Classes == {"script", "module", "case", "waiting"}
ClassesOf(q) == [b \in DOMAIN q |-> Class(q[b].kind)]

LEMMA ClassType == \A kind \in Kind : Class(kind) \in Classes
BY DEF Class, Classes, Kind

LEMMA ClassesType ==
  ASSUME NEW q \in Seq(Block)
  PROVE  /\ ClassesOf(q) \in Seq(Classes) /\ Len(ClassesOf(q)) = Len(q)
         /\ \A b \in 1..Len(q) : ClassesOf(q)[b] = Class(q[b].kind)
<1>1. \A x \in Block : x.kind \in Kind
  BY DEF Block
<1>2. \A b \in 1..Len(q) : q[b] \in Block
  OBVIOUS
<1>3. \A b \in 1..Len(q) : Class(q[b].kind) \in Classes
  BY <1>1, <1>2, ClassType
<1> QED  BY <1>3 DEF ClassesOf

LEMMA ClassesAppended ==
  ASSUME NEW q \in Seq(Block), NEW x \in Block
  PROVE  ClassesOf(Append(q, x)) = Append(ClassesOf(q), Class(x.kind))
<1> DEFINE r == Append(q, x)
<1>1. r \in Seq(Block) /\ Len(r) = Len(q) + 1
      /\ \A b \in 1..Len(r) : r[b] = IF b = Len(r) THEN x ELSE q[b]
  OBVIOUS
<1>2. Class(x.kind) \in Classes
  BY ClassType DEF Block
<1>3. /\ Append(ClassesOf(q), Class(x.kind)) \in Seq(Classes)
      /\ Len(Append(ClassesOf(q), Class(x.kind))) = Len(q) + 1
      /\ \A b \in 1..Len(q) + 1 : Append(ClassesOf(q), Class(x.kind))[b]
           = IF b = Len(q) + 1 THEN Class(x.kind) ELSE ClassesOf(q)[b]
  BY <1>2, ClassesType
<1>4. ClassesOf(r) \in Seq(Classes) /\ Len(ClassesOf(r)) = Len(q) + 1
      /\ \A b \in 1..Len(q) + 1 : ClassesOf(r)[b] = Class(r[b].kind)
  BY <1>1, ClassesType
<1>5. \A b \in 1..Len(q) + 1 :
        ClassesOf(r)[b] = Append(ClassesOf(q), Class(x.kind))[b]
  <2> SUFFICES ASSUME NEW b \in 1..Len(q) + 1
               PROVE  ClassesOf(r)[b] = Append(ClassesOf(q), Class(x.kind))[b]
    OBVIOUS
  <2>1. CASE b = Len(q) + 1
    BY <1>1, <1>3, <1>4, <2>1
  <2>2. CASE b # Len(q) + 1
    <3>1. b \in 1..Len(q)
      BY <2>2
    <3> QED  BY <1>1, <1>3, <1>4, <3>1, ClassesType
  <2> QED  BY <2>1, <2>2
<1> HIDE DEF r
<1>6. ClassesOf(r) = Append(ClassesOf(q), Class(x.kind))
  BY <1>3, <1>4, <1>5
<1> QED  BY <1>6 DEF r

LEMMA ClassesCut ==
  ASSUME NEW q \in Seq(Block), q # <<>>
  PROVE  /\ Front(q) \in Seq(Block) /\ Last(q) \in Block
         /\ ClassesOf(q) = Append(ClassesOf(Front(q)), Class(Last(q).kind))
<1>1. /\ Front(q) \in Seq(Block) /\ Last(q) \in Block
      /\ q = Append(Front(q), Last(q))
  BY DEF Front, Last
<1> QED  BY <1>1, ClassesAppended

(* The same calls, of which the last one has another last or has_default.   *)
LEMMA ClassesMarked ==
  ASSUME NEW q \in Seq(Block), q # <<>>, NEW x \in Block,
         x.kind = Last(q).kind
  PROVE  /\ [q EXCEPT ![Len(q)] = x] \in Seq(Block)
         /\ [q EXCEPT ![Len(q)] = x] # <<>>
         /\ ClassesOf([q EXCEPT ![Len(q)] = x]) = ClassesOf(q)
<1> DEFINE r == [q EXCEPT ![Len(q)] = x]
<1>1. r \in Seq(Block) /\ Len(r) = Len(q) /\ r # <<>>
  OBVIOUS
<1>2. \A b \in 1..Len(q) : r[b].kind = q[b].kind
  BY DEF Last
<1> HIDE DEF r
<1>3. /\ ClassesOf(r) \in Seq(Classes) /\ Len(ClassesOf(r)) = Len(q)
      /\ \A b \in 1..Len(q) : ClassesOf(r)[b] = Class(r[b].kind)
  BY <1>1, ClassesType
<1>4. /\ ClassesOf(q) \in Seq(Classes) /\ Len(ClassesOf(q)) = Len(q)
      /\ \A b \in 1..Len(q) : ClassesOf(q)[b] = Class(q[b].kind)
  BY ClassesType
<1>5. \A b \in 1..Len(q) : ClassesOf(r)[b] = ClassesOf(q)[b]
  BY <1>2, <1>3, <1>4
<1>6. ClassesOf(r) = ClassesOf(q)
  BY <1>3, <1>4, <1>5
<1> QED  BY <1>1, <1>6 DEF r

-----------------------------------------------------------------------------
(* Counting: the modules, the cases of the n-th text and the waiting blocks *)
(* among calls.                                                             *)
Mods(s, b) == {m \in 1..b : s[m] = "module"}
Depth(s) == Cardinality(Mods(s, Len(s)))
InText(s, n) == {b \in DOMAIN s : s[b] = "case" /\ Cardinality(Mods(s, b)) + 1 = n}
CasesOf(s, n) == Cardinality(InText(s, n))
WaitingIn(s) == {b \in DOMAIN s : s[b] = "waiting"}
Waits(s) == Cardinality(WaitingIn(s))

LEMMA CountsFinite ==
  ASSUME NEW s \in Seq(Classes)
  PROVE  /\ \A b \in 0..Len(s) : IsFiniteSet(Mods(s, b))
         /\ Depth(s) \in Nat
         /\ \A n : IsFiniteSet(InText(s, n)) /\ CasesOf(s, n) \in Nat
         /\ IsFiniteSet(WaitingIn(s)) /\ Waits(s) \in Nat
<1>1. \A b \in 0..Len(s) : IsFiniteSet(1..b)
  BY FS_Interval
<1>2. \A b \in 0..Len(s) : Mods(s, b) \subseteq 1..b
  BY DEF Mods
<1>3. \A b \in 0..Len(s) : IsFiniteSet(Mods(s, b))
  BY <1>1, <1>2, FS_Subset
<1>4. DOMAIN s = 1..Len(s) /\ Len(s) \in 0..Len(s)
  OBVIOUS
<1>5. IsFiniteSet(DOMAIN s)
  BY <1>1, <1>4
<1>6. \A n : IsFiniteSet(InText(s, n))
  <2> SUFFICES ASSUME NEW n PROVE IsFiniteSet(InText(s, n))
    OBVIOUS
  <2>1. InText(s, n) \subseteq DOMAIN s
    BY DEF InText
  <2> QED  BY <1>5, <2>1, FS_Subset
<1>7. IsFiniteSet(WaitingIn(s))
  <2>1. WaitingIn(s) \subseteq DOMAIN s
    BY DEF WaitingIn
  <2> QED  BY <1>5, <2>1, FS_Subset
<1> QED  BY <1>3, <1>4, <1>6, <1>7, FS_CardinalityType DEF Depth, CasesOf, Waits

(* A call more changes the one count that is about it, by one.              *)
LEMMA OneMore ==
  ASSUME NEW s \in Seq(Classes), NEW c \in Classes
  PROVE  /\ Depth(Append(s, c)) = Depth(s) + (IF c = "module" THEN 1 ELSE 0)
         /\ Waits(Append(s, c)) = Waits(s) + (IF c = "waiting" THEN 1 ELSE 0)
         /\ \A n : CasesOf(Append(s, c), n)
              = CasesOf(s, n)
                + (IF c = "case" /\ n = Depth(s) + 1 THEN 1 ELSE 0)
<1> DEFINE t == Append(s, c)
           top == Len(s) + 1
<1>1. /\ t \in Seq(Classes) /\ Len(t) = top /\ DOMAIN t = DOMAIN s \cup {top}
      /\ DOMAIN s = 1..Len(s) /\ top \notin DOMAIN s /\ t[top] = c
      /\ \A b \in DOMAIN s : t[b] = s[b]
  OBVIOUS
<1> HIDE DEF t
<1>2. \A b \in 0..Len(s) : Mods(t, b) = Mods(s, b)
  <2> SUFFICES ASSUME NEW b \in 0..Len(s) PROVE Mods(t, b) = Mods(s, b)
    OBVIOUS
  <2>1. \A m \in 1..b : m \in DOMAIN s
    BY <1>1
  <2> QED  BY <1>1, <2>1 DEF Mods
<1>3. Mods(t, top) = IF c = "module" THEN Mods(s, Len(s)) \cup {top}
                     ELSE Mods(s, Len(s))
  <2>1. 1..top = DOMAIN s \cup {top}
    BY <1>1
  <2> QED  BY <1>1, <2>1 DEF Mods
<1>4. top \notin Mods(s, Len(s)) /\ \A n : top \notin InText(s, n)
  BY <1>1 DEF Mods, InText
<1>5. /\ IsFiniteSet(Mods(s, Len(s))) /\ Depth(s) \in Nat
      /\ \A n : IsFiniteSet(InText(s, n)) /\ CasesOf(s, n) \in Nat
      /\ IsFiniteSet(WaitingIn(s)) /\ Waits(s) \in Nat
  BY CountsFinite
<1>6. Depth(t) = Depth(s) + (IF c = "module" THEN 1 ELSE 0)
  <2>1. CASE c = "module"
    <3>1. PICK M : M = Mods(s, Len(s)) /\ IsFiniteSet(M) /\ top \notin M
      BY <1>4, <1>5
    <3>2. Mods(t, Len(t)) = M \cup {top}
      BY <1>1, <1>3, <2>1, <3>1
    <3>3. Cardinality(M \cup {top}) = Cardinality(M) + 1
      BY <3>1, FS_AddElement
    <3> QED  BY <2>1, <3>1, <3>2, <3>3 DEF Depth
  <2>2. CASE c # "module"
    BY <1>1, <1>3, <1>5, <2>2 DEF Depth
  <2> QED  BY <2>1, <2>2
<1>7. Waits(t) = Waits(s) + (IF c = "waiting" THEN 1 ELSE 0)
  <2>1. WaitingIn(t)
          = WaitingIn(s)
            \cup (IF c = "waiting" THEN {top} ELSE {})
    BY <1>1 DEF WaitingIn
  <2>2. top \notin WaitingIn(s)
    BY <1>1 DEF WaitingIn
  <2>3. CASE c = "waiting"
    BY <1>5, <2>1, <2>2, <2>3, FS_AddElement DEF Waits
  <2>4. CASE c # "waiting"
    BY <1>5, <2>1, <2>4 DEF Waits
  <2> QED  BY <2>3, <2>4
<1>8. ASSUME NEW n
      PROVE  CasesOf(t, n) = CasesOf(s, n)
                             + (IF c = "case" /\ n = Depth(s) + 1 THEN 1 ELSE 0)
  <2>1. \A b \in DOMAIN s : b \in InText(t, n) <=> b \in InText(s, n)
    BY <1>1, <1>2 DEF InText
  <2>2. top \in InText(t, n) <=> c = "case" /\ Depth(s) + 1 = n
    BY <1>1, <1>3 DEF InText, Depth
  <2>3. InText(t, n) \subseteq DOMAIN s \cup {top} /\ InText(s, n) \subseteq DOMAIN s
    BY <1>1 DEF InText
  <2>4. CASE c = "case" /\ n = Depth(s) + 1
    <3>1. InText(t, n) = InText(s, n) \cup {top}
      BY <2>1, <2>2, <2>3, <2>4
    <3> QED  BY <1>4, <1>5, <2>4, <3>1, FS_AddElement DEF CasesOf
  <2>5. CASE ~(c = "case" /\ n = Depth(s) + 1)
    <3>1. InText(t, n) = InText(s, n)
      BY <2>1, <2>2, <2>3, <2>5
    <3> QED  BY <1>5, <2>5, <3>1 DEF CasesOf
  <2> QED  BY <2>4, <2>5
<1> QED  BY <1>6, <1>7, <1>8 DEF t

(* No case is in a text further in than the one being read.                 *)
LEMMA NoneBeyond ==
  ASSUME NEW s \in Seq(Classes), NEW n \in Nat, n > Depth(s) + 1
  PROVE  CasesOf(s, n) = 0
<1>1. ASSUME NEW b \in DOMAIN s PROVE Cardinality(Mods(s, b)) <= Depth(s)
  <2>1. b \in 0..Len(s) /\ Len(s) \in 0..Len(s) /\ b <= Len(s)
    OBVIOUS
  <2>2. Mods(s, b) \subseteq Mods(s, Len(s))
    BY <2>1 DEF Mods
  <2> QED  BY <2>1, <2>2, CountsFinite, FS_Subset DEF Depth
<1>2. ASSUME NEW b \in InText(s, n) PROVE FALSE
  <2>1. b \in DOMAIN s /\ Cardinality(Mods(s, b)) + 1 = n
    BY DEF InText
  <2>2. Cardinality(Mods(s, b)) \in Nat
    <3>1. b \in 0..Len(s)
      BY <2>1
    <3> QED  BY <3>1, CountsFinite, FS_CardinalityType
  <2> QED  BY <1>1, <2>1, <2>2, CountsFinite
<1>3. InText(s, n) = {}
  BY <1>2
<1> QED  BY <1>3, FS_EmptySet DEF CasesOf

-----------------------------------------------------------------------------
(* The invariant: types; what the bottom of the descent is and how many     *)
(* modules are in it; the masks of every text in progress; the counter.     *)
StreamSet == [tokens : Seq(Token), pos : Nat, masked : SUBSET Nat]
Prefix == Alias \cup {NoName}
ImportType == [ts : StreamSet, prefix : Prefix]

Types ==
  /\ phase \in {"parsing", "running", "failed"}
  /\ ts \in StreamSet
  /\ blocks \in Seq(Block)
  /\ importing \in Seq(ImportType)
  /\ fi_block_nesting \in Nat
  /\ current_import_prefix \in Prefix
  /\ parses \in Nat \ {0}

classes == ClassesOf(blocks)
Parsing == phase = "parsing"

Bottom(s) == s # <<>> /\ \A b \in 1..Len(s) : s[b] = "script" <=> b = 1
Descent ==
  /\ Parsing => Bottom(classes) /\ Depth(classes) = Len(importing)
  /\ ~Parsing => importing = <<>>

Hides(stream) ==
  /\ IsFiniteSet(stream.masked)
  /\ \A i \in stream.masked :
       i >= stream.pos /\ stream.tokens[i] \in {"fi", "case", "default"}
StreamAt(n) == IF n <= Len(importing) THEN importing[n].ts ELSE ts
Masked(n) == /\ Hides(StreamAt(n))
             /\ Cardinality(StreamAt(n).masked) = CasesOf(classes, n)
Masks == Parsing => \A n \in 1..Len(importing) + 1 : Masked(n)

Counter == Parsing => /\ fi_block_nesting >= Waits(classes)
                      /\ parses = 1 => fi_block_nesting = Waits(classes)

Inv == Types /\ Descent /\ Masks /\ Counter

-----------------------------------------------------------------------------
(* The shapes of a step of the parser.                                      *)
Goes == /\ Parsing /\ Parsing'
        /\ blocks' \in Seq(Block)
        /\ UNCHANGED parses
Within == Goes /\ UNCHANGED <<importing, current_import_prefix>>

(* A token is read; a block begins or ends with it, or neither.             *)
Reads ==
  /\ Within
  /\ ts_peek # "eof" /\ ts_advance
  /\ \/ classes' = classes /\ fi_block_nesting' = fi_block_nesting
     \/ classes' = Append(classes, "waiting") /\ fi_block_nesting' = fi_block_nesting + 1
     \/ classes = Append(classes', "waiting") /\ fi_block_nesting' = fi_block_nesting - 1

CaseBegins ==
  /\ Within /\ UNCHANGED fi_block_nesting
  /\ ts_peek # "eof"
  /\ \E b \in Nat \ ts.masked :
       /\ b > ts.pos /\ ts.tokens[b] \in {"fi", "case", "default"}
       /\ ts' = [ts EXCEPT !.pos = @ + 1, !.masked = @ \cup {b}]
  /\ classes' = Append(classes, "case")

CaseEnds ==
  /\ Within /\ UNCHANGED fi_block_nesting
  /\ ts.pos \in ts.masked
  /\ ts' = [ts EXCEPT !.masked = @ \ {ts.pos}]
  /\ classes = Append(classes', "case")

ModuleBegins ==
  /\ Goes /\ UNCHANGED fi_block_nesting
  /\ ts_peek # "eof"
  /\ \E text \in Modules : ts' = Stream(text)
  /\ importing' = Append(importing, [ts |-> [ts EXCEPT !.pos = @ + 1],
                                     prefix |-> current_import_prefix])
  /\ current_import_prefix' \in Alias
  /\ classes' = Append(classes, "module")

ModuleEnds ==
  /\ Goes /\ UNCHANGED fi_block_nesting
  /\ importing' = Front(importing)
  /\ ts' = Last(importing).ts
  /\ current_import_prefix' = Last(importing).prefix
  /\ classes = Append(classes', "module")

Stops ==
  /\ Parsing
  /\ phase' \in {"running", "failed"}
  /\ blocks' = <<>> /\ importing' = <<>>
  /\ UNCHANGED <<ts, fi_block_nesting, current_import_prefix, parses>>

Shaped == Reads \/ CaseBegins \/ CaseEnds \/ ModuleBegins \/ ModuleEnds \/ Stops

LEMMA ErrorStops ==
  ASSUME Parsing, NEW reason, Error(reason)
  PROVE  Stops
BY DEF Error, Stops

(* What is known while a text is parsed.                                    *)
LEMMA TopIs ==
  ASSUME Types, Descent, Parsing
  PROVE  /\ blocks \in Seq(Block) /\ blocks # <<>>
         /\ Top \in Block /\ Front(blocks) \in Seq(Block)
         /\ classes = Append(ClassesOf(Front(blocks)), Class(Top.kind))
         /\ classes \in Seq(Classes) /\ Len(classes) = Len(blocks)
<1>1. blocks \in Seq(Block) /\ classes \in Seq(Classes)
      /\ Len(classes) = Len(blocks)
  BY ClassesType DEF Types, classes
<1>2. blocks # <<>>
  BY <1>1 DEF Descent, Bottom
<1> QED  BY <1>1, <1>2, ClassesCut DEF classes, Top

LEMMA NewIs ==
  ASSUME NEW kind \in Kind
  PROVE  NewBlock(kind) \in Block /\ NewBlock(kind).kind = kind
BY DEF NewBlock, Block

LEMMA NoteKeeps ==
  ASSUME Types, Descent, Parsing, NEW last \in {"none", "break", "stmt"}
  PROVE  /\ Note(last) \in Seq(Block) /\ ClassesOf(Note(last)) = classes
<1> DEFINE x == [Top EXCEPT !.last = last]
<1>1. x \in Block /\ x.kind = Top.kind
  BY TopIs DEF Block
<1>2. Note(last) = [blocks EXCEPT ![Len(blocks)] = x]
  BY TopIs DEF Note, Top, Last
<1> QED  BY <1>1, <1>2, TopIs, ClassesMarked DEF Top, classes

LEMMA EnterPushes ==
  ASSUME Types, Descent, Parsing, NEW b \in Block, Enter(b)
  PROVE  /\ blocks' \in Seq(Block)
         /\ classes' = Append(classes, Class(b.kind))
<1>1. Note("stmt") \in Seq(Block) /\ ClassesOf(Note("stmt")) = classes
  BY NoteKeeps
<1> QED  BY <1>1, ClassesAppended DEF Enter, classes

LEMMA LeavePops ==
  ASSUME Types, Descent, Parsing, Leave
  PROVE  /\ blocks' \in Seq(Block)
         /\ classes = Append(classes', Class(Top.kind))
BY TopIs DEF Leave, classes

LEMMA StatementReads ==
  ASSUME NEW token \in Token, Statement(token)
  PROVE  Parsing /\ ts_peek # "eof"
BY DEF Statement, Parsing, Token

LEMMA BlocksShaped ==
  ASSUME Types, Descent, Blocks
  PROVE  Shaped
<1>p. Parsing
  BY DEF Blocks, Simple, Open, Close, Continue, Unclosed, Stray, Malformed,
         Statement, Parsing
<1>1. ASSUME NEW token \in {"stmt", "break"}, Simple(token) PROVE Reads
  <2>1. ts_peek # "eof"
    BY <1>1, StatementReads DEF Simple, Token
  <2>2. blocks' \in Seq(Block) /\ classes' = classes
    BY <1>1, <1>p, NoteKeeps DEF Simple, classes
  <2> QED  BY <1>1, <1>p, <2>1, <2>2
           DEF Simple, Reads, Within, Goes, Unread, Parsing
<1>2. ASSUME NEW token \in {"block", "if", "try"}, Open(token) PROVE Reads
  <2>1. ts_peek # "eof"
    BY <1>2, StatementReads DEF Open, Token
  <2>2. NewBlock(token) \in Block /\ Class(NewBlock(token).kind) = "waiting"
    BY NewIs DEF Kind, Class
  <2>3. blocks' \in Seq(Block) /\ classes' = Append(classes, "waiting")
    BY <1>2, <1>p, <2>2, EnterPushes DEF Open
  <2> QED  BY <1>2, <1>p, <2>1, <2>3
           DEF Open, Reads, Within, Goes, Unread, Parsing
<1>3. ASSUME Close PROVE Reads
  <2>1. Class(Top.kind) = "waiting" /\ ts_peek # "eof"
    BY <1>3 DEF Close, Class
  <2>2. blocks' \in Seq(Block) /\ classes = Append(classes', "waiting")
    BY <1>3, <1>p, <2>1, LeavePops DEF Close
  <2> QED  BY <1>3, <1>p, <2>1, <2>2
           DEF Close, Reads, Within, Goes, Unread, Parsing
<1>4. ASSUME Continue PROVE Reads
  <2>1. PICK kind \in {"if", "else", "catch"} : Become(kind)
    BY <1>4 DEF Continue
  <2>2. Class(Top.kind) = "waiting" /\ Class(kind) = "waiting" /\ ts_peek # "eof"
    BY <1>4 DEF Continue, Class, In
  <2>3. NewBlock(kind) \in Block /\ NewBlock(kind).kind = kind
    BY NewIs DEF Kind
  <2>4. blocks' \in Seq(Block)
        /\ classes' = Append(ClassesOf(Front(blocks)), "waiting")
    BY <1>p, <2>1, <2>2, <2>3, TopIs, ClassesAppended DEF Become, classes
  <2>5. classes' = classes
    BY <1>p, <2>2, <2>4, TopIs
  <2> QED  BY <1>4, <1>p, <2>2, <2>4, <2>5
           DEF Continue, Reads, Within, Goes, Unread, Parsing
<1>5. ASSUME Unclosed \/ Stray \/ Malformed PROVE Stops
  BY <1>5, <1>p, ErrorStops DEF Unclosed, Stray, Malformed
<1> QED  BY <1>1, <1>2, <1>3, <1>4, <1>5 DEF Blocks, Shaped

LEMMA FunctionsShaped ==
  ASSUME Types, Descent, Functions
  PROVE  Shaped
<1>p. Parsing
  BY DEF Functions, Register, Define, Redefine, Statement, Parsing, In
<1>1. ASSUME Register PROVE Reads
  <2>1. Class(Top.kind) = "waiting" /\ ts_peek # "eof"
    BY <1>1 DEF Register, Class, In
  <2>2. blocks' \in Seq(Block) /\ classes = Append(classes', "waiting")
    BY <1>1, <1>p, <2>1, LeavePops DEF Register
  <2> QED  BY <1>1, <1>p, <2>1, <2>2 DEF Register, Reads, Within, Goes, Parsing
<1>2. ASSUME NEW token \in {"function", "global function"}, NEW f \in FuncName,
             Define(token, f)
      PROVE  Reads
  <2>1. ts_peek # "eof"
    BY <1>2, StatementReads DEF Define, Token
  <2> DEFINE b == [NewBlock(token) EXCEPT !.name = f]
  <2>2. b \in Block /\ b.kind = token
    BY NewIs DEF Kind, Block, NewBlock
  <2>3. Class(token) = "waiting"
    BY DEF Class
  <2>4. blocks' \in Seq(Block) /\ classes' = Append(classes, "waiting")
    BY <1>2, <1>p, <2>2, <2>3, EnterPushes DEF Define
  <2> QED  BY <1>2, <1>p, <2>1, <2>4
           DEF Define, Reads, Within, Goes, Unread, Parsing
<1>3. ASSUME NEW token, NEW f, Redefine(token, f) PROVE Stops
  BY <1>3, <1>p, ErrorStops DEF Redefine
<1> QED  BY <1>1, <1>2, <1>3 DEF Functions, Shaped

LEMMA CaseShaped ==
  ASSUME Types, Descent, Parsing, NEW kind \in {"case", "default"},
         NEW boundary \in DOMAIN ts.tokens, Body(kind, boundary)
  PROVE  /\ blocks' \in Seq(Block) /\ classes' = Append(classes, "case")
         /\ boundary \in Nat \ ts.masked /\ boundary > ts.pos
         /\ ts.tokens[boundary] \in {"fi", "case", "default"}
         /\ ts' = [ts EXCEPT !.pos = @ + 1, !.masked = @ \cup {boundary}]
<1> DEFINE x == [Top EXCEPT !.has_default = @ \/ kind = "default"]
<1>1. x \in Block /\ x.kind = Top.kind
  <2>1. x.has_default \in BOOLEAN
    BY TopIs DEF Block
  <2> QED  BY <2>1, TopIs DEF Block
<1>2. [blocks EXCEPT ![Len(blocks)].has_default = @ \/ kind = "default"]
        = [blocks EXCEPT ![Len(blocks)] = x]
  BY TopIs DEF Top, Last
<1>3. NewBlock(kind) \in Block /\ Class(NewBlock(kind).kind) = "case"
  BY NewIs DEF Kind, Class
<1>4. blocks' = Append([blocks EXCEPT ![Len(blocks)] = x], NewBlock(kind))
  BY <1>2 DEF Body
<1>5. /\ [blocks EXCEPT ![Len(blocks)] = x] \in Seq(Block)
      /\ ClassesOf([blocks EXCEPT ![Len(blocks)] = x]) = classes
  BY <1>1, TopIs, ClassesMarked DEF Top, classes
<1>6. blocks' \in Seq(Block) /\ classes' = Append(classes, "case")
  <2>1. PICK r \in Seq(Block) :
          ClassesOf(r) = classes /\ blocks' = Append(r, NewBlock(kind))
    BY <1>4, <1>5
  <2>2. ClassesOf(blocks') = Append(classes, "case")
    BY <1>3, <2>1, ClassesAppended
  <2> QED  BY <1>3, <2>1, <2>2 DEF classes
<1>7. boundary \in Boundaries(ts.pos + 1) /\ boundary \in Nat
  BY DEF Body, Types, StreamSet
<1>8. /\ boundary \notin ts.masked /\ boundary > ts.pos
      /\ ts.tokens[boundary] \in {"fi", "case", "default"}
  BY <1>7 DEF Boundaries, Types, StreamSet
<1> QED  BY <1>6, <1>7, <1>8 DEF Body

LEMMA SwitchesShaped ==
  ASSUME Types, Descent, Switches
  PROVE  Shaped
<1>p. Parsing
  BY DEF Switches, Open, Statement, parse_case, parse_default, EndCase,
         EndSwitch, BadSwitch, BadDefault, MissingFi, In, Parsing
<1>1. ASSUME Open("switch") PROVE Reads
  <2>1. ts_peek # "eof"
    BY <1>1, StatementReads DEF Open, Token
  <2>2. NewBlock("switch") \in Block /\ Class(NewBlock("switch").kind) = "waiting"
    BY NewIs DEF Kind, Class
  <2>3. blocks' \in Seq(Block) /\ classes' = Append(classes, "waiting")
    BY <1>1, <1>p, <2>2, EnterPushes DEF Open
  <2> QED  BY <1>1, <1>p, <2>1, <2>3
           DEF Open, Reads, Within, Goes, Unread, Parsing
<1>2. ASSUME parse_case \/ parse_default PROVE CaseBegins
  <2>1. PICK kind \in {"case", "default"}, b \in DOMAIN ts.tokens : Body(kind, b)
    BY <1>2 DEF parse_case, parse_default
  <2>2. ts_peek # "eof"
    BY <1>2 DEF parse_case, parse_default
  <2> QED  BY <1>2, <1>p, <2>1, <2>2, CaseShaped
           DEF parse_case, parse_default, CaseBegins, Within, Goes, Unread, Parsing
<1>3. ASSUME EndCase PROVE CaseEnds
  <2>1. Class(Top.kind) = "case"
    BY <1>3 DEF EndCase, Class, In
  <2>2. blocks' \in Seq(Block) /\ classes = Append(classes', "case")
    BY <1>3, <1>p, <2>1, LeavePops DEF EndCase
  <2> QED  BY <1>3, <1>p, <2>2
           DEF EndCase, CaseEnds, Within, Goes, Unread, Parsing
<1>4. ASSUME EndSwitch PROVE Reads
  <2>1. Class(Top.kind) = "waiting" /\ ts_peek # "eof"
    BY <1>4 DEF EndSwitch, Class, In
  <2>2. blocks' \in Seq(Block) /\ classes = Append(classes', "waiting")
    BY <1>4, <1>p, <2>1, LeavePops DEF EndSwitch
  <2> QED  BY <1>4, <1>p, <2>1, <2>2
           DEF EndSwitch, Reads, Within, Goes, Unread, Parsing
<1>5. ASSUME BadSwitch \/ BadDefault \/ MissingFi PROVE Stops
  BY <1>5, <1>p, ErrorStops DEF BadSwitch, BadDefault, MissingFi
<1> QED  BY <1>1, <1>2, <1>3, <1>4, <1>5 DEF Switches, Shaped

(* Only the outermost text ends while nothing is being imported.            *)
LEMMA ScriptIsAlone ==
  ASSUME Types, Descent, Parsing, Top.kind = "script"
  PROVE  importing = <<>> /\ Front(blocks) = <<>>
<1>1. /\ classes \in Seq(Classes) /\ Len(classes) = Len(blocks)
      /\ blocks \in Seq(Block) /\ blocks # <<>>
  BY TopIs
<1>2. classes[Len(blocks)] = "script"
  BY <1>1, ClassesType DEF classes, Top, Last, Class
<1>3. Len(blocks) = 1 /\ classes[1] = "script"
  BY <1>1, <1>2 DEF Descent, Bottom
<1>4. Mods(classes, Len(classes)) = {}
  BY <1>1, <1>3 DEF Mods
<1>5. Len(importing) = 0
  BY <1>4, FS_EmptySet DEF Descent, Depth
<1> QED  BY <1>1, <1>3, <1>5 DEF Types, Front

LEMMA ParseShaped ==
  ASSUME Types, Descent, Parse
  PROVE  Shaped
<1>1. ASSUME Import PROVE ModuleBegins
  <2>1. Parsing /\ ts_peek # "eof"
    BY <1>1, StatementReads DEF Import, Token
  <2>2. NewBlock("module") \in Block /\ Class(NewBlock("module").kind) = "module"
    BY NewIs DEF Kind, Class
  <2>3. blocks' \in Seq(Block) /\ classes' = Append(classes, "module")
    BY <1>1, <2>1, <2>2, EnterPushes DEF Import
  <2> QED  BY <1>1, <2>1, <2>3 DEF Import, ModuleBegins, Goes, Parsing
<1>2. ASSUME EndModule PROVE ModuleEnds
  <2>1. Parsing /\ Class(Top.kind) = "module"
    BY <1>2 DEF EndModule, Class, In, Parsing
  <2>2. blocks' \in Seq(Block) /\ classes = Append(classes', "module")
    BY <1>2, <2>1, LeavePops DEF EndModule
  <2> QED  BY <1>2, <2>1, <2>2 DEF EndModule, ModuleEnds, Goes, Parsing
<1>3. ASSUME EndScript PROVE Stops
  <2>1. Parsing /\ Top.kind = "script"
    BY <1>3 DEF EndScript, In, Parsing
  <2> QED  BY <1>3, <2>1, ScriptIsAlone DEF EndScript, Stops, Leave
<1> QED  BY <1>1, <1>2, <1>3, BlocksShaped, FunctionsShaped, SwitchesShaped
         DEF Parse, Shaped

-----------------------------------------------------------------------------
(* Each part of the invariant is kept, by the shape of the step.            *)
LEMMA StreamMoves ==
  ASSUME NEW s \in StreamSet
  PROVE  /\ [s EXCEPT !.pos = @ + 1] \in StreamSet
         /\ \A b \in Nat :
              [s EXCEPT !.pos = @ + 1, !.masked = @ \cup {b}] \in StreamSet
         /\ \A b : [s EXCEPT !.masked = @ \ {b}] \in StreamSet
<1>1. s.pos + 1 \in Nat /\ s.masked \in SUBSET Nat
  BY DEF StreamSet
<1>2. [s EXCEPT !.pos = @ + 1] \in StreamSet
  BY DEF StreamSet
<1>3. ASSUME NEW b \in Nat
      PROVE  [s EXCEPT !.pos = @ + 1, !.masked = @ \cup {b}] \in StreamSet
  <2>1. s.masked \cup {b} \in SUBSET Nat
    BY <1>1
  <2> QED  BY <1>1, <2>1 DEF StreamSet
<1>4. ASSUME NEW b PROVE [s EXCEPT !.masked = @ \ {b}] \in StreamSet
  <2>1. s.masked \ {b} \in SUBSET Nat
    BY <1>1
  <2> QED  BY <2>1 DEF StreamSet
<1> QED  BY <1>2, <1>3, <1>4

LEMMA StreamsTyped ==
  ASSUME Types
  PROVE  /\ ts \in StreamSet
         /\ importing \in Seq(ImportType) /\ Len(importing) \in Nat
         /\ \A n \in 1..Len(importing) : importing[n].ts \in StreamSet
<1>1. ts \in StreamSet /\ importing \in Seq(ImportType)
  BY DEF Types
<1>2. \A m \in ImportType : m.ts \in StreamSet
  BY DEF ImportType
<1>3. \A n \in 1..Len(importing) : importing[n] \in ImportType
  BY <1>1
<1> QED  BY <1>1, <1>2, <1>3

LEMMA TypesKept ==
  ASSUME Types, Descent, Counter, Shaped
  PROVE  Types'
<1>1. ASSUME Reads PROVE Types'
  <2>1. fi_block_nesting' \in Nat
    <3>1. CASE classes = Append(classes', "waiting")
               /\ fi_block_nesting' = fi_block_nesting - 1
      <4>1. classes' \in Seq(Classes)
        BY <1>1, ClassesType DEF Reads, Within, Goes, classes
      <4>2. Waits(classes) = Waits(classes') + 1 /\ Waits(classes') \in Nat
        BY <3>1, <4>1, OneMore, CountsFinite DEF Classes
      <4> QED  BY <1>1, <3>1, <4>2 DEF Reads, Within, Goes, Counter, Types
    <3>2. CASE fi_block_nesting' \in {fi_block_nesting, fi_block_nesting + 1}
      BY <3>2 DEF Types
    <3> QED  BY <1>1, <3>1, <3>2 DEF Reads
  <2>2. ts' \in StreamSet
    BY <1>1, StreamsTyped, StreamMoves DEF Reads, ts_advance
  <2>3. Within
    BY <1>1 DEF Reads
  <2> QED  BY <2>1, <2>2, <2>3 DEF Within, Goes, Types, Parsing
<1>2. ASSUME CaseBegins PROVE Types'
  <2>1. ts' \in StreamSet
    BY <1>2, StreamsTyped, StreamMoves DEF CaseBegins
  <2> QED  BY <1>2, <2>1 DEF CaseBegins, Within, Goes, Types, Parsing
<1>3. ASSUME CaseEnds PROVE Types'
  <2>1. ts' \in StreamSet
    BY <1>3, StreamsTyped, StreamMoves DEF CaseEnds
  <2> QED  BY <1>3, <2>1 DEF CaseEnds, Within, Goes, Types, Parsing
<1>4. ASSUME ModuleBegins PROVE Types'
  <2>1. ts' \in StreamSet
    <3>1. PICK text \in Modules : ts' = Stream(text)
      BY <1>4 DEF ModuleBegins
    <3>2. text \in Seq(Token)
      BY TextsAssumption
    <3> QED  BY <3>1, <3>2 DEF Stream, StreamSet
  <2>2. [ts |-> [ts EXCEPT !.pos = @ + 1], prefix |-> current_import_prefix]
          \in ImportType
    BY StreamsTyped, StreamMoves DEF Types, ImportType
  <2>3. importing' \in Seq(ImportType)
    BY <1>4, <2>2 DEF ModuleBegins, Types
  <2> QED  BY <1>4, <2>1, <2>3 DEF ModuleBegins, Goes, Types, Parsing, Prefix
<1>5. ASSUME ModuleEnds PROVE Types'
  <2>1. classes' \in Seq(Classes)
    BY <1>5, ClassesType DEF ModuleEnds, Goes, classes
  <2>2. Depth(classes) = Depth(classes') + 1 /\ Depth(classes') \in Nat
    BY <1>5, <2>1, OneMore, CountsFinite DEF ModuleEnds, Classes
  <2>3. Len(importing) > 0
    BY <1>5, <2>2 DEF ModuleEnds, Goes, Descent
  <2>4. Last(importing) \in ImportType /\ Front(importing) \in Seq(ImportType)
    BY <2>3 DEF Types, Last, Front
  <2>5. /\ ts' \in StreamSet /\ current_import_prefix' \in Prefix
        /\ importing' \in Seq(ImportType)
    BY <1>5, <2>4 DEF ModuleEnds, ImportType
  <2> QED  BY <1>5, <2>5 DEF ModuleEnds, Goes, Types, Parsing
<1>6. ASSUME Stops PROVE Types'
  BY <1>6 DEF Stops, Types
<1> QED  BY <1>1, <1>2, <1>3, <1>4, <1>5, <1>6 DEF Shaped

LEMMA BottomKept ==
  ASSUME NEW s \in Seq(Classes), NEW c \in Classes \ {"script"}
  PROVE  s # <<>> => (Bottom(s) <=> Bottom(Append(s, c)))
BY DEF Bottom

LEMMA BottomLeft ==
  ASSUME NEW s \in Seq(Classes), NEW c \in Classes \ {"script"},
         Bottom(Append(s, c))
  PROVE  Bottom(s)
<1>1. s # <<>>
  BY DEF Bottom
<1> QED  BY <1>1, BottomKept

(* What every shape but Stops says of the descent.                          *)
LEMMA DescentMoves ==
  ASSUME Types, Descent, Types', Shaped
  PROVE  \/ Stops
         \/ /\ classes \in Seq(Classes) /\ classes' \in Seq(Classes)
            /\ Parsing /\ Parsing' /\ Bottom(classes')
            /\ Depth(classes) \in Nat /\ Depth(classes') \in Nat
            /\ Len(importing') - Len(importing) = Depth(classes') - Depth(classes)
<1>1. classes \in Seq(Classes) /\ classes' \in Seq(Classes)
  BY ClassesType DEF Types, classes
<1>2. Depth(classes) \in Nat /\ Depth(classes') \in Nat
  BY <1>1, CountsFinite
<1>3. Len(importing) \in Nat /\ Len(importing') \in Nat
  BY DEF Types
<1>4. ASSUME Shaped, ~Stops PROVE Parsing /\ Parsing' /\ Bottom(classes)
  BY <1>4 DEF Shaped, Reads, CaseBegins, CaseEnds, ModuleBegins, ModuleEnds,
          Within, Goes, Descent
<1>5. ASSUME classes' = classes, Bottom(classes)
      PROVE  Bottom(classes') /\ Depth(classes') = Depth(classes)
  BY <1>5
<1>6. ASSUME NEW c \in {"waiting", "case", "module"},
             classes' = Append(classes, c), Bottom(classes)
      PROVE  /\ Bottom(classes')
             /\ Depth(classes') = Depth(classes) + (IF c = "module" THEN 1 ELSE 0)
  <2>1. c \in Classes \ {"script"} /\ classes # <<>>
    BY <1>6 DEF Classes, Bottom
  <2> QED  BY <1>1, <1>6, <2>1, BottomKept, OneMore
<1>7. ASSUME NEW c \in {"waiting", "case", "module"},
             classes = Append(classes', c), Bottom(classes)
      PROVE  /\ Bottom(classes')
             /\ Depth(classes) = Depth(classes') + (IF c = "module" THEN 1 ELSE 0)
  <2>1. c \in Classes \ {"script"}
    BY DEF Classes
  <2> QED  BY <1>1, <1>7, <2>1, BottomLeft, OneMore
<1>8. ASSUME ~Stops, Reads \/ CaseBegins \/ CaseEnds
      PROVE  /\ Bottom(classes') /\ Depth(classes') = Depth(classes)
             /\ importing' = importing
  <2>1. Bottom(classes) /\ importing' = importing
    BY <1>4, <1>8 DEF Shaped, Reads, CaseBegins, CaseEnds, Within
  <2>2. \/ classes' = classes
        \/ \E c \in {"waiting", "case"} : classes' = Append(classes, c)
        \/ \E c \in {"waiting", "case"} : classes = Append(classes', c)
    BY <1>8 DEF Reads, CaseBegins, CaseEnds
  <2>3. ASSUME NEW c \in {"waiting", "case"}, classes' = Append(classes, c)
        PROVE  Bottom(classes') /\ Depth(classes') = Depth(classes)
    <3>1. c \in {"waiting", "case", "module"} /\ c # "module"
      OBVIOUS
    <3> QED  BY <1>2, <1>6, <2>1, <2>3, <3>1
  <2>4. ASSUME NEW c \in {"waiting", "case"}, classes = Append(classes', c)
        PROVE  Bottom(classes') /\ Depth(classes') = Depth(classes)
    <3>1. c \in {"waiting", "case", "module"} /\ c # "module"
      OBVIOUS
    <3> QED  BY <1>2, <1>7, <2>1, <2>4, <3>1
  <2> QED  BY <1>5, <2>1, <2>2, <2>3, <2>4
<1>9. ASSUME ~Stops, ModuleBegins
      PROVE  /\ Bottom(classes') /\ Depth(classes') = Depth(classes) + 1
             /\ Len(importing') = Len(importing) + 1
  <2>1. Len(importing') = Len(importing) + 1
    BY <1>9 DEF ModuleBegins, Types
  <2> QED  BY <1>4, <1>6, <1>9, <2>1 DEF Shaped, ModuleBegins
<1>10. ASSUME ~Stops, ModuleEnds
       PROVE  /\ Bottom(classes') /\ Depth(classes) = Depth(classes') + 1
              /\ Len(importing') = Len(importing) - 1
  <2>1. Bottom(classes') /\ Depth(classes) = Depth(classes') + 1
    BY <1>4, <1>7, <1>10 DEF Shaped, ModuleEnds
  <2>2. Len(importing) > 0
    <3>1. Depth(classes) = Len(importing)
      BY <1>4, <1>10 DEF Descent, Shaped
    <3> QED  BY <1>2, <1>3, <2>1, <3>1
  <2>3. Len(importing') = Len(importing) - 1
    <3>1. importing' = SubSeq(importing, 1, Len(importing) - 1)
      BY <1>10 DEF ModuleEnds, Front
    <3>2. importing \in Seq(ImportType) /\ Len(importing) - 1 \in 0..Len(importing)
      BY <2>2, StreamsTyped
    <3>3. \A q \in Seq(ImportType) : \A k \in 0..Len(q) : Len(SubSeq(q, 1, k)) = k
      OBVIOUS
    <3> QED  BY <3>1, <3>2, <3>3
  <2> QED  BY <2>1, <2>3
<1>11. CASE Reads \/ CaseBegins \/ CaseEnds
  BY <1>1, <1>2, <1>3, <1>4, <1>8, <1>11
<1>12. CASE ModuleBegins
  BY <1>1, <1>2, <1>3, <1>4, <1>9, <1>12
<1>13. CASE ModuleEnds
  BY <1>1, <1>2, <1>3, <1>4, <1>10, <1>13
<1> QED  BY <1>11, <1>12, <1>13 DEF Shaped

LEMMA DescentKept ==
  ASSUME Types, Descent, Types', Shaped
  PROVE  Descent'
<1>1. CASE Stops
  BY <1>1 DEF Stops, Descent, Parsing
<1>2. CASE ~Stops
  <2>1. Len(importing) \in Nat /\ Len(importing') \in Nat
    BY DEF Types
  <2>2. /\ Parsing /\ Parsing' /\ Bottom(classes')
        /\ Depth(classes) \in Nat /\ Depth(classes') \in Nat
        /\ Len(importing') - Len(importing) = Depth(classes') - Depth(classes)
    BY <1>2, DescentMoves
  <2>3. Len(importing') = Depth(classes')
    BY <2>1, <2>2 DEF Descent
  <2> QED  BY <2>2, <2>3 DEF Descent
<1> QED  BY <1>1, <1>2

LEMMA CounterKept ==
  ASSUME Types, Descent, Counter, Types', Shaped
  PROVE  Counter'
<1>1. classes \in Seq(Classes) /\ classes' \in Seq(Classes)
  BY ClassesType DEF Types, classes
<1>2. Waits(classes) \in Nat /\ Waits(classes') \in Nat
      /\ fi_block_nesting \in Nat /\ fi_block_nesting' \in Nat
  BY <1>1, CountsFinite DEF Types
<1>3. ASSUME NEW c \in Classes, classes' = Append(classes, c)
      PROVE  Waits(classes') = Waits(classes) + (IF c = "waiting" THEN 1 ELSE 0)
  BY <1>1, <1>3, OneMore
<1>4. ASSUME NEW c \in Classes, classes = Append(classes', c)
      PROVE  Waits(classes) = Waits(classes') + (IF c = "waiting" THEN 1 ELSE 0)
  BY <1>1, <1>4, OneMore
<1>5. CASE Reads
  <2>1. fi_block_nesting' - fi_block_nesting = Waits(classes') - Waits(classes)
    BY <1>2, <1>3, <1>4, <1>5 DEF Reads, Classes
  <2>2. Parsing /\ parses' = parses
    BY <1>5 DEF Reads, Within, Goes
  <2> QED  BY <1>2, <2>1, <2>2 DEF Counter
<1>6. CASE CaseBegins \/ CaseEnds \/ ModuleBegins \/ ModuleEnds
  <2>1. PICK c \in {"case", "module"} :
          classes' = Append(classes, c) \/ classes = Append(classes', c)
    BY <1>6 DEF CaseBegins, CaseEnds, ModuleBegins, ModuleEnds
  <2>3. Waits(classes') = Waits(classes)
    <3>1. c \in Classes /\ c # "waiting"
      BY DEF Classes
    <3> QED  BY <1>2, <1>3, <1>4, <2>1, <3>1
  <2>2. Parsing /\ UNCHANGED <<fi_block_nesting, parses>>
    BY <1>6 DEF CaseBegins, CaseEnds, ModuleBegins, ModuleEnds, Within, Goes
  <2> QED  BY <2>2, <2>3 DEF Counter
<1>7. CASE Stops
  BY <1>7 DEF Stops, Counter, Parsing
<1> QED  BY <1>5, <1>6, <1>7 DEF Shaped

(* The masks. Below the text being read the streams stay; in it, a token    *)
(* that is read was not masked.                                             *)
LEMMA ReadOn ==
  ASSUME ts \in StreamSet, Hides(ts), ts_peek # "eof"
  PROVE  /\ Hides([ts EXCEPT !.pos = @ + 1])
         /\ [ts EXCEPT !.pos = @ + 1].masked = ts.masked
         /\ \A b \in Nat \ ts.masked :
              b > ts.pos /\ ts.tokens[b] \in {"fi", "case", "default"} =>
                Hides([ts EXCEPT !.pos = @ + 1, !.masked = @ \cup {b}])
<1>1. ts.pos \notin ts.masked /\ ts.pos \in Nat /\ ts.masked \subseteq Nat
  BY DEF ts_peek, StreamSet
<1>2. \A i \in ts.masked : i >= ts.pos + 1
  BY <1>1 DEF Hides
<1>3. \A b \in Nat : b > ts.pos => b >= ts.pos + 1
  BY <1>1
<1>4. \A b : IsFiniteSet(ts.masked \cup {b})
  BY FS_AddElement DEF Hides
<1> QED  BY <1>2, <1>3, <1>4 DEF Hides, StreamSet

LEMMA MasksKept ==
  ASSUME Types, Descent, Masks, Types', Shaped
  PROVE  Masks'
<1> DEFINE L == Len(importing)
<1>1. CASE Stops
  BY <1>1 DEF Stops, Masks, Parsing
<1>2. CASE ~Stops
  <2>1. /\ classes \in Seq(Classes) /\ classes' \in Seq(Classes)
        /\ Parsing /\ Parsing'
        /\ Depth(classes) = L /\ L \in Nat
    BY <1>2, DescentMoves DEF Descent, Types
  <2>2. L + 1 \in 1..L + 1 /\ StreamAt(L + 1) = ts
    BY <2>1 DEF StreamAt
  <2>3. Hides(ts) /\ Cardinality(ts.masked) = CasesOf(classes, L + 1)
        /\ ts \in StreamSet
    BY <2>1, <2>2 DEF Masks, Masked, Types
  <2>4. \A n \in 1..L : importing[n] \in ImportType /\ Hides(importing[n].ts)
              /\ Cardinality(importing[n].ts.masked) = CasesOf(classes, n)
    BY <2>1 DEF Masks, Masked, StreamAt, Types
  <2>5. \A n : CasesOf(classes, n) \in Nat /\ CasesOf(classes', n) \in Nat
    BY <2>1, CountsFinite
  <2>6. ASSUME importing' = importing, Hides(ts'),
               Cardinality(ts'.masked) = CasesOf(classes', L + 1),
               \A n \in 1..L : CasesOf(classes', n) = CasesOf(classes, n)
        PROVE  Masks'
    <3>1. \A n \in 1..L + 1 : n \in 1..L \/ n = L + 1
      BY <2>1
    <3> QED  BY <2>1, <2>4, <2>6, <3>1 DEF Masks, Masked, StreamAt
  <2>7. ASSUME Reads PROVE Masks'
    <3>1. \A n : CasesOf(classes', n) = CasesOf(classes, n)
      <4>1. \A n : \A s \in Seq(Classes) : CasesOf(s, n) \in Nat =>
              CasesOf(Append(s, "waiting"), n) = CasesOf(s, n)
        BY OneMore DEF Classes
      <4>2. \/ classes' = classes \/ classes' = Append(classes, "waiting")
            \/ classes = Append(classes', "waiting")
        BY <2>7 DEF Reads
      <4> QED  BY <2>1, <2>5, <4>1, <4>2
    <3>2. ts' = [ts EXCEPT !.pos = @ + 1] /\ ts_peek # "eof"
          /\ importing' = importing
      BY <2>7 DEF Reads, ts_advance, Within
    <3> QED  BY <2>3, <2>6, <3>1, <3>2, ReadOn
  <2>8. ASSUME CaseBegins PROVE Masks'
    <3>1. \A n : CasesOf(classes', n)
                   = CasesOf(classes, n) + (IF n = L + 1 THEN 1 ELSE 0)
      <4>1. classes' = Append(classes, "case") /\ "case" \in Classes
        BY <2>8 DEF CaseBegins, Classes
      <4> QED  BY <2>1, <4>1, OneMore
    <3>2. PICK b \in Nat \ ts.masked :
            /\ b > ts.pos /\ ts.tokens[b] \in {"fi", "case", "default"}
            /\ ts' = [ts EXCEPT !.pos = @ + 1, !.masked = @ \cup {b}]
      BY <2>8 DEF CaseBegins
    <3>3. Hides(ts')
      BY <2>3, <2>8, <3>2, ReadOn DEF CaseBegins
    <3>4. ts'.masked = ts.masked \cup {b}
      BY <2>3, <3>2 DEF StreamSet
    <3>5. Cardinality(ts'.masked) = CasesOf(classes, L + 1) + 1
      <4>1. PICK M : M = ts.masked /\ IsFiniteSet(M) /\ b \notin M
                     /\ Cardinality(M) = CasesOf(classes, L + 1)
        BY <2>3, <3>2 DEF Hides
      <4>2. Cardinality(M \cup {b}) = Cardinality(M) + 1
        BY <4>1, FS_AddElement
      <4> QED  BY <3>4, <4>1, <4>2
    <3>6. importing' = importing /\ \A n \in 1..L : n # L + 1
      BY <2>1, <2>8 DEF CaseBegins, Within
    <3> QED  BY <2>5, <2>6, <3>1, <3>3, <3>5, <3>6
  <2>9. ASSUME CaseEnds PROVE Masks'
    <3>1. Depth(classes') = L
      BY <2>1, <2>9, OneMore, CountsFinite DEF CaseEnds, Classes
    <3>2. \A n : CasesOf(classes, n)
                   = CasesOf(classes', n) + (IF n = L + 1 THEN 1 ELSE 0)
      BY <2>1, <2>9, <3>1, OneMore DEF CaseEnds, Classes
    <3>3. ts'.masked = ts.masked \ {ts.pos} /\ ts.pos \in ts.masked
          /\ ts'.pos = ts.pos /\ ts'.tokens = ts.tokens
      BY <2>3, <2>9 DEF CaseEnds, StreamSet
    <3>4. Hides(ts') /\ Cardinality(ts'.masked) = CasesOf(classes, L + 1) - 1
      BY <2>3, <3>3, FS_RemoveElement DEF Hides
    <3>5. importing' = importing /\ \A n \in 1..L : n # L + 1
      BY <2>1, <2>9 DEF CaseEnds, Within
    <3>6. Cardinality(ts'.masked) = CasesOf(classes', L + 1)
      BY <2>5, <3>2, <3>4
    <3>7. \A n \in 1..L : CasesOf(classes', n) = CasesOf(classes, n)
      BY <2>5, <3>2, <3>5
    <3> QED  BY <2>6, <3>4, <3>5, <3>6, <3>7
  <2>10. ASSUME ModuleBegins PROVE Masks'
    <3>1. \A n : CasesOf(classes', n) = CasesOf(classes, n)
      BY <2>1, <2>5, <2>10, OneMore DEF ModuleBegins, Classes
    <3>2. CasesOf(classes, L + 2) = 0
      BY <2>1, NoneBeyond
    <3>3. /\ Len(importing') = L + 1
          /\ \A n \in 1..L : importing'[n] = importing[n]
          /\ importing'[L + 1].ts = [ts EXCEPT !.pos = @ + 1]
      BY <2>1, <2>10 DEF ModuleBegins, Types
    <3>4. ts'.masked = {}
      BY <2>10 DEF ModuleBegins, Stream
    <3>5. Hides(ts') /\ Cardinality(ts'.masked) = 0
      BY <3>4, FS_EmptySet DEF Hides
    <3>6. Hides([ts EXCEPT !.pos = @ + 1])
          /\ [ts EXCEPT !.pos = @ + 1].masked = ts.masked
      BY <2>3, <2>10, ReadOn DEF ModuleBegins
    <3>7. \A n \in 1..Len(importing') + 1 : n \in 1..L \/ n = L + 1 \/ n = L + 2
      BY <2>1, <3>3
    <3>8. \A n \in 1..L : n <= Len(importing')
      BY <2>1, <3>3
    <3>9. L + 1 <= Len(importing') /\ ~(L + 2 <= Len(importing'))
      BY <2>1, <3>3
    <3>10. \A n \in 1..L : StreamAt(n)' = importing[n].ts
      BY <3>3, <3>8 DEF StreamAt
    <3>11. \A n : /\ n = L + 1 => StreamAt(n)' = [ts EXCEPT !.pos = @ + 1]
                  /\ n = L + 2 => StreamAt(n)' = ts'
      BY <3>3, <3>9 DEF StreamAt
    <3>12. ASSUME NEW n \in 1..Len(importing') + 1 PROVE Masked(n)'
      <4>0. Hides(StreamAt(n)') /\ Cardinality(StreamAt(n)'.masked) = CasesOf(classes', n)
              => Masked(n)'
        BY DEF Masked
      <4>1. CASE n \in 1..L
        BY <2>4, <3>1, <3>10, <4>0, <4>1
      <4>2. CASE n = L + 1
        BY <2>3, <3>1, <3>6, <3>11, <4>0, <4>2
      <4>3. CASE n = L + 2
        BY <3>1, <3>2, <3>5, <3>11, <4>0, <4>3
      <4> QED  BY <3>7, <4>1, <4>2, <4>3
    <3> QED  BY <3>12 DEF Masks
  <2>11. ASSUME ModuleEnds PROVE Masks'
    <3>1. \A n : CasesOf(classes, n) = CasesOf(classes', n)
      BY <2>1, <2>5, <2>11, OneMore DEF ModuleEnds, Classes
    <3>2. Depth(classes) = Depth(classes') + 1 /\ Depth(classes') \in Nat
      BY <2>1, <2>11, OneMore, CountsFinite DEF ModuleEnds, Classes
    <3>3. L > 0
      BY <2>1, <3>2
    <3>4. /\ Len(importing') = L - 1
          /\ \A n \in 1..L - 1 : importing'[n] = importing[n]
          /\ ts' = importing[L].ts
      BY <2>1, <2>11, <3>3 DEF ModuleEnds, Front, Last, Types
    <3>5. \A n \in 1..Len(importing') + 1 : n \in 1..L /\ (n \in 1..L - 1 \/ n = L)
      BY <2>1, <3>3, <3>4
    <3>6. /\ \A n \in 1..L - 1 : n <= Len(importing')
          /\ ~(L <= Len(importing'))
      BY <2>1, <3>3, <3>4
    <3>7. L \in 1..L
      BY <2>1, <3>3
    <3> QED  BY <2>4, <3>1, <3>4, <3>5, <3>6, <3>7 DEF Masks, Masked, StreamAt
  <2> QED  BY <1>2, <2>7, <2>8, <2>9, <2>10, <2>11 DEF Shaped
<1> QED  BY <1>1, <1>2

-----------------------------------------------------------------------------
Starting ==
  /\ \E text \in Scripts \cup Executed : ts = Stream(text)
  /\ Parsing /\ blocks = <<NewBlock("script")>> /\ importing = <<>>
  /\ fi_block_nesting \in Nat /\ current_import_prefix \in Prefix
  /\ parses \in Nat \ {0} /\ (parses = 1 => fi_block_nesting = 0)

LEMMA ScriptStarts == Starting => Inv
<1> SUFFICES ASSUME Starting PROVE Inv
  OBVIOUS
<1>1. PICK text \in Seq(Token) : ts = Stream(text)
  BY TextsAssumption DEF Starting
<1>0. /\ Parsing /\ blocks = <<NewBlock("script")>> /\ importing = <<>>
      /\ fi_block_nesting \in Nat /\ current_import_prefix \in Prefix
      /\ parses \in Nat \ {0} /\ (parses = 1 => fi_block_nesting = 0)
  BY DEF Starting
<1>2. NewBlock("script") \in Block /\ Class(NewBlock("script").kind) = "script"
  BY NewIs DEF Kind, Class
<1>3. blocks \in Seq(Block) /\ Len(blocks) = 1 /\ blocks[1] = NewBlock("script")
  BY <1>0, <1>2
<1>4. /\ classes \in Seq(Classes) /\ Len(classes) = 1 /\ classes[1] = "script"
      /\ DOMAIN classes = {1}
  <2>1. classes \in Seq(Classes) /\ Len(classes) = 1
        /\ classes[1] = Class(blocks[1].kind)
    BY <1>3, ClassesType DEF classes
  <2>2. \A q \in Seq(Classes) : Len(q) = 1 => DOMAIN q = {1}
    OBVIOUS
  <2> QED  BY <1>2, <1>3, <2>1, <2>2
<1>5. Types
  <2>1. ts \in StreamSet
    BY <1>1 DEF Stream, StreamSet
  <2>2. importing \in Seq(ImportType) /\ phase \in {"parsing", "running", "failed"}
    BY <1>0 DEF Parsing
  <2> QED  BY <1>0, <1>3, <2>1, <2>2 DEF Types
<1>6. Descent
  <2>1. Mods(classes, Len(classes)) = {}
    BY <1>4 DEF Mods
  <2>2. Depth(classes) = 0 /\ Len(importing) = 0
    BY <1>0, <2>1, FS_EmptySet DEF Depth
  <2>3. Bottom(classes)
    <3>1. classes # <<>>
      BY <1>4
    <3>2. \A b \in 1..Len(classes) : b = 1
      BY <1>4
    <3> QED  BY <1>4, <3>1, <3>2 DEF Bottom
  <2> QED  BY <1>0, <2>2, <2>3 DEF Descent
<1>7. Masks
  <2>1. \A n : CasesOf(classes, n) = 0
    <3>1. \A n : InText(classes, n) = {}
      BY <1>4 DEF InText
    <3> QED  BY <3>1, FS_EmptySet DEF CasesOf
  <2>2. Hides(ts) /\ Cardinality(ts.masked) = 0
    BY <1>1, FS_EmptySet DEF Stream, Hides
  <2>3. \A n \in 1..Len(importing) + 1 : StreamAt(n) = ts
    BY <1>0 DEF StreamAt
  <2> QED  BY <2>1, <2>2, <2>3 DEF Masks, Masked
<1>8. Counter
  <2>1. WaitingIn(classes) = {}
    BY <1>4 DEF WaitingIn
  <2>2. Waits(classes) = 0
    BY <2>1, FS_EmptySet DEF Waits
  <2> QED  BY <1>0, <2>2 DEF Counter
<1> QED  BY <1>5, <1>6, <1>7, <1>8 DEF Inv

LEMMA InitInv == Init => Inv
BY ScriptStarts DEF Init, Starting, Parsing, Prefix

LEMMA ExecuteInv == Inv /\ Execute => Inv'
<1> SUFFICES ASSUME Inv, Execute PROVE Inv'
  OBVIOUS
<1>1. PICK text \in Executed : ts' = Stream(text)
  BY DEF Execute
<1>2. importing' = <<>> /\ Parsing' /\ blocks' = <<NewBlock("script")>>
  BY DEF Execute, Inv, Descent, Parsing
<1>3. /\ fi_block_nesting' \in Nat /\ current_import_prefix' \in Prefix
      /\ parses' \in Nat \ {0} /\ parses' # 1
  BY DEF Execute, Inv, Types
<1>4. Starting'
  BY <1>1, <1>2, <1>3 DEF Starting
<1>5. Starting' => Inv'
  BY ScriptStarts, PTL
<1> QED  BY <1>4, <1>5

(* Every mask, and the counter, follow the descent. The invariant the       *)
(* theorems below rest on.                                                  *)
LEMMA Invariant == Spec => []Inv
<1>1. Inv /\ [Next]_vars => Inv'
  <2> SUFFICES ASSUME Inv, [Next]_vars PROVE Inv'
    OBVIOUS
  <2>1. CASE Parse
    BY <2>1, ParseShaped, TypesKept, DescentKept, MasksKept, CounterKept DEF Inv
  <2>2. CASE Execute
    BY <2>2, ExecuteInv
  <2>3. CASE UNCHANGED vars
    BY <2>3 DEF vars, Inv, Types, Descent, Masks, Masked, Counter, classes,
                Parsing, StreamAt, Hides
  <2> QED  BY <2>1, <2>2, <2>3 DEF Next
<1> QED  BY <1>1, InitInv, PTL DEF Spec

(* parse_case and parse_default mask the end of their body and unmask it    *)
(* when the body is parsed. In every text in progress, the main script's or *)
(* that of any module being imported, each case in progress hides exactly   *)
(* one token, a fi, case or default that is still ahead: however switches,  *)
(* cases and imports nest, no other token is ever read as the end of the    *)
(* file.                                                                    *)
THEOREM CasesHideTheirEnds == Spec => []MasksNest
<1>1. Inv => MasksNest
  <2> SUFFICES ASSUME Inv, Parsing PROVE MasksNest
    BY DEF MasksNest, Parsing
  <2>1. /\ importing \in Seq(ImportType) /\ Len(importing) \in Nat
        /\ DOMAIN importing = 1..Len(importing)
    BY StreamsTyped DEF Inv
  <2>2. /\ DOMAIN Streams = 1..Len(importing) + 1
        /\ \A n \in 1..Len(importing) + 1 : Streams[n] = StreamAt(n)
    <3>1. [n \in DOMAIN importing |-> importing[n].ts] \in Seq(StreamSet)
          /\ Len([n \in DOMAIN importing |-> importing[n].ts]) = Len(importing)
      BY <2>1, StreamsTyped DEF Inv
    <3> QED  BY <2>1, <3>1, StreamsTyped DEF Streams, StreamAt, Inv
  <2>3. /\ blocks \in Seq(Block) /\ DOMAIN classes = DOMAIN blocks
        /\ \A b \in DOMAIN blocks : classes[b] = Class(blocks[b].kind)
    BY DEF Inv, Types, classes, ClassesOf
  <2>4. \A b \in DOMAIN blocks :
          /\ classes[b] = "case" <=> blocks[b].kind \in {"case", "default"}
          /\ classes[b] = "module" <=> blocks[b].kind = "module"
    BY <2>3 DEF Class
  <2>5. \A b \in DOMAIN blocks : ModulesUpTo(b) = Mods(classes, b)
    <3>1. \A b \in DOMAIN blocks : \A m \in 1..b : m \in DOMAIN blocks
      BY <2>3
    <3> QED  BY <2>4, <3>1 DEF ModulesUpTo, Mods
  <2>6. \A n : Cases(n) = InText(classes, n)
    BY <2>3, <2>4, <2>5 DEF Cases, InText
  <2> QED  BY <2>2, <2>6 DEF Inv, Masks, Masked, Hides, CasesOf, MasksNest
<1> QED  BY <1>1, Invariant, PTL

(* fi_block_nesting is the number of blocks that wait for their fi as long  *)
(* as no error was caught, and never less: the check of a switch's fi       *)
(* against the fi that remain misses none.                                  *)
THEOREM NestingIsCovered == Spec => []NestingCovers
<1>1. Inv => NestingCovers
  <2> SUFFICES ASSUME Inv, Parsing PROVE NestingCovers
    BY DEF NestingCovers, Parsing
  <2>1. /\ blocks \in Seq(Block) /\ DOMAIN classes = DOMAIN blocks
        /\ \A b \in DOMAIN blocks : classes[b] = Class(blocks[b].kind)
    BY DEF Inv, Types, classes, ClassesOf
  <2>2. \A b \in DOMAIN blocks :
          classes[b] = "waiting"
            <=> blocks[b].kind \notin {"script", "module", "case", "default"}
    BY <2>1 DEF Class
  <2>3. Waiting = Waits(classes)
    BY <2>1, <2>2 DEF Waiting, Waits, WaitingIn
  <2> QED  BY <2>3 DEF Inv, Counter, NestingCovers
<1> QED  BY <1>1, Invariant, PTL

----------------------------------------------------------------------------
(* The grammar's decision.                                                  *)

(* Induction, as the well-ordering of the naturals gives it.                *)
LEMMA Smallest ==
  ASSUME NEW T \in SUBSET Nat, T # {}
  PROVE  \E x \in T : \A y \in T : x <= y
<1>1. PICK R : R = OpToRel(<, Nat) /\ IsWellFoundedOn(R, Nat)
  BY NatLessThanWellFounded
<1>2. \E x \in T : \A y \in T : ~(<<y, x>> \in R)
  BY <1>1, WFMin
<1>3. \A x, y \in Nat : y < x => <<y, x>> \in R
  BY <1>1 DEF OpToRel
<1>4. PICK x \in T : \A y \in T : ~(<<y, x>> \in R)
  BY <1>2
<1>5. ASSUME NEW y \in T PROVE x <= y
  <2>1. x \in Nat /\ y \in Nat /\ ~(<<y, x>> \in R)
    BY <1>4
  <2>2. ~(y < x)
    BY <2>1, <1>3
  <2> QED  BY <2>1, <2>2
<1> QED  BY <1>5

\* A sequence of one element has elements.
LEMMA OneIsSome ==
  ASSUME NEW s, Len(s) = 1
  PROVE  s # <<>>
<1>1. SUFFICES ASSUME s = <<>> PROVE FALSE
  OBVIOUS
<1>2. Len(<<>>) # 1
  OBVIOUS
<1> QED  BY <1>1, <1>2, Zenon

LEMMA Induct ==
  ASSUME NEW T \in SUBSET Nat, 0 \in T, \A n \in T : n + 1 \in T
  PROVE  T = Nat
<1>1. SUFFICES ASSUME Nat \ T # {} PROVE FALSE
  OBVIOUS
<1>2. PICK x \in Nat \ T : \A y \in Nat \ T : x <= y
  BY <1>1, Smallest
<1>3. x - 1 \in Nat /\ x - 1 \notin T
  BY <1>2
<1> QED  BY <1>2, <1>3

-----------------------------------------------------------------------------
(* The stacks of the grammar.                                               *)
EntryKind == {"script", "block", "if", "else", "function", "global function",
              "try", "catch", "switch", "case", "default"}
Entry == [kind : EntryKind, last : {"none", "break", "stmt"}, default : BOOLEAN]

(* What reading a token does to the stack.                                  *)
Noted(stack, last) == Append(Front(stack), [Last(stack) EXCEPT !.last = last])
Turned(stack, kind) ==
  Append(Front(stack), [Last(stack) EXCEPT !.kind = kind, !.last = "none",
                                           !.default = @ \/ kind = "default"])

LEMMA StacksDefined ==
  ASSUME NEW text \in Seq(Token)
  PROVE  StacksOf(text) = [n \in 0..Len(text) |->
           IF n = 0 THEN <<New("script")>>
           ELSE Read(StacksOf(text)[n - 1], text[n])]
<1> DEFINE Solves(f, m) ==
             f = [n \in 0..m |-> IF n = 0 THEN <<New("script")>>
                                 ELSE Read(f[n - 1], text[n])]
           T == {m \in Nat : \E f : Solves(f, m)}
<1>1. 0 \in T
  <2>1. Solves([n \in 0..0 |-> <<New("script")>>], 0)
    OBVIOUS
  <2> QED  BY <2>1
<1>2. ASSUME NEW m \in T PROVE m + 1 \in T
  <2>1. PICK f : Solves(f, m)
    OBVIOUS
  <2> DEFINE g == [n \in 0..m + 1 |-> IF n <= m THEN f[n] ELSE Read(f[m], text[m + 1])]
  <2>2. \A n \in 0..m + 1 : g[n] = IF n = 0 THEN <<New("script")>>
                                   ELSE Read(g[n - 1], text[n])
    <3> SUFFICES ASSUME NEW n \in 0..m + 1
                 PROVE  g[n] = IF n = 0 THEN <<New("script")>>
                               ELSE Read(g[n - 1], text[n])
      OBVIOUS
    <3>1. CASE n = 0
      BY <2>1, <3>1
    <3>2. CASE n \in 1..m
      BY <2>1, <3>2
    <3>3. CASE n = m + 1
      BY <2>1, <3>3
    <3> QED  BY <3>1, <3>2, <3>3
  <2>3. Solves(g, m + 1)
    BY <2>2
  <2>4. m \in Nat /\ m + 1 \in Nat
    OBVIOUS
  <2> HIDE DEF g, Solves
  <2> QED  BY <2>3, <2>4, Zenon
<1>3. T = Nat
  <2> HIDE DEF T
  <2>1. T \subseteq Nat
    BY DEF T
  <2> QED  BY <1>1, <1>2, <2>1, Induct
<1>4. \E f : Solves(f, Len(text))
  <2>1. Len(text) \in T
    BY <1>3
  <2> QED  BY <2>1
<1>5. StacksOf(text) = CHOOSE f : Solves(f, Len(text))
  BY DEF StacksOf
<1>6. Solves(StacksOf(text), Len(text))
  <2> HIDE DEF Solves
  <2> QED  BY <1>4, <1>5
<1> QED  BY <1>6

LEMMA ReadNothing == \A token : Read(<<>>, token) = <<>>
BY DEF Read

LEMMA ReadIs ==
  ASSUME NEW stack, stack # <<>>, NEW token \in Token
  PROVE  LET top == Last(stack) IN
    /\ token \in {"stmt", "import", "break"} =>
         Read(stack, token) =
           IF top.kind # "switch"
           THEN Noted(stack, IF token = "break" THEN "break" ELSE "stmt") ELSE <<>>
    /\ token \in Opening =>
         Read(stack, token) =
           IF top.kind # "switch" THEN Append(Noted(stack, "stmt"), New(token))
           ELSE <<>>
    /\ token = "fi" =>
         Read(stack, token) =
           IF /\ top.kind \notin {"script", "try"}
              /\ ~(top.kind = "default" /\ top.last = "stmt")
           THEN Front(stack) ELSE <<>>
    /\ token = "elseif" =>
         Read(stack, token) = IF top.kind = "if" THEN Turned(stack, "if") ELSE <<>>
    /\ token = "else" =>
         Read(stack, token) = IF top.kind = "if" THEN Turned(stack, "else") ELSE <<>>
    /\ token = "catch" =>
         Read(stack, token) = IF top.kind = "try" THEN Turned(stack, "catch") ELSE <<>>
    /\ token = "case" =>
         Read(stack, token) =
           IF \/ top.kind \in {"switch", "case"}
              \/ top.kind = "default" /\ top.last = "none"
           THEN Turned(stack, "case") ELSE <<>>
    /\ token = "default" =>
         Read(stack, token) =
           IF top.kind \in {"switch", "case"} /\ ~top.default
           THEN Turned(stack, "default") ELSE <<>>
    /\ token = "malformed" => Read(stack, token) = <<>>
BY DEF Read, Opening, Noted, Turned

LEMMA TopRemoved ==
  ASSUME NEW T, NEW s \in Seq(T), s # <<>>
  PROVE  /\ Last(s) \in T /\ Last(s) = s[Len(s)] /\ Len(s) \in Nat \ {0}
         /\ Front(s) \in Seq(T) /\ Len(Front(s)) = Len(s) - 1
         /\ \A k \in 1..Len(s) - 1 : Front(s)[k] = s[k]
<1>1. Len(s) \in Nat \ {0} /\ s[Len(s)] \in T
  OBVIOUS
<1>2. \A m \in 0..Len(s) :
        /\ SubSeq(s, 1, m) \in Seq(T) /\ Len(SubSeq(s, 1, m)) = m
        /\ \A k \in 1..m : SubSeq(s, 1, m)[k] = s[k]
  OBVIOUS
<1>3. Len(s) - 1 \in 0..Len(s)
  BY <1>1
<1> QED  BY <1>1, <1>2, <1>3 DEF Front, Last

LEMMA TopReplaced ==
  ASSUME NEW T, NEW s \in Seq(T), s # <<>>, NEW e \in T
  PROVE  /\ Append(Front(s), e) \in Seq(T) /\ Append(Front(s), e) # <<>>
         /\ Len(Append(Front(s), e)) = Len(s)
         /\ Append(Front(s), e)[Len(s)] = e /\ Last(Append(Front(s), e)) = e
         /\ \A k \in 1..Len(s) - 1 : Append(Front(s), e)[k] = s[k]
<1>1. PICK f \in Seq(T) : /\ f = Front(s) /\ Len(f) = Len(s) - 1
                          /\ \A k \in 1..Len(s) - 1 : f[k] = s[k]
  BY TopRemoved
<1>2. /\ Append(f, e) \in Seq(T) /\ Append(f, e) # <<>>
      /\ Len(Append(f, e)) = Len(f) + 1 /\ Append(f, e)[Len(f) + 1] = e
      /\ \A k \in 1..Len(f) : Append(f, e)[k] = f[k]
  OBVIOUS
<1>3. Len(s) \in Nat \ {0}
  BY TopRemoved
<1> QED  BY <1>1, <1>2, <1>3 DEF Last

LEMMA TopAdded ==
  ASSUME NEW T, NEW s \in Seq(T), NEW e \in T
  PROVE  /\ Append(s, e) \in Seq(T) /\ Append(s, e) # <<>>
         /\ Len(Append(s, e)) = Len(s) + 1 /\ Len(s) \in Nat
         /\ Append(s, e)[Len(s) + 1] = e /\ Last(Append(s, e)) = e
         /\ \A k \in 1..Len(s) : Append(s, e)[k] = s[k]
BY DEF Last

LEMMA EntriesTyped ==
  /\ \A kind \in EntryKind : New(kind) \in Entry
  /\ \A e \in Entry, last \in {"none", "break", "stmt"} :
       [e EXCEPT !.last = last] \in Entry
  /\ \A e \in Entry, kind \in EntryKind :
       [e EXCEPT !.kind = kind, !.last = "none",
                 !.default = @ \/ kind = "default"] \in Entry
<1>1. \A kind \in EntryKind : New(kind) \in Entry
  BY DEF New, Entry
<1>2. \A e \in Entry, last \in {"none", "break", "stmt"} :
        [e EXCEPT !.last = last] \in Entry
  BY DEF Entry
<1>3. ASSUME NEW e \in Entry, NEW kind \in EntryKind
      PROVE  [e EXCEPT !.kind = kind, !.last = "none",
                       !.default = @ \/ kind = "default"] \in Entry
  <2>1. (e.default \/ kind = "default") \in BOOLEAN
    BY DEF Entry
  <2> QED  BY <2>1 DEF Entry
<1> QED  BY <1>1, <1>2, <1>3

(* The stack after a token, entry by entry: the top one is replaced, one is *)
(* added on it, or it is taken away.                                        *)
LEMMA NotedIs ==
  ASSUME NEW s \in Seq(Entry), s # <<>>, NEW last \in {"none", "break", "stmt"}
  PROVE  /\ Noted(s, last) \in Seq(Entry) /\ Noted(s, last) # <<>>
         /\ Len(Noted(s, last)) = Len(s)
         /\ Noted(s, last)[Len(s)] = [s[Len(s)] EXCEPT !.last = last]
         /\ \A k \in 1..Len(s) - 1 : Noted(s, last)[k] = s[k]
<1>1. Last(s) \in Entry /\ Last(s) = s[Len(s)]
  BY TopRemoved
<1>2. [Last(s) EXCEPT !.last = last] \in Entry
  BY <1>1, EntriesTyped
<1>3. Noted(s, last) = Append(Front(s), [Last(s) EXCEPT !.last = last])
  BY DEF Noted
<1> DEFINE e == [Last(s) EXCEPT !.last = last]
<1>4. e \in Entry /\ e = [s[Len(s)] EXCEPT !.last = last]
  BY <1>1, <1>2
<1> HIDE DEF e
<1>5. /\ Append(Front(s), e) \in Seq(Entry) /\ Append(Front(s), e) # <<>>
      /\ Len(Append(Front(s), e)) = Len(s)
      /\ Append(Front(s), e)[Len(s)] = e
      /\ \A k \in 1..Len(s) - 1 : Append(Front(s), e)[k] = s[k]
  BY <1>4, TopReplaced
<1> QED  BY <1>3, <1>4, <1>5 DEF e

LEMMA TurnedIs ==
  ASSUME NEW s \in Seq(Entry), s # <<>>, NEW kind \in EntryKind
  PROVE  /\ Turned(s, kind) \in Seq(Entry) /\ Turned(s, kind) # <<>>
         /\ Len(Turned(s, kind)) = Len(s)
         /\ Turned(s, kind)[Len(s)]
              = [s[Len(s)] EXCEPT !.kind = kind, !.last = "none",
                                  !.default = @ \/ kind = "default"]
         /\ \A k \in 1..Len(s) - 1 : Turned(s, kind)[k] = s[k]
<1>1. Last(s) \in Entry /\ Last(s) = s[Len(s)]
  BY TopRemoved
<1>2. [Last(s) EXCEPT !.kind = kind, !.last = "none",
                      !.default = @ \/ kind = "default"] \in Entry
  BY <1>1, EntriesTyped
<1> QED  BY <1>1, <1>2, TopReplaced DEF Turned

(* However a token is read, the stack below its top entry stays, and its    *)
(* height follows the blocks the token opens and closes.                    *)
Rise(token) ==
  IF token \in Openers THEN 1 ELSE IF token = "fi" THEN -1 ELSE 0

LEMMA ReadMoves ==
  ASSUME NEW s \in Seq(Entry), s # <<>>, NEW token \in Token
  PROVE  /\ Read(s, token) \in Seq(Entry)
         /\ Read(s, token) # <<>> =>
              /\ Len(Read(s, token)) = Len(s) + Rise(token)
              /\ \A k \in 1..Len(s) - 1 : Read(s, token)[k] = s[k]
<1> DEFINE Moved(r) == /\ r \in Seq(Entry)
                       /\ r # <<>> => /\ Len(r) = Len(s) + Rise(token)
                                      /\ \A k \in 1..Len(s) - 1 : r[k] = s[k]
<1>0. Len(s) \in Nat
  OBVIOUS
<1>1. Moved(<<>>)
  OBVIOUS
<1>2. CASE token \in {"stmt", "import", "break"}
  <2>1. Rise(token) = 0
    BY <1>2 DEF Rise, Openers
  <2>2. ASSUME NEW last \in {"break", "stmt"} PROVE Moved(Noted(s, last))
    <3>1. PICK r \in Seq(Entry) :
            /\ r = Noted(s, last) /\ Len(r) = Len(s)
            /\ \A k \in 1..Len(s) - 1 : r[k] = s[k]
      BY NotedIs
    <3> QED  BY <1>0, <2>1, <3>1
  <2> QED  BY <1>1, <1>2, <2>2, ReadIs
<1>3. CASE token \in Opening
  <2>1. Rise(token) = 1 /\ New(token) \in Entry
    <3>1. token \in Openers /\ token \in EntryKind
      BY <1>3 DEF Openers, Opening, EntryKind
    <3> QED  BY <3>1, EntriesTyped DEF Rise
  <2>2. Moved(Append(Noted(s, "stmt"), New(token)))
    <3>1. PICK r \in Seq(Entry) :
            /\ r = Noted(s, "stmt") /\ Len(r) = Len(s)
            /\ \A k \in 1..Len(s) - 1 : r[k] = s[k]
      BY NotedIs
    <3>2. /\ Append(r, New(token)) \in Seq(Entry)
          /\ Len(Append(r, New(token))) = Len(r) + 1
          /\ \A k \in 1..Len(r) : Append(r, New(token))[k] = r[k]
      BY <2>1, TopAdded
    <3> QED  BY <1>0, <2>1, <3>1, <3>2
  <2> QED  BY <1>1, <1>3, <2>2, ReadIs
<1>4. CASE token = "fi"
  <2>1. Rise(token) = -1
    BY <1>4 DEF Rise, Openers
  <2>2. Moved(Front(s))
    BY <2>1, TopRemoved
  <2> QED  BY <1>1, <1>4, <2>2, ReadIs
<1>5. CASE token \in {"elseif", "else", "catch", "case", "default"}
  <2>1. Rise(token) = 0
    BY <1>5 DEF Rise, Openers
  <2>2. ASSUME NEW kind \in EntryKind PROVE Moved(Turned(s, kind))
    <3>0. /\ Turned(s, kind) \in Seq(Entry)
          /\ Len(Turned(s, kind)) = Len(s)
          /\ \A k \in 1..Len(s) - 1 : Turned(s, kind)[k] = s[k]
      BY TurnedIs, Zenon
    <3>1. PICK r \in Seq(Entry) :
            /\ r = Turned(s, kind) /\ Len(r) = Len(s)
            /\ \A k \in 1..Len(s) - 1 : r[k] = s[k]
      BY <3>0
    <3> QED  BY <1>0, <2>1, <3>1
  <2>3. {"if", "else", "catch", "case", "default"} \subseteq EntryKind
    BY DEF EntryKind
  <2>4. Read(s, token) = <<>> \/ \E kind \in EntryKind : Read(s, token) = Turned(s, kind)
    BY <1>5, <2>3, ReadIs
  <2> QED  BY <1>1, <2>2, <2>4
<1>6. CASE token = "malformed"
  BY <1>1, <1>6, ReadIs
<1> QED  BY <1>2, <1>3, <1>4, <1>5, <1>6 DEF Token, Opening

LEMMA StackStep ==
  ASSUME NEW text \in Seq(Token)
  PROVE  /\ Len(text) \in Nat /\ \A n \in 1..Len(text) : text[n] \in Token
         /\ StacksOf(text)[0] = <<New("script")>>
         /\ \A n \in 1..Len(text) :
              StacksOf(text)[n] = Read(StacksOf(text)[n - 1], text[n])
<1>1. Len(text) \in Nat /\ \A n \in 1..Len(text) : text[n] \in Token
  OBVIOUS
<1> DEFINE f == StacksOf(text)
<1>2. f = [n \in 0..Len(text) |-> IF n = 0 THEN <<New("script")>>
                                  ELSE Read(f[n - 1], text[n])]
  BY StacksDefined
<1> HIDE DEF f
<1>3. \A n \in 0..Len(text) : f[n] = IF n = 0 THEN <<New("script")>>
                                     ELSE Read(f[n - 1], text[n])
  BY <1>2
<1>4. f[0] = <<New("script")>>
      /\ \A n \in 1..Len(text) : f[n] = Read(f[n - 1], text[n])
  <2>1. 0 \in 0..Len(text) /\ \A n \in 1..Len(text) : n \in 0..Len(text) /\ n # 0
    BY <1>1
  <2> QED  BY <1>3, <2>1
<1> QED  BY <1>1, <1>4 DEF f

LEMMA StacksTyped ==
  ASSUME NEW text \in Seq(Token)
  PROVE  \A n \in 0..Len(text) : StacksOf(text)[n] \in Seq(Entry)
<1> DEFINE f == StacksOf(text)
           T == {n \in Nat : n <= Len(text) => f[n] \in Seq(Entry)}
<1>1. 0 \in T
  <2>1. New("script") \in Entry
    BY EntriesTyped DEF EntryKind
  <2>2. f[0] = <<New("script")>>
    BY StackStep
  <2>3. \A e \in Entry : <<e>> \in Seq(Entry)
    OBVIOUS
  <2> QED  BY <2>1, <2>2, <2>3
<1>2. ASSUME NEW n \in T PROVE n + 1 \in T
  <2>1. CASE n + 1 <= Len(text)
    <3>1. n + 1 \in 1..Len(text) /\ f[n] \in Seq(Entry) /\ text[n + 1] \in Token
      BY <2>1, StackStep
    <3>2. f[n + 1] = Read(f[n], text[n + 1])
      <4>1. f[n + 1] = Read(f[(n + 1) - 1], text[n + 1])
        BY <3>1, StackStep
      <4>2. (n + 1) - 1 = n
        OBVIOUS
      <4> QED  BY <4>1, <4>2
    <3>3. Read(f[n], text[n + 1]) \in Seq(Entry)
      <4>1. CASE f[n] = <<>>
        <5>1. Read(f[n], text[n + 1]) = <<>>
          BY <4>1, ReadNothing
        <5> QED  BY <5>1
      <4>2. CASE f[n] # <<>>
        BY <3>1, <4>2, ReadMoves
      <4> QED  BY <4>1, <4>2
    <3> QED  BY <3>2, <3>3
  <2>2. CASE ~(n + 1 <= Len(text))
    BY <2>2
  <2> QED  BY <2>1, <2>2
<1>3. T = Nat
  <2> HIDE DEF T
  <2>1. T \subseteq Nat
    BY DEF T
  <2> QED  BY <1>1, <1>2, <2>1, Induct
<1>4. ASSUME NEW n \in 0..Len(text) PROVE f[n] \in Seq(Entry)
  <2>1. n \in T /\ n <= Len(text)
    BY <1>3, StackStep
  <2> QED  BY <2>1
<1> QED  BY <1>4

(* What is wrong once is wrong to the end.                                  *)
LEMMA WrongForGood ==
  ASSUME NEW text \in Seq(Token), NEW m \in 0..Len(text),
         StacksOf(text)[m] = <<>>
  PROVE  /\ \A n \in m..Len(text) : StacksOf(text)[n] = <<>>
         /\ ~Grammatical(text)
<1> DEFINE f == StacksOf(text)
           T == {k \in Nat : m + k <= Len(text) => f[m + k] = <<>>}
<1>0. m \in Nat /\ Len(text) \in Nat
  BY StackStep
<1>1. 0 \in T
  BY <1>0
<1>2. ASSUME NEW k \in T PROVE k + 1 \in T
  <2>1. CASE m + (k + 1) <= Len(text)
    <3>1. m + (k + 1) \in 1..Len(text) /\ (m + (k + 1)) - 1 = m + k
          /\ f[m + k] = <<>>
      BY <1>0, <2>1
    <3>2. f[m + (k + 1)] = Read(f[(m + (k + 1)) - 1], text[m + (k + 1)])
      BY <3>1, StackStep
    <3> QED  BY <3>1, <3>2, ReadNothing
  <2>2. CASE ~(m + (k + 1) <= Len(text))
    BY <2>2
  <2> QED  BY <2>1, <2>2
<1>3. T = Nat
  <2> HIDE DEF T
  <2>1. T \subseteq Nat
    BY DEF T
  <2> QED  BY <1>1, <1>2, <2>1, Induct
<1>4. ASSUME NEW n \in m..Len(text) PROVE f[n] = <<>>
  <2>1. n - m \in Nat /\ m + (n - m) = n /\ n <= Len(text)
    BY <1>0
  <2>2. n - m \in T
    BY <1>3, <2>1
  <2> QED  BY <2>1, <2>2
<1>5. f[Len(text)] = <<>>
  BY <1>0, <1>4
<1> QED  BY <1>4, <1>5 DEF Grammatical

-----------------------------------------------------------------------------
(* How deep the blocks of a text are open after its first k tokens.         *)
Num(text, S, k) == Cardinality({i \in 1..k : text[i] \in S})
Level(text, k) == Num(text, Openers, k) - Num(text, {"fi"}, k)

LEMMA NumFinite ==
  ASSUME NEW text, NEW S, NEW k \in Nat
  PROVE  /\ IsFiniteSet({i \in 1..k : text[i] \in S})
         /\ Num(text, S, k) \in Nat /\ Num(text, S, 0) = 0
<1> DEFINE N(m) == {i \in 1..m : text[i] \in S}
<1>1. IsFiniteSet(N(k)) /\ Cardinality(N(k)) \in Nat
  <2>1. IsFiniteSet(1..k) /\ N(k) \subseteq 1..k
    BY FS_Interval
  <2> QED  BY <2>1, FS_Subset, FS_CardinalityType
<1>2. N(0) = {}
  OBVIOUS
<1>3. Cardinality(N(0)) = 0
  BY <1>2, FS_EmptySet
<1> QED  BY <1>1, <1>3 DEF Num

LEMMA NumStep ==
  ASSUME NEW text, NEW S, NEW k \in Nat \ {0}
  PROVE  Num(text, S, k) = Num(text, S, k - 1) + (IF text[k] \in S THEN 1 ELSE 0)
<1> DEFINE N(m) == {i \in 1..m : text[i] \in S}
<1>1. k - 1 \in Nat /\ 1..k = (1..k - 1) \cup {k} /\ k \notin 1..k - 1
  OBVIOUS
<1>2. PICK M : M = N(k - 1) /\ IsFiniteSet(M) /\ k \notin M /\ Cardinality(M) \in Nat
  <2>1. k \notin N(k - 1)
    BY <1>1, Zenon
  <2>2. IsFiniteSet(N(k - 1)) /\ Cardinality(N(k - 1)) \in Nat
    <3>1. /\ IsFiniteSet({i \in 1..k - 1 : text[i] \in S})
          /\ Num(text, S, k - 1) \in Nat
      BY <1>1, NumFinite
    <3> QED  BY <3>1, Zenon DEF Num
  <2> HIDE DEF N
  <2> QED  BY <2>1, <2>2, Zenon
<1>3. CASE text[k] \in S
  <2>1. N(k) = M \cup {k}
    BY <1>1, <1>2, <1>3
  <2>2. Cardinality(M \cup {k}) = Cardinality(M) + 1
    BY <1>2, FS_AddElement
  <2>3. Cardinality(N(k)) = Cardinality(N(k - 1)) + 1
    BY <1>2, <2>1, <2>2
  <2> QED  BY <1>3, <2>3 DEF Num
<1>4. CASE text[k] \notin S
  <2>1. N(k) = M
    BY <1>1, <1>2, <1>4
  <2>2. Cardinality(N(k)) = Cardinality(N(k - 1)) /\ Cardinality(N(k - 1)) \in Nat
    BY <1>2, <2>1
  <2>3. Num(text, S, k) = Num(text, S, k - 1) /\ Num(text, S, k - 1) \in Nat
    BY <2>2 DEF Num
  <2> QED  BY <1>4, <2>3
<1> QED  BY <1>3, <1>4

LEMMA LevelStep ==
  ASSUME NEW text
  PROVE  /\ \A k \in Nat : Level(text, k) \in Int
         /\ Level(text, 0) = 0
         /\ \A k \in Nat \ {0} :
              Level(text, k) = Level(text, k - 1) + Rise(text[k])
<1>1. \A k \in Nat : Num(text, Openers, k) \in Nat /\ Num(text, {"fi"}, k) \in Nat
  BY NumFinite
<1>2. Num(text, Openers, 0) = 0 /\ Num(text, {"fi"}, 0) = 0
  BY NumFinite
<1>3. ASSUME NEW k \in Nat \ {0}
      PROVE  Level(text, k) = Level(text, k - 1) + Rise(text[k])
  <2>1. k - 1 \in Nat
    OBVIOUS
  <2>2. /\ Num(text, Openers, k) = Num(text, Openers, k - 1)
                                   + (IF text[k] \in Openers THEN 1 ELSE 0)
        /\ Num(text, {"fi"}, k) = Num(text, {"fi"}, k - 1)
                                  + (IF text[k] \in {"fi"} THEN 1 ELSE 0)
    BY NumStep
  <2>3. "fi" \notin Openers
    BY DEF Openers
  <2> QED  BY <1>1, <2>1, <2>2, <2>3 DEF Level, Rise
<1> QED  BY <1>1, <1>2, <1>3 DEF Level

(* While nothing is wrong, the stack is as high as the blocks are deep.     *)
LEMMA StackHeight ==
  ASSUME NEW text \in Seq(Token)
  PROVE  \A n \in 0..Len(text) :
           StacksOf(text)[n] # <<>> =>
             Len(StacksOf(text)[n]) = 1 + Level(text, n)
<1> DEFINE f == StacksOf(text)
           T == {n \in Nat : n <= Len(text) /\ f[n] # <<>>
                               => Len(f[n]) = 1 + Level(text, n)}
<1>1. 0 \in T
  <2>1. f[0] = <<New("script")>> /\ Level(text, 0) = 0
    BY StackStep, LevelStep
  <2>2. Len(f[0]) = 1 + Level(text, 0)
    BY <2>1
  <2> QED  BY <2>2
<1>2. ASSUME NEW n \in T PROVE n + 1 \in T
  <2>1. CASE n + 1 <= Len(text) /\ f[n + 1] # <<>>
    <3>1. n + 1 \in 1..Len(text) /\ text[n + 1] \in Token /\ (n + 1) - 1 = n
          /\ n + 1 \in Nat \ {0} /\ n \in 0..Len(text)
      BY <2>1, StackStep
    <3>2. f[n + 1] = Read(f[n], text[n + 1])
      BY <3>1, StackStep
    <3>3. f[n] # <<>>
      BY <2>1, <3>2, ReadNothing
    <3>4. Len(f[n]) = 1 + Level(text, n)
      BY <2>1, <3>1, <3>3
    <3>5. f[n] \in Seq(Entry)
      BY <3>1, StacksTyped
    <3>6. Len(f[n + 1]) = Len(f[n]) + Rise(text[n + 1])
      BY <2>1, <3>1, <3>2, <3>3, <3>5, ReadMoves
    <3>7. Level(text, n + 1) = Level(text, n) + Rise(text[n + 1])
          /\ Level(text, n) \in Int
      BY <3>1, LevelStep
    <3>8. Rise(text[n + 1]) \in Int
      BY DEF Rise
    <3> QED  BY <3>4, <3>6, <3>7, <3>8
  <2>2. CASE ~(n + 1 <= Len(text) /\ f[n + 1] # <<>>)
    BY <2>2
  <2> QED  BY <2>1, <2>2
<1>3. T = Nat
  <2> HIDE DEF T
  <2>1. T \subseteq Nat
    BY DEF T
  <2> QED  BY <1>1, <1>2, <2>1, Induct
<1>4. ASSUME NEW n \in 0..Len(text), f[n] # <<>>
      PROVE  Len(f[n]) = 1 + Level(text, n)
  <2>1. n \in T /\ n <= Len(text)
    BY <1>3, StackStep
  <2> QED  BY <1>4, <2>1
<1> QED  BY <1>4

(* To come out of a block, a text passes a fi of its level.                 *)
LEMMA Passes ==
  ASSUME NEW text, NEW a \in Nat \ {0}, NEW m \in Nat, m >= a,
         Level(text, m) < Level(text, a - 1)
  PROVE  \E j \in a..m : text[j] = "fi" /\ Level(text, j - 1) = Level(text, a - 1)
<1> DEFINE T == {j \in a..m : Level(text, j) < Level(text, a - 1)}
<1>1. T \in SUBSET Nat /\ m \in T
  OBVIOUS
<1>2. PICK j \in T : \A i \in T : j <= i
  <2> HIDE DEF T
  <2> QED  BY <1>1, Smallest
<1>3. j \in a..m /\ Level(text, j) < Level(text, a - 1) /\ j \in Nat \ {0}
      /\ j - 1 \in Nat /\ a - 1 \in Nat
  OBVIOUS
<1>4. Level(text, j - 1) >= Level(text, a - 1)
  <2>1. CASE j = a
    BY <2>1, <1>3, LevelStep
  <2>2. CASE j # a
    <3>1. j - 1 \in a..m /\ ~(j <= j - 1)
      BY <1>3, <2>2
    <3>2. j - 1 \notin T
      BY <1>2, <3>1
    <3>3. ~(Level(text, j - 1) < Level(text, a - 1))
      BY <3>1, <3>2
    <3> QED  BY <1>3, <3>3, LevelStep
  <2> QED  BY <2>1, <2>2
<1>5. Level(text, j) = Level(text, j - 1) + Rise(text[j])
      /\ Level(text, j) \in Int /\ Level(text, j - 1) \in Int /\ Level(text, a - 1) \in Int
  BY <1>3, LevelStep
<1>6. Rise(text[j]) \in {-1, 0, 1} /\ (Rise(text[j]) = -1 => text[j] = "fi")
  BY DEF Rise
<1>7. text[j] = "fi" /\ Level(text, j - 1) = Level(text, a - 1)
  BY <1>3, <1>4, <1>5, <1>6
<1> QED  BY <1>3, <1>7

-----------------------------------------------------------------------------
(* Looking ahead. A case of the switch that is height entries up ends at    *)
(* the first token of these at its level.                                   *)
Ender == {"fi", "case", "default"}
AtEnd(text, height, i) == text[i] \in Ender /\ Level(text, i - 1) = height - 1
Closes(st, height, i) ==
  /\ i \in st.pos..Len(st.tokens) /\ AtEnd(st.tokens, height, i)
  /\ \A j \in st.pos..i - 1 : ~AtEnd(st.tokens, height, j)

(* What the scan counts, where nothing of it is masked.                     *)
LEMMA CountIs ==
  ASSUME NEW S, NEW a \in Nat \ {0}, NEW b \in Nat, a - 1 <= b,
         \A i \in a..b : ts.tokens[i] \in S => i \notin ts.masked
  PROVE  /\ Count(S, a, b) = Num(ts.tokens, S, b) - Num(ts.tokens, S, a - 1)
         /\ Count(S, a, b) \in Nat
<1> DEFINE A == {i \in 1..a - 1 : ts.tokens[i] \in S}
           B == {i \in a..b : i \notin ts.masked /\ ts.tokens[i] \in S}
           C == {i \in 1..b : ts.tokens[i] \in S}
<1>1. A \cup B = C /\ A \cap B = {} /\ B \subseteq C
  OBVIOUS
<1>2. /\ IsFiniteSet(A) /\ Cardinality(A) = Num(ts.tokens, S, a - 1)
      /\ IsFiniteSet(C) /\ Cardinality(C) = Num(ts.tokens, S, b)
      /\ Num(ts.tokens, S, a - 1) \in Nat /\ Num(ts.tokens, S, b) \in Nat
  <2>1. a - 1 \in Nat
    OBVIOUS
  <2> QED  BY <2>1, NumFinite DEF Num
<1>3. IsFiniteSet(B) /\ Cardinality(B) \in Nat /\ Count(S, a, b) = Cardinality(B)
  <2> HIDE DEF A, C
  <2>1. IsFiniteSet(B)
    BY <1>1, <1>2, FS_Subset
  <2> QED  BY <2>1, FS_CardinalityType DEF Count
<1> HIDE DEF A, B, C
<1>4. Cardinality(C) = Cardinality(A) + Cardinality(B) - Cardinality(A \cap B)
  BY <1>1, <1>2, <1>3, FS_Union
<1>5. Cardinality(A \cap B) = 0
  BY <1>1, FS_EmptySet
<1> QED  BY <1>2, <1>3, <1>4, <1>5

LEMMA ScanIs ==
  ASSUME NEW a \in Nat \ {0}, NEW b \in Nat, b >= a,
         \A i \in ts.masked : i >= b
  PROVE  Count(Openers, a, b - 1) = Count({"fi"}, a, b - 1)
           <=> Level(ts.tokens, b - 1) = Level(ts.tokens, a - 1)
<1>1. a - 1 \in Nat /\ b - 1 \in Nat /\ a - 1 <= b - 1
  OBVIOUS
<1>2. \A i \in a..b - 1 : i \notin ts.masked
  BY <1>1
<1>3. /\ Count(Openers, a, b - 1) = Num(ts.tokens, Openers, b - 1)
                                     - Num(ts.tokens, Openers, a - 1)
      /\ Count({"fi"}, a, b - 1) = Num(ts.tokens, {"fi"}, b - 1)
                                    - Num(ts.tokens, {"fi"}, a - 1)
  BY <1>1, <1>2, CountIs
<1>4. /\ Num(ts.tokens, Openers, b - 1) \in Nat /\ Num(ts.tokens, {"fi"}, b - 1) \in Nat
      /\ Num(ts.tokens, Openers, a - 1) \in Nat /\ Num(ts.tokens, {"fi"}, a - 1) \in Nat
  BY <1>1, NumFinite
<1> QED  BY <1>3, <1>4 DEF Level

(* The scan from a goes over all the ends of cases masked further out: what *)
(* it finds first is the first end at the level of a.                       *)
FurtherOut(a, height) ==
  /\ a \in Nat \ {0} /\ height \in Nat /\ Level(ts.tokens, a - 1) = height - 1
  /\ \A i \in ts.masked : /\ i \in a..Len(ts.tokens)
                          /\ Level(ts.tokens, i - 1) < height - 1

LEMMA Scan ==
  ASSUME ts \in StreamSet, NEW a, NEW height, FurtherOut(a, height)
  PROVE  /\ \A b \in Boundaries(a) :
              (\A i \in Boundaries(a) : b <= i) =>
                /\ b \in a..Len(ts.tokens) /\ b \notin ts.masked
                /\ AtEnd(ts.tokens, height, b)
                /\ \A j \in a..b - 1 : ~AtEnd(ts.tokens, height, j)
         /\ Boundaries(a) = {} =>
              \A j \in a..Len(ts.tokens) : ~AtEnd(ts.tokens, height, j)
<1> DEFINE E == {j \in a..Len(ts.tokens) : AtEnd(ts.tokens, height, j)}
<1> USE DEF FurtherOut
<1>0. E \in SUBSET Nat /\ Len(ts.tokens) \in Nat
  BY DEF StreamSet
<1>1. ASSUME NEW i \in ts.masked PROVE \E k \in E : k < i
  <2>1. i \in a..Len(ts.tokens) /\ Level(ts.tokens, i - 1) < Level(ts.tokens, a - 1)
    OBVIOUS
  <2>2. a - 1 \in Nat /\ Level(ts.tokens, a - 1) \in Int
    BY LevelStep
  <2>3. i # a
    BY <2>1, <2>2
  <2>4. i - 1 \in Nat /\ i - 1 >= a
    BY <1>0, <2>1, <2>3
  <2>5. PICK k \in a..i - 1 :
          ts.tokens[k] = "fi" /\ Level(ts.tokens, k - 1) = Level(ts.tokens, a - 1)
    BY <2>1, <2>4, Passes
  <2>6. k \in a..Len(ts.tokens) /\ k < i
    BY <1>0, <2>1
  <2> QED  BY <2>5, <2>6 DEF AtEnd, Ender
<1>2. ASSUME NEW b \in a..Len(ts.tokens), \A i \in ts.masked : i >= b
      PROVE  /\ b \notin ts.masked => (b \in Boundaries(a) <=> b \in E)
             /\ b \in Boundaries(a) => b \in E
  <2>1. b \in Nat /\ b >= a
    BY <1>0
  <2>2. Count(Openers, a, b - 1) = Count({"fi"}, a, b - 1)
          <=> Level(ts.tokens, b - 1) = Level(ts.tokens, a - 1)
    BY <1>2, <2>1, ScanIs
  <2> QED  BY <2>2 DEF Boundaries, AtEnd, Ender
<1>3. CASE E = {}
  <2>1. ts.masked = {}
    BY <1>1, <1>3
  <2>2. Boundaries(a) \subseteq a..Len(ts.tokens)
    BY DEF Boundaries
  <2>3. Boundaries(a) = {}
    BY <1>2, <1>3, <2>1, <2>2
  <2> QED  BY <1>3, <2>3
<1>4. CASE E # {}
  <2>1. PICK j \in E : \A k \in E : j <= k
    <3> HIDE DEF E
    <3> QED  BY <1>0, <1>4, Smallest
  <2>2. j \in a..Len(ts.tokens) /\ j \in Nat
    BY <1>0
  <2>3. \A i \in ts.masked : i > j
    <3> SUFFICES ASSUME NEW i \in ts.masked PROVE i > j
      OBVIOUS
    <3>1. PICK k \in E : k < i
      BY <1>1
    <3>2. j <= k /\ k \in Nat /\ i \in Nat
      BY <1>0, <2>1
    <3> QED  BY <2>2, <3>1, <3>2
  <2>4. j \in Boundaries(a)
    <3>1. j \notin ts.masked /\ \A i \in ts.masked : i >= j
      BY <2>2, <2>3
    <3> QED  BY <1>2, <2>1, <2>2, <3>1
  <2>5. ASSUME NEW b \in Boundaries(a), \A i \in Boundaries(a) : b <= i
        PROVE  b = j /\ b \notin ts.masked
    <3>1. b \in a..Len(ts.tokens) /\ b \in Nat /\ b \notin ts.masked
      BY <1>0 DEF Boundaries
    <3>2. b <= j
      BY <2>4, <2>5
    <3>3. \A i \in ts.masked : i >= b
      BY <2>2, <2>3, <3>1, <3>2
    <3>4. b \in E
      BY <1>2, <3>1, <3>3
    <3> QED  BY <2>1, <2>2, <3>1, <3>2, <3>4
  <2>6. \A i \in a..j - 1 : ~AtEnd(ts.tokens, height, i)
    <3> SUFFICES ASSUME NEW i \in a..j - 1, AtEnd(ts.tokens, height, i) PROVE FALSE
      OBVIOUS
    <3>1. i \in a..Len(ts.tokens) /\ ~(j <= i)
      BY <1>0, <2>2
    <3> QED  BY <2>1, <3>1
  <2> QED  BY <2>1, <2>2, <2>4, <2>5, <2>6
<1> QED  BY <1>3, <1>4

-----------------------------------------------------------------------------
(* The parser's calls and the grammar's stack. The calls lo to hi of q are  *)
(* those of one text, which st is the stream of; h says which entry of the  *)
(* stack each call is about: a case's is that of its switch.                *)
Inner(x) == x.kind \in {"case", "default"}
Bottoms == {"script", "module"}

Segment(q, h, lo, hi) ==
  /\ lo \in Nat \ {0} /\ hi \in Nat /\ lo <= hi
  /\ q[lo].kind \in Bottoms /\ h[lo] = 1
  /\ \A b \in lo + 1..hi :
       /\ q[b].kind \notin Bottoms
       /\ Inner(q[b]) <=> q[b - 1].kind = "switch"
       /\ h[b] = h[b - 1] + (IF Inner(q[b]) THEN 0 ELSE 1)

(* What the grammar has made of the tokens before the position.             *)
Before(st) == StacksOf(st.tokens)[st.pos - 1]

Mate(x, e) ==
  /\ e.kind \in IF x.kind \in Bottoms THEN {"script"}
                ELSE IF x.kind = "switch" THEN {"switch", "case", "default"}
                ELSE {x.kind}
  /\ IF x.kind = "switch" THEN e.default = x.has_default ELSE e.last = x.last
  /\ e.kind = "default" => e.default

Matched(st, q, h, lo, hi) ==
  /\ st \in StreamSet /\ st.pos \in 1..Len(st.tokens) + 1
  /\ Before(st) # <<>> /\ Len(Before(st)) = h[hi]
  /\ \A b \in lo..hi : Mate(q[b], Before(st)[h[b]])

(* The masks are the ends of the cases in progress. A default before a case *)
(* is empty.                                                                *)
Masking(st, q, h, lo, hi) ==
  /\ \A b \in lo..hi : Inner(q[b]) =>
       \E i \in st.masked :
         /\ Closes(st, h[b], i)
         /\ q[b].kind = "default" /\ st.tokens[i] = "case" =>
              i = st.pos /\ q[b].last = "none"
  /\ \A i \in st.masked : \E b \in lo..hi : Inner(q[b]) /\ Closes(st, h[b], i)

(* A switch goes on where its last case ended.                              *)
Ended(st, e) ==
  e.kind # "switch" =>
    /\ st.pos <= Len(st.tokens) /\ st.tokens[st.pos] \in Ender
    /\ e.kind = "default" => /\ e.last # "stmt"
                             /\ st.tokens[st.pos] = "case" => e.last = "none"

Text(st, q, h, lo, hi) ==
  /\ Segment(q, h, lo, hi)
  /\ Matched(st, q, h, lo, hi)
  /\ Masking(st, q, h, lo, hi)
  /\ q[hi].kind = "switch" => Ended(st, Before(st)[h[hi]])

(* The entries rise with the calls.                                         *)
LEMMA Rising ==
  ASSUME NEW q, NEW h, NEW lo, NEW hi, Segment(q, h, lo, hi)
  PROVE  /\ \A b \in lo..hi : h[b] \in Nat \ {0}
         /\ \A b, c \in lo..hi :
              b < c => h[b] < h[c] \/ (b = c - 1 /\ Inner(q[c]) /\ h[b] = h[c])
<1>0. lo \in Nat \ {0} /\ hi \in Nat /\ lo <= hi
  BY DEF Segment
<1> DEFINE Fits(c) == /\ h[c] \in Nat \ {0}
                      /\ \A b \in lo..c - 1 :
                           h[b] < h[c] \/ (b = c - 1 /\ Inner(q[c]) /\ h[b] = h[c])
           T == {k \in Nat : lo + k <= hi => \A j \in lo..lo + k : Fits(j)}
<1>1. 0 \in T
  <2>1. \A j \in lo..lo + 0 : j = lo
    BY <1>0
  <2>2. Fits(lo)
    BY <1>0 DEF Segment
  <2> QED  BY <2>1, <2>2
<1>2. ASSUME NEW k \in T PROVE k + 1 \in T
  <2> SUFFICES ASSUME lo + (k + 1) <= hi PROVE \A j \in lo..lo + (k + 1) : Fits(j)
    OBVIOUS
  <2> DEFINE c == lo + (k + 1)
  <2>1. c \in lo + 1..hi /\ c \in Nat /\ c - 1 \in lo..lo + k /\ k \in Nat
    BY <1>0
  <2>2. \A j \in lo..lo + k : Fits(j)
    BY <1>0
  <2>3. h[c] = h[c - 1] + (IF Inner(q[c]) THEN 0 ELSE 1)
        /\ (Inner(q[c]) <=> q[c - 1].kind = "switch")
    BY <2>1 DEF Segment
  <2>4. h[c - 1] \in Nat \ {0} /\ Fits(c - 1)
    BY <2>1, <2>2
  <2>5. ASSUME NEW b \in lo..c - 1
        PROVE  h[b] < h[c] \/ (b = c - 1 /\ Inner(q[c]) /\ h[b] = h[c])
    <3>1. h[b] \in Nat
      BY <1>0, <2>1, <2>2, <2>5
    <3>2. CASE b = c - 1
      BY <2>3, <2>4, <3>2
    <3>3. CASE b # c - 1
      <4>1. b \in lo..(c - 1) - 1
        BY <1>0, <2>1, <3>3
      <4>2. h[b] < h[c - 1] \/ (Inner(q[c - 1]) /\ h[b] = h[c - 1])
        BY <2>4, <4>1
      <4>3. ~Inner(q[c - 1]) \/ ~Inner(q[c])
        BY <2>3 DEF Inner
      <4> QED  BY <2>3, <2>4, <3>1, <4>2, <4>3
    <3> QED  BY <3>2, <3>3
  <2>6. Fits(c)
    <3> HIDE DEF c
    <3>1. h[c] \in Nat \ {0}
      BY <2>3, <2>4
    <3> QED  BY <2>5, <3>1
  <2>7. \A j \in lo..c : j = c \/ j \in lo..lo + k
    BY <1>0, <2>1
  <2> QED  BY <2>2, <2>6, <2>7
<1>3. T = Nat
  <2> HIDE DEF T
  <2>1. T \subseteq Nat
    BY DEF T
  <2> QED  BY <1>1, <1>2, <2>1, Induct
<1>4. \A j \in lo..hi : Fits(j)
  <2>1. hi - lo \in Nat /\ lo + (hi - lo) = hi
    BY <1>0
  <2>2. hi - lo \in T
    BY <1>3, <2>1
  <2> QED  BY <1>0, <2>1, <2>2
<1>5. ASSUME NEW b \in lo..hi, NEW c \in lo..hi, b < c PROVE b \in lo..c - 1
  BY <1>0, <1>5
<1> QED  BY <1>4, <1>5

-----------------------------------------------------------------------------
(* A step within one text: what the parser does to its calls is what Read   *)
(* does to the stack, and the masks stay ends of the cases in progress.     *)
Past(st) == [st EXCEPT !.pos = @ + 1]

LEMMA Advances ==
  ASSUME NEW st \in StreamSet, st.pos \in 1..Len(st.tokens)
  PROVE  /\ Past(st) \in StreamSet /\ Past(st).pos = st.pos + 1
         /\ Past(st).pos \in 1..Len(st.tokens) + 1
         /\ Past(st).tokens = st.tokens /\ Past(st).masked = st.masked
         /\ st.tokens \in Seq(Token) /\ st.tokens[st.pos] \in Token
         /\ Before(st) \in Seq(Entry)
         /\ Before(Past(st)) = Read(Before(st), st.tokens[st.pos])
<1>1. /\ Past(st) \in StreamSet /\ Past(st).pos = st.pos + 1
      /\ Past(st).tokens = st.tokens /\ Past(st).masked = st.masked
      /\ st.tokens \in Seq(Token)
  BY DEF Past, StreamSet
<1>2. Len(st.tokens) \in Nat /\ st.pos - 1 \in 0..Len(st.tokens)
      /\ (st.pos + 1) - 1 = st.pos /\ st.pos + 1 \in 1..Len(st.tokens) + 1
  BY <1>1
<1>3. /\ StacksOf(st.tokens)[st.pos]
           = Read(StacksOf(st.tokens)[st.pos - 1], st.tokens[st.pos])
      /\ st.tokens[st.pos] \in Token
  BY <1>1, StackStep
<1>4. Before(st) \in Seq(Entry)
  BY <1>1, <1>2, StacksTyped DEF Before
<1> QED  BY <1>1, <1>2, <1>3, <1>4 DEF Before

(* The same cases are in progress.                                          *)
SameCases(q, h, hi, q2, h2, hi2, lo) ==
  /\ \A b \in lo..hi : Inner(q[b]) =>
       b \in lo..hi2 /\ q2[b].kind = q[b].kind /\ h2[b] = h[b]
  /\ \A b \in lo..hi2 : Inner(q2[b]) => b \in lo..hi /\ Inner(q[b])

LEMMA MaskingKept ==
  ASSUME NEW st \in StreamSet, st.pos \in 1..Len(st.tokens), st.pos \notin st.masked,
         NEW q, NEW h, NEW hi, NEW q2, NEW h2, NEW hi2, NEW lo,
         Masking(st, q, h, lo, hi), SameCases(q, h, hi, q2, h2, hi2, lo)
  PROVE  Masking(Past(st), q2, h2, lo, hi2)
<1>1. Past(st).pos = st.pos + 1 /\ Past(st).tokens = st.tokens
      /\ Past(st).masked = st.masked
  BY Advances
<1>2. ASSUME NEW height, NEW i \in st.masked, Closes(st, height, i)
      PROVE  Closes(Past(st), height, i)
  <2>1. i \in st.pos..Len(st.tokens) /\ i # st.pos
    BY <1>2 DEF Closes
  <2>2. i \in st.pos + 1..Len(st.tokens) /\ st.pos \in Nat
    BY <2>1 DEF StreamSet
  <2>3. \A j \in st.pos + 1..i - 1 : j \in st.pos..i - 1
    BY <2>2
  <2> QED  BY <1>1, <1>2, <2>2, <2>3 DEF Closes
<1>3. ASSUME NEW b \in lo..hi2, Inner(q2[b])
      PROVE  \E i \in st.masked :
               /\ Closes(Past(st), h2[b], i)
               /\ ~(q2[b].kind = "default" /\ st.tokens[i] = "case")
  <2>1. b \in lo..hi /\ Inner(q[b]) /\ q2[b].kind = q[b].kind /\ h2[b] = h[b]
    BY <1>3 DEF SameCases
  <2>2. PICK i \in st.masked :
          /\ Closes(st, h[b], i)
          /\ q[b].kind = "default" /\ st.tokens[i] = "case" =>
               i = st.pos /\ q[b].last = "none"
    BY <2>1 DEF Masking
  <2> QED  BY <1>2, <2>1, <2>2
<1>4. ASSUME NEW i \in st.masked
      PROVE  \E b \in lo..hi2 : Inner(q2[b]) /\ Closes(Past(st), h2[b], i)
  <2>1. PICK b \in lo..hi : Inner(q[b]) /\ Closes(st, h[b], i)
    BY DEF Masking
  <2>2. b \in lo..hi2 /\ Inner(q2[b]) /\ h2[b] = h[b]
    BY <2>1 DEF SameCases, Inner
  <2> QED  BY <1>2, <2>1, <2>2
<1> QED  BY <1>1, <1>3, <1>4 DEF Masking

(* What is known of the calls of a text and its stack.                      *)
LEMMA TextIs ==
  ASSUME NEW st, NEW q, NEW h, NEW lo, NEW hi, Text(st, q, h, lo, hi)
  PROVE  /\ st \in StreamSet /\ st.tokens \in Seq(Token) /\ Len(st.tokens) \in Nat
         /\ st.pos \in Nat \ {0} /\ st.pos \in 1..Len(st.tokens) + 1
         /\ Before(st) \in Seq(Entry) /\ Before(st) # <<>>
         /\ Len(Before(st)) = h[hi] /\ Last(Before(st)) = Before(st)[h[hi]]
         /\ lo \in Nat \ {0} /\ hi \in lo..hi /\ hi \in Nat /\ lo <= hi
         /\ h[hi] \in Nat \ {0} /\ Before(st)[h[hi]] \in Entry
         /\ Mate(q[hi], Before(st)[h[hi]])
         /\ h[hi] = 1 + Level(st.tokens, st.pos - 1)
         /\ \A b \in lo..hi - 1 :
              /\ b \in lo..hi /\ h[b] \in Nat \ {0}
              /\ Mate(q[b], Before(st)[h[b]])
              /\ \/ h[b] < h[hi]
                 \/ /\ b = hi - 1 /\ h[b] = h[hi]
                    /\ Inner(q[hi]) /\ q[b].kind = "switch"
<1>1. Segment(q, h, lo, hi) /\ Matched(st, q, h, lo, hi)
  BY DEF Text
<1>2. lo \in Nat \ {0} /\ hi \in lo..hi /\ hi \in Nat /\ lo <= hi
  BY <1>1 DEF Segment
<1>3. st \in StreamSet /\ st.tokens \in Seq(Token) /\ Len(st.tokens) \in Nat
  BY <1>1 DEF Matched, StreamSet
<1>4. st.pos \in Nat \ {0} /\ st.pos \in 1..Len(st.tokens) + 1
      /\ st.pos - 1 \in 0..Len(st.tokens)
  BY <1>1, <1>3 DEF Matched
<1>5. Before(st) \in Seq(Entry) /\ Before(st) # <<>> /\ Len(Before(st)) = h[hi]
      /\ h[hi] = 1 + Level(st.tokens, st.pos - 1)
  BY <1>1, <1>3, <1>4, StacksTyped, StackHeight DEF Matched, Before
<1>6. /\ Last(Before(st)) \in Entry /\ h[hi] \in Nat \ {0}
      /\ Last(Before(st)) = Before(st)[h[hi]]
  <2>1. /\ Last(Before(st)) \in Entry /\ Len(Before(st)) \in Nat \ {0}
        /\ Last(Before(st)) = Before(st)[Len(Before(st))]
    BY <1>5, TopRemoved, Zenon
  <2> QED  BY <1>5, <2>1
<1>7. ASSUME NEW b \in lo..hi - 1
      PROVE  /\ b \in lo..hi /\ h[b] \in Nat \ {0}
             /\ Mate(q[b], Before(st)[h[b]])
             /\ \/ h[b] < h[hi]
                \/ /\ b = hi - 1 /\ h[b] = h[hi]
                   /\ Inner(q[hi]) /\ q[b].kind = "switch"
  <2>1. b \in lo..hi /\ b < hi
    BY <1>2
  <2>2. h[b] < h[hi] \/ (b = hi - 1 /\ Inner(q[hi]) /\ h[b] = h[hi])
    BY <1>1, <1>2, <2>1, Rising
  <2>3. b = hi - 1 /\ Inner(q[hi]) => q[b].kind = "switch"
    <3>1. b = hi - 1 => hi \in lo + 1..hi
      BY <1>2
    <3> QED  BY <1>1, <3>1 DEF Segment
  <2> QED  BY <1>1, <2>1, <2>2, <2>3, Rising DEF Matched
<1>8. Mate(q[hi], Before(st)[h[hi]])
  BY <1>1, <1>2 DEF Matched
<1> QED  BY <1>2, <1>3, <1>4, <1>5, <1>6, <1>7, <1>8

(* A statement is noted in the last call, as in the top entry.              *)
NotesLast(st, q, h, lo, hi, q2, S2) ==
  /\ q[hi].kind # "switch" /\ q2[hi].kind = q[hi].kind
  /\ \A b \in lo..hi - 1 : q2[b] = q[b]
  /\ \A k \in 1..h[hi] - 1 : S2[k] = Before(st)[k]
  /\ S2[h[hi]].kind = Before(st)[h[hi]].kind
  /\ S2[h[hi]].default = Before(st)[h[hi]].default
  /\ S2[h[hi]].last = q2[hi].last

LEMMA NotedMates ==
  ASSUME NEW st, NEW q, NEW h, NEW lo, NEW hi, Text(st, q, h, lo, hi),
         NEW q2, NEW S2, NotesLast(st, q, h, lo, hi, q2, S2)
  PROVE  /\ \A b \in lo..hi : Mate(q2[b], S2[h[b]])
         /\ q2[hi].kind = q[hi].kind /\ q2[hi].kind # "switch"
         /\ \A b \in lo..hi : q2[b].kind = q[b].kind
<1> DEFINE e == Before(st)[h[hi]]
<1>1. /\ e \in Entry /\ Mate(q[hi], e) /\ hi \in lo..hi /\ hi \in Nat /\ lo \in Nat
      /\ h[hi] \in Nat \ {0}
  BY TextIs
<1>2. /\ S2[h[hi]].kind = e.kind /\ S2[h[hi]].last = q2[hi].last
      /\ S2[h[hi]].default = e.default
      /\ q[hi].kind # "switch" /\ q2[hi].kind = q[hi].kind
      /\ \A b \in lo..hi - 1 : q2[b] = q[b]
      /\ \A k \in 1..h[hi] - 1 : S2[k] = Before(st)[k]
  BY DEF NotesLast
<1>3. Mate(q2[hi], S2[h[hi]])
  BY <1>1, <1>2 DEF Mate
<1>4. ASSUME NEW b \in lo..hi - 1 PROVE Mate(q2[b], S2[h[b]])
  <2>1. /\ h[b] \in Nat \ {0} /\ Mate(q[b], Before(st)[h[b]]) /\ q2[b] = q[b]
        /\ h[b] < h[hi] \/ (h[b] = h[hi] /\ q[b].kind = "switch")
    BY <1>2, TextIs
  <2>2. CASE h[b] < h[hi]
    <3>1. h[b] \in 1..h[hi] - 1
      BY <1>1, <2>1, <2>2
    <3> QED  BY <1>2, <2>1, <3>1
  <2>3. CASE h[b] = h[hi] /\ q[b].kind = "switch"
    BY <1>2, <2>1, <2>3 DEF Mate
  <2> QED  BY <2>1, <2>2, <2>3
<1>5. \A b \in lo..hi : b = hi \/ b \in lo..hi - 1
  BY <1>1
<1> QED  BY <1>2, <1>3, <1>4, <1>5

LEMMA NotedAt ==
  ASSUME NEW s \in Seq(Entry), s # <<>>, NEW last \in {"break", "stmt"},
         NEW n, n = Len(s)
  PROVE  /\ Noted(s, last) \in Seq(Entry) /\ Noted(s, last) # <<>>
         /\ Len(Noted(s, last)) = n
         /\ Noted(s, last)[n] = [s[n] EXCEPT !.last = last]
         /\ \A k \in 1..n - 1 : Noted(s, last)[k] = s[k]
<1>1. last \in {"none", "break", "stmt"}
  OBVIOUS
<1> QED  BY <1>1, NotedIs, Zenon

LEMMA Touch ==
  ASSUME NEW st, NEW q, NEW h, NEW lo, NEW hi, Text(st, q, h, lo, hi),
         q[hi] \in Block, q[hi].kind # "switch",
         st.pos <= Len(st.tokens), st.pos \notin st.masked,
         st.tokens[st.pos] \in {"stmt", "import", "break"},
         NEW q2, \A b \in lo..hi - 1 : q2[b] = q[b],
         q2[hi] = [q[hi] EXCEPT !.last = IF st.tokens[st.pos] = "break"
                                         THEN "break" ELSE "stmt"]
  PROVE  Text(Past(st), q2, h, lo, hi)
<1>0. /\ st \in StreamSet /\ st.pos \in 1..Len(st.tokens)
      /\ Before(st) \in Seq(Entry) /\ Before(st) # <<>> /\ Len(Before(st)) = h[hi]
      /\ Mate(q[hi], Before(st)[h[hi]]) /\ Last(Before(st)) = Before(st)[h[hi]]
      /\ Before(st)[h[hi]] \in Entry
      /\ hi \in lo..hi /\ hi \in Nat /\ lo \in Nat \ {0}
  BY TextIs
<1>1. PICK last \in {"break", "stmt"} :
        last = IF st.tokens[st.pos] = "break" THEN "break" ELSE "stmt"
  OBVIOUS
<1>2. /\ Past(st) \in StreamSet /\ Past(st).tokens = st.tokens
      /\ Past(st).pos \in 1..Len(st.tokens) + 1
      /\ st.tokens[st.pos] \in Token
      /\ Before(Past(st)) = Read(Before(st), st.tokens[st.pos])
  BY <1>0, Advances
<1>3. Last(Before(st)).kind # "switch"
  BY <1>0 DEF Mate, Bottoms
<1>4. Before(Past(st)) = Noted(Before(st), last)
  BY <1>0, <1>1, <1>2, <1>3, ReadIs
<1>5. /\ Before(Past(st)) # <<>> /\ Len(Before(Past(st))) = h[hi]
      /\ Before(Past(st))[h[hi]] = [Before(st)[h[hi]] EXCEPT !.last = last]
      /\ \A k \in 1..h[hi] - 1 : Before(Past(st))[k] = Before(st)[k]
  BY <1>0, <1>4, NotedAt
<1>6. /\ \A b \in lo..hi : Mate(q2[b], Before(Past(st))[h[b]])
      /\ q2[hi].kind # "switch"
      /\ \A b \in lo..hi : q2[b].kind = q[b].kind
  <2>1. q2[hi].kind = q[hi].kind /\ q2[hi].last = last
    BY <1>1 DEF Block
  <2>2. /\ Before(Past(st))[h[hi]].kind = Before(st)[h[hi]].kind
        /\ Before(Past(st))[h[hi]].default = Before(st)[h[hi]].default
        /\ Before(Past(st))[h[hi]].last = last
    BY <1>0, <1>5 DEF Entry
  <2>3. NotesLast(st, q, h, lo, hi, q2, Before(Past(st)))
    BY <1>5, <2>1, <2>2 DEF NotesLast
  <2> QED  BY <2>3, NotedMates
<1>7. Matched(Past(st), q2, h, lo, hi)
  BY <1>2, <1>5, <1>6 DEF Matched
<1>8. Segment(q2, h, lo, hi)
  <2>1. Segment(q, h, lo, hi)
    BY DEF Text
  <2>2. lo \in lo..hi /\ \A b \in lo + 1..hi : b \in lo..hi /\ b - 1 \in lo..hi
    BY <1>0, <2>1 DEF Segment
  <2> QED  BY <1>6, <2>1, <2>2 DEF Segment, Inner
<1>9. Masking(Past(st), q2, h, lo, hi)
  <2>1. SameCases(q, h, hi, q2, h, hi, lo)
    BY <1>6 DEF SameCases, Inner
  <2> QED  BY <1>0, <2>1, MaskingKept DEF Text
<1> QED  BY <1>6, <1>7, <1>8, <1>9 DEF Text

(* A block begins.                                                          *)
Opened(st, q, h, lo, hi, q2, h2) ==
  /\ q[hi] \in Block /\ q[hi].kind # "switch"
  /\ st.pos <= Len(st.tokens) /\ st.pos \notin st.masked
  /\ st.tokens[st.pos] \in Opening
  /\ \A b \in lo..hi - 1 : q2[b] = q[b]
  /\ q2[hi] = [q[hi] EXCEPT !.last = "stmt"]
  /\ q2[hi + 1] \in Block /\ q2[hi + 1].kind = st.tokens[st.pos]
  /\ q2[hi + 1].last = "none" /\ q2[hi + 1].has_default = FALSE
  /\ \A b \in lo..hi : h2[b] = h[b]
  /\ h2[hi + 1] = h[hi] + 1

LEMMA Push ==
  ASSUME NEW st, NEW q, NEW h, NEW lo, NEW hi, Text(st, q, h, lo, hi),
         NEW q2, NEW h2, Opened(st, q, h, lo, hi, q2, h2)
  PROVE  Text(Past(st), q2, h2, lo, hi + 1)
<1> SUFFICES ASSUME q[hi] \in Block, q[hi].kind # "switch",
                    st.pos <= Len(st.tokens), st.pos \notin st.masked,
                    st.tokens[st.pos] \in Opening,
                    \A b \in lo..hi - 1 : q2[b] = q[b],
                    q2[hi] = [q[hi] EXCEPT !.last = "stmt"],
                    q2[hi + 1] \in Block, q2[hi + 1].kind = st.tokens[st.pos],
                    q2[hi + 1].last = "none", q2[hi + 1].has_default = FALSE,
                    \A b \in lo..hi : h2[b] = h[b], h2[hi + 1] = h[hi] + 1
             PROVE  Text(Past(st), q2, h2, lo, hi + 1)
  BY DEF Opened
<1> DEFINE token == st.tokens[st.pos]
           S2 == Before(Past(st))
<1>0. /\ st \in StreamSet /\ st.pos \in 1..Len(st.tokens)
      /\ Before(st) \in Seq(Entry) /\ Before(st) # <<>> /\ Len(Before(st)) = h[hi]
      /\ Mate(q[hi], Before(st)[h[hi]]) /\ Last(Before(st)) = Before(st)[h[hi]]
      /\ Before(st)[h[hi]] \in Entry
      /\ hi \in lo..hi /\ hi \in Nat /\ lo \in Nat \ {0} /\ h[hi] \in Nat \ {0}
  BY TextIs
<1>2. /\ Past(st) \in StreamSet /\ Past(st).tokens = st.tokens
      /\ Past(st).pos \in 1..Len(st.tokens) + 1
      /\ token \in Token /\ S2 = Read(Before(st), token)
  BY <1>0, Advances
<1>3. Last(Before(st)).kind # "switch"
  BY <1>0 DEF Mate, Bottoms
<1>4. S2 = Append(Noted(Before(st), "stmt"), New(token))
  BY <1>0, <1>2, <1>3, ReadIs
<1>5. PICK r \in Seq(Entry) :
        /\ r = Noted(Before(st), "stmt") /\ Len(r) = h[hi]
        /\ r[h[hi]] = [Before(st)[h[hi]] EXCEPT !.last = "stmt"]
        /\ \A k \in 1..h[hi] - 1 : r[k] = Before(st)[k]
  <2>1. "stmt" \in {"break", "stmt"}
    OBVIOUS
  <2>2. /\ Noted(Before(st), "stmt") \in Seq(Entry)
        /\ Len(Noted(Before(st), "stmt")) = h[hi]
        /\ Noted(Before(st), "stmt")[h[hi]]
             = [Before(st)[h[hi]] EXCEPT !.last = "stmt"]
        /\ \A k \in 1..h[hi] - 1 : Noted(Before(st), "stmt")[k] = Before(st)[k]
    BY <1>0, <2>1, NotedAt
  <2> QED  BY <2>2, Zenon
<1>6. New(token) \in Entry /\ New(token).kind = token /\ New(token).last = "none"
      /\ New(token).default = FALSE
  BY EntriesTyped DEF New, Opening, EntryKind
<1>7. /\ S2 # <<>> /\ Len(S2) = h[hi] + 1 /\ S2[h[hi] + 1] = New(token)
      /\ \A k \in 1..h[hi] : S2[k] = r[k]
  BY <1>4, <1>5, <1>6, TopAdded
<1>8. /\ \A b \in lo..hi : Mate(q2[b], r[h[b]])
      /\ q2[hi].kind # "switch"
      /\ \A b \in lo..hi : q2[b].kind = q[b].kind
  <2>1. q2[hi].kind = q[hi].kind /\ q2[hi].last = "stmt"
    BY DEF Block
  <2>2. /\ r[h[hi]].kind = Before(st)[h[hi]].kind
        /\ r[h[hi]].default = Before(st)[h[hi]].default
        /\ r[h[hi]].last = "stmt"
    BY <1>0, <1>5 DEF Entry
  <2>3. NotesLast(st, q, h, lo, hi, q2, r)
    BY <1>5, <2>1, <2>2 DEF NotesLast
  <2> QED  BY <2>3, NotedMates
<1>9. \A b \in lo..hi : Mate(q2[b], S2[h2[b]])
  <2> SUFFICES ASSUME NEW b \in lo..hi PROVE Mate(q2[b], S2[h[b]])
    OBVIOUS
  <2>1. b = hi \/ b \in lo..hi - 1
    BY <1>0
  <2>2. h[b] \in Nat \ {0} /\ h[b] <= h[hi]
    <3>1. CASE b = hi
      BY <1>0, <3>1
    <3>2. CASE b \in lo..hi - 1
      <4>1. h[b] \in Nat \ {0} /\ (h[b] < h[hi] \/ h[b] = h[hi])
        BY <3>2, TextIs
      <4>2. h[hi] \in Nat
        BY <1>0
      <4> QED  BY <4>1, <4>2
    <3> QED  BY <2>1, <3>1, <3>2
  <2>3. h[b] \in 1..h[hi]
    <3>1. h[hi] \in Nat
      BY <1>0
    <3> QED  BY <2>2, <3>1
  <2> QED  BY <1>7, <1>8, <2>3
<1>10. Mate(q2[hi + 1], S2[h2[hi + 1]])
  BY <1>6, <1>7 DEF Mate, Opening, Bottoms
<1>11. \A b \in lo..hi + 1 : b = hi + 1 \/ b \in lo..hi
  BY <1>0
<1>12. Matched(Past(st), q2, h2, lo, hi + 1)
  BY <1>2, <1>7, <1>9, <1>10, <1>11 DEF Matched
<1>13. ~Inner(q2[hi + 1]) /\ q2[hi + 1].kind \notin Bottoms
  BY DEF Opening, Inner, Bottoms
<1>14. Segment(q2, h2, lo, hi + 1)
  <2>1. Segment(q, h, lo, hi)
    BY DEF Text
  <2>2. lo \in lo..hi /\ \A b \in lo + 1..hi : b \in lo..hi /\ b - 1 \in lo..hi
    BY <1>0, <2>1 DEF Segment
  <2>3. \A b \in lo + 1..hi + 1 : b = hi + 1 \/ b \in lo + 1..hi
    BY <1>0
  <2>4. (hi + 1) - 1 = hi /\ h2[hi + 1] = h2[hi] + 1 /\ lo <= hi + 1 /\ hi + 1 \in Nat
    BY <1>0, <2>1 DEF Segment
  <2>5. ASSUME NEW b \in lo + 1..hi
        PROVE  /\ q2[b].kind \notin Bottoms
               /\ Inner(q2[b]) <=> q2[b - 1].kind = "switch"
               /\ h2[b] = h2[b - 1] + (IF Inner(q2[b]) THEN 0 ELSE 1)
    <3>1. /\ q[b].kind \notin Bottoms
          /\ Inner(q[b]) <=> q[b - 1].kind = "switch"
          /\ h[b] = h[b - 1] + (IF Inner(q[b]) THEN 0 ELSE 1)
      BY <2>1, <2>5 DEF Segment
    <3>2. b \in lo..hi /\ b - 1 \in lo..hi
      BY <2>2, <2>5
    <3>3. /\ q2[b].kind = q[b].kind /\ q2[b - 1].kind = q[b - 1].kind
          /\ h2[b] = h[b] /\ h2[b - 1] = h[b - 1]
      BY <1>8, <3>2
    <3> QED  BY <3>1, <3>3 DEF Inner
  <2>6. /\ Inner(q2[hi + 1]) <=> q2[(hi + 1) - 1].kind = "switch"
        /\ h2[hi + 1] = h2[(hi + 1) - 1] + (IF Inner(q2[hi + 1]) THEN 0 ELSE 1)
    BY <1>8, <1>13, <2>4
  <2>7. q2[lo].kind \in Bottoms /\ h2[lo] = 1
    BY <1>8, <2>1, <2>2 DEF Segment
  <2> QED  BY <1>0, <1>13, <2>3, <2>4, <2>5, <2>6, <2>7 DEF Segment
<1>15. Masking(Past(st), q2, h2, lo, hi + 1)
  <2>1. SameCases(q, h, hi, q2, h2, hi + 1, lo)
    BY <1>0, <1>8, <1>11, <1>13 DEF SameCases, Inner
  <2> QED  BY <1>0, <2>1, MaskingKept DEF Text
<1>16. q2[hi + 1].kind = "switch" => Ended(Past(st), S2[h2[hi + 1]])
  BY <1>6, <1>7 DEF Ended
<1> QED  BY <1>12, <1>14, <1>15, <1>16 DEF Text

(* A block ends.                                                            *)
LEMMA Pop ==
  ASSUME NEW st, NEW q, NEW h, NEW lo, NEW hi, Text(st, q, h, lo, hi),
         q[hi].kind \notin Bottoms, ~Inner(q[hi]), q[hi].kind # "try",
         st.pos <= Len(st.tokens), st.pos \notin st.masked,
         st.tokens[st.pos] = "fi",
         NEW q2, \A b \in lo..hi - 1 : q2[b] = q[b]
  PROVE  Text(Past(st), q2, h, lo, hi - 1)
<1> DEFINE S2 == Before(Past(st))
           e == Before(st)[h[hi]]
<1>0. /\ st \in StreamSet /\ st.pos \in 1..Len(st.tokens)
      /\ Before(st) \in Seq(Entry) /\ Before(st) # <<>> /\ Len(Before(st)) = h[hi]
      /\ Mate(q[hi], e) /\ Last(Before(st)) = e
      /\ hi \in lo..hi /\ hi \in Nat /\ lo \in Nat \ {0} /\ h[hi] \in Nat \ {0}
  BY TextIs
<1>1. Segment(q, h, lo, hi)
  BY DEF Text
<1>2. hi # lo /\ hi \in lo + 1..hi /\ hi - 1 \in Nat /\ lo <= hi - 1 /\ hi - 1 \in lo..hi - 1
  BY <1>0, <1>1 DEF Segment
<1>3. h[hi] = h[hi - 1] + 1 /\ q[hi - 1].kind # "switch" /\ h[hi - 1] \in Nat
  <2>1. h[hi - 1] \in Nat
    BY <1>2, TextIs
  <2>2. /\ Inner(q[hi]) <=> q[hi - 1].kind = "switch"
        /\ h[hi] = h[hi - 1] + (IF Inner(q[hi]) THEN 0 ELSE 1)
    BY <1>1, <1>2 DEF Segment
  <2> QED  BY <2>1, <2>2
<1>4. /\ Past(st) \in StreamSet /\ Past(st).tokens = st.tokens
      /\ Past(st).pos \in 1..Len(st.tokens) + 1
      /\ st.tokens[st.pos] \in Token /\ S2 = Read(Before(st), st.tokens[st.pos])
  BY <1>0, Advances
<1>5. e.kind \notin {"script", "try"} /\ ~(e.kind = "default" /\ e.last = "stmt")
  <2>1. CASE q[hi].kind = "switch"
    <3>1. Ended(st, e)
      BY <2>1 DEF Text
    <3> QED  BY <1>0, <2>1, <3>1 DEF Mate, Ended, Bottoms
  <2>2. CASE q[hi].kind # "switch"
    BY <1>0, <2>2 DEF Mate, Inner, Bottoms
  <2> QED  BY <2>1, <2>2
<1>6. S2 = Front(Before(st))
  BY <1>0, <1>4, <1>5, ReadIs
<1>7. /\ Len(S2) = h[hi - 1] /\ \A k \in 1..h[hi - 1] : S2[k] = Before(st)[k]
      /\ S2 # <<>>
  <2>1. /\ Front(Before(st)) \in Seq(Entry) /\ Len(Front(Before(st))) = Len(Before(st)) - 1
        /\ \A k \in 1..Len(Before(st)) - 1 : Front(Before(st))[k] = Before(st)[k]
    BY <1>0, TopRemoved, Zenon
  <2>2. h[hi] - 1 = h[hi - 1]
    BY <1>0, <1>3
  <2>3. h[hi - 1] # 0
    BY <1>2, TextIs
  <2> QED  BY <1>0, <1>6, <2>1, <2>2, <2>3
<1>8. ASSUME NEW b \in lo..hi - 1 PROVE Mate(q2[b], S2[h[b]])
  <2>1. h[b] \in Nat \ {0} /\ Mate(q[b], Before(st)[h[b]]) /\ h[b] < h[hi]
    BY TextIs
  <2>2. h[b] \in 1..h[hi - 1]
    BY <1>0, <1>3, <2>1
  <2> QED  BY <1>7, <2>1, <2>2
<1>9. Matched(Past(st), q2, h, lo, hi - 1)
  BY <1>4, <1>7, <1>8 DEF Matched
<1>10. Segment(q2, h, lo, hi - 1)
  <2>1. lo \in lo..hi - 1
    BY <1>0, <1>2
  <2>2. \A b \in lo + 1..hi - 1 : b \in lo..hi - 1 /\ b - 1 \in lo..hi - 1 /\ b \in lo + 1..hi
    BY <1>0, <1>2
  <2> QED  BY <1>0, <1>1, <1>2, <2>1, <2>2 DEF Segment, Inner
<1>11. Masking(Past(st), q2, h, lo, hi - 1)
  <2>1. \A b \in lo..hi : b = hi \/ b \in lo..hi - 1
    BY <1>0
  <2>2. \A b \in lo..hi - 1 : b \in lo..hi
    BY <1>0
  <2>3. SameCases(q, h, hi, q2, h, hi - 1, lo)
    BY <2>1, <2>2 DEF SameCases, Inner
  <2> QED  BY <1>0, <2>3, MaskingKept DEF Text
<1>12. q2[hi - 1].kind # "switch"
  BY <1>2, <1>3
<1> QED  BY <1>9, <1>10, <1>11, <1>12 DEF Text

LEMMA TurnedAt ==
  ASSUME NEW s \in Seq(Entry), s # <<>>, NEW kind \in EntryKind, NEW n, n = Len(s)
  PROVE  /\ Turned(s, kind) # <<>> /\ Len(Turned(s, kind)) = n
         /\ Turned(s, kind)[n].kind = kind /\ Turned(s, kind)[n].last = "none"
         /\ Turned(s, kind)[n].default = (s[n].default \/ kind = "default")
         /\ \A k \in 1..n - 1 : Turned(s, kind)[k] = s[k]
<1>1. /\ Turned(s, kind) # <<>> /\ Len(Turned(s, kind)) = n
      /\ Turned(s, kind)[n]
           = [s[n] EXCEPT !.kind = kind, !.last = "none",
                          !.default = @ \/ kind = "default"]
      /\ \A k \in 1..n - 1 : Turned(s, kind)[k] = s[k]
  BY TurnedIs, Zenon
<1>2. s[n] \in Entry
  BY TopRemoved, Zenon
<1> QED  BY <1>1, <1>2 DEF Entry

(* A block goes on with elseif, else or catch.                              *)
LEMMA Turn ==
  ASSUME NEW st, NEW q, NEW h, NEW lo, NEW hi, Text(st, q, h, lo, hi),
         st.pos <= Len(st.tokens), st.pos \notin st.masked, NEW kind,
         \/ q[hi].kind = "if" /\ st.tokens[st.pos] = "elseif" /\ kind = "if"
         \/ q[hi].kind = "if" /\ st.tokens[st.pos] = "else" /\ kind = "else"
         \/ q[hi].kind = "try" /\ st.tokens[st.pos] = "catch" /\ kind = "catch",
         NEW q2, \A b \in lo..hi - 1 : q2[b] = q[b],
         q2[hi].kind = kind, q2[hi].last = "none"
  PROVE  Text(Past(st), q2, h, lo, hi)
<1> DEFINE S2 == Before(Past(st))
           e == Before(st)[h[hi]]
<1>0. /\ st \in StreamSet /\ st.pos \in 1..Len(st.tokens)
      /\ Before(st) \in Seq(Entry) /\ Before(st) # <<>> /\ Len(Before(st)) = h[hi]
      /\ Mate(q[hi], e) /\ Last(Before(st)) = e /\ e \in Entry
      /\ hi \in lo..hi /\ hi \in Nat /\ lo \in Nat \ {0} /\ h[hi] \in Nat \ {0}
  BY TextIs
<1>1. /\ q[hi].kind \in {"if", "try"} /\ kind \in {"if", "else", "catch"}
      /\ ~Inner(q[hi]) /\ ~Inner(q2[hi])
  BY DEF Inner
<1>2. e.kind = q[hi].kind
  BY <1>0, <1>1 DEF Mate, Bottoms
<1>4. /\ Past(st) \in StreamSet /\ Past(st).tokens = st.tokens
      /\ Past(st).pos \in 1..Len(st.tokens) + 1
      /\ st.tokens[st.pos] \in Token /\ S2 = Read(Before(st), st.tokens[st.pos])
  BY <1>0, Advances
<1>6. S2 = Turned(Before(st), kind)
  BY <1>0, <1>2, <1>4, ReadIs
<1>7. /\ S2 # <<>> /\ Len(S2) = h[hi]
      /\ S2[h[hi]].kind = kind /\ S2[h[hi]].last = "none"
      /\ \A k \in 1..h[hi] - 1 : S2[k] = Before(st)[k]
  <2>1. kind \in EntryKind
    BY <1>1 DEF EntryKind
  <2> QED  BY <1>0, <1>6, <2>1, TurnedAt
<1>9. ASSUME NEW b \in lo..hi PROVE Mate(q2[b], S2[h[b]])
  <2>1. CASE b = hi
    BY <1>1, <1>7, <2>1 DEF Mate, Bottoms
  <2>2. CASE b \in lo..hi - 1
    <3>1. h[b] \in Nat \ {0} /\ Mate(q[b], Before(st)[h[b]]) /\ h[b] < h[hi]
      BY <1>1, <2>2, TextIs
    <3>2. h[b] \in 1..h[hi] - 1
      BY <1>0, <3>1
    <3> QED  BY <1>7, <2>2, <3>1, <3>2
  <2> QED  BY <1>0, <2>1, <2>2
<1>10. Matched(Past(st), q2, h, lo, hi)
  BY <1>4, <1>7, <1>9 DEF Matched
<1>11. \A b \in lo..hi : b = hi \/ b \in lo..hi - 1
  BY <1>0
<1>12. Segment(q2, h, lo, hi)
  <2>1. Segment(q, h, lo, hi)
    BY DEF Text
  <2>2. lo \in lo..hi - 1
    BY <1>0, <1>1, <2>1 DEF Segment, Bottoms
  <2>3. ASSUME NEW b \in lo + 1..hi
        PROVE  /\ q2[b].kind \notin Bottoms
               /\ Inner(q2[b]) <=> q2[b - 1].kind = "switch"
               /\ h[b] = h[b - 1] + (IF Inner(q2[b]) THEN 0 ELSE 1)
    <3>1. /\ q[b].kind \notin Bottoms
          /\ Inner(q[b]) <=> q[b - 1].kind = "switch"
          /\ h[b] = h[b - 1] + (IF Inner(q[b]) THEN 0 ELSE 1)
      BY <2>1, <2>3 DEF Segment
    <3>2. b - 1 \in lo..hi - 1 /\ (b = hi \/ b \in lo..hi - 1)
      BY <1>0, <2>3
    <3>3. q2[b - 1] = q[b - 1]
      BY <3>2
    <3>4. CASE b = hi
      BY <1>1, <3>1, <3>3, <3>4 DEF Bottoms
    <3>5. CASE b \in lo..hi - 1
      BY <3>1, <3>3, <3>5
    <3> QED  BY <3>2, <3>4, <3>5
  <2> QED  BY <2>1, <2>2, <2>3 DEF Segment
<1>13. Masking(Past(st), q2, h, lo, hi)
  <2>1. SameCases(q, h, hi, q2, h, hi, lo)
    BY <1>1, <1>11 DEF SameCases
  <2> QED  BY <1>0, <2>1, MaskingKept DEF Text
<1> QED  BY <1>1, <1>10, <1>12, <1>13 DEF Text

-----------------------------------------------------------------------------
(* Where the masks are, seen from the last call.                            *)

(* A masked position is the end of the case being read.                     *)
LEMMA OwnEnd ==
  ASSUME NEW st, NEW q, NEW h, NEW lo, NEW hi, Text(st, q, h, lo, hi),
         st.pos \in st.masked
  PROVE  /\ Inner(q[hi]) /\ Closes(st, h[hi], st.pos)
         /\ st.pos <= Len(st.tokens) /\ st.tokens[st.pos] \in Ender
         /\ \A i : \A height \in Nat :
              Closes(st, height, i) => (i = st.pos <=> height = h[hi])
<1>0. /\ st.pos \in Nat \ {0} /\ Len(st.tokens) \in Nat /\ h[hi] \in Nat \ {0}
      /\ h[hi] = 1 + Level(st.tokens, st.pos - 1)
      /\ hi \in Nat /\ lo \in Nat \ {0} /\ hi \in lo..hi
  BY TextIs
<1>1. PICK b \in lo..hi : Inner(q[b]) /\ Closes(st, h[b], st.pos)
  BY DEF Text, Masking
<1>2. /\ st.pos \in st.pos..Len(st.tokens) /\ st.tokens[st.pos] \in Ender
      /\ Level(st.tokens, st.pos - 1) = h[b] - 1
  <2>1. st.pos \in st.pos..Len(st.tokens) /\ AtEnd(st.tokens, h[b], st.pos)
    BY <1>1 DEF Closes
  <2> QED  BY <2>1 DEF AtEnd
<1>3. Level(st.tokens, st.pos - 1) \in Int
  <2>1. st.pos - 1 \in Nat
    BY <1>0
  <2> QED  BY <2>1, LevelStep
<1>4. b = hi
  <2>1. CASE b \in lo..hi - 1
    <3>1. h[b] \in Nat \ {0} /\ (h[b] < h[hi] \/ q[b].kind = "switch")
      BY <2>1, TextIs
    <3>2. q[b].kind # "switch"
      BY <1>1 DEF Inner
    <3> QED  BY <1>0, <1>2, <1>3, <3>1, <3>2
  <2> QED  BY <1>0, <2>1
<1>5. AtEnd(st.tokens, h[hi], st.pos)
  BY <1>1, <1>4 DEF Closes
<1>6. ASSUME NEW height \in Nat, NEW i, Closes(st, height, i)
      PROVE  i = st.pos <=> height = h[hi]
  <2>1. i \in st.pos..Len(st.tokens) /\ Level(st.tokens, i - 1) = height - 1
        /\ \A j \in st.pos..i - 1 : ~AtEnd(st.tokens, height, j)
    BY <1>6 DEF Closes, AtEnd
  <2>2. ASSUME height = h[hi] PROVE i = st.pos
    <3>1. st.pos \notin st.pos..i - 1
      BY <1>5, <2>1, <2>2
    <3>2. i \in Nat /\ i >= st.pos
      BY <1>0, <2>1
    <3> QED  BY <1>0, <3>1, <3>2
  <2>3. ASSUME i = st.pos PROVE height = h[hi]
    BY <1>0, <1>3, <2>1, <2>3
  <2> QED  BY <2>2, <2>3
<1> QED  BY <1>0, <1>1, <1>2, <1>4, <1>6

(* In the body of a case, the token that ends it is not read.               *)
LEMMA NotItsEnd ==
  ASSUME NEW st, NEW q, NEW h, NEW lo, NEW hi, Text(st, q, h, lo, hi),
         Inner(q[hi]), st.pos \notin st.masked
  PROVE  st.pos <= Len(st.tokens) /\ st.tokens[st.pos] \notin Ender
<1>0. /\ st.pos \in Nat \ {0} /\ Len(st.tokens) \in Nat /\ h[hi] \in Nat \ {0}
      /\ h[hi] = 1 + Level(st.tokens, st.pos - 1) /\ hi \in lo..hi
  BY TextIs
<1>1. PICK i \in st.masked : Closes(st, h[hi], i)
  BY <1>0 DEF Text, Masking
<1>2. i \in st.pos..Len(st.tokens) /\ i # st.pos
      /\ \A j \in st.pos..i - 1 : ~AtEnd(st.tokens, h[hi], j)
  BY <1>1 DEF Closes
<1>3. st.pos \in st.pos..i - 1 /\ st.pos <= Len(st.tokens)
  BY <1>0, <1>2
<1>4. ~AtEnd(st.tokens, h[hi], st.pos)
  BY <1>2, <1>3
<1>5. Level(st.tokens, st.pos - 1) = h[hi] - 1
  <2>1. st.pos - 1 \in Nat
    BY <1>0
  <2>2. Level(st.tokens, st.pos - 1) \in Int
    BY <2>1, LevelStep
  <2> QED  BY <1>0, <2>2
<1> QED  BY <1>3, <1>4, <1>5 DEF AtEnd

(* The masks lie beyond a switch that is not in a case, and further out.    *)
LEMMA MasksBeyond ==
  ASSUME NEW st, NEW q, NEW h, NEW lo, NEW hi, Text(st, q, h, lo, hi),
         q[hi].kind = "switch", st.pos \notin st.masked
  PROVE  \A i \in st.masked : /\ i \in st.pos + 1..Len(st.tokens)
                              /\ Level(st.tokens, i - 1) < h[hi] - 1
<1>0. /\ st.pos \in Nat \ {0} /\ Len(st.tokens) \in Nat /\ h[hi] \in Nat \ {0}
      /\ hi \in Nat /\ lo \in Nat \ {0}
  BY TextIs
<1> SUFFICES ASSUME NEW i \in st.masked
             PROVE  /\ i \in st.pos + 1..Len(st.tokens)
                    /\ Level(st.tokens, i - 1) < h[hi] - 1
  OBVIOUS
<1>1. PICK b \in lo..hi : Inner(q[b]) /\ Closes(st, h[b], i)
  BY DEF Text, Masking
<1>2. i \in st.pos..Len(st.tokens) /\ Level(st.tokens, i - 1) = h[b] - 1
  BY <1>1 DEF Closes, AtEnd
<1>3. i \in st.pos + 1..Len(st.tokens)
  BY <1>0, <1>2
<1>4. b \in lo..hi - 1
  BY <1>0, <1>1 DEF Inner
<1>5. h[b] \in Nat \ {0} /\ h[b] < h[hi]
  <2>1. ~Inner(q[hi])
    BY DEF Inner
  <2> QED  BY <1>4, <2>1, TextIs
<1> QED  BY <1>0, <1>2, <1>3, <1>5

(* A case or default begins: its end is masked.                             *)
CaseOpened(st, q, h, lo, hi, kind, end, q2, h2) ==
  /\ q[hi].kind = "switch" /\ kind \in {"case", "default"}
  /\ st.pos <= Len(st.tokens) /\ st.pos \notin st.masked
  /\ st.tokens[st.pos] = kind
  /\ Closes(Past(st), h[hi], end)
  /\ kind = "default" => /\ ~q[hi].has_default
                         /\ end = st.pos + 1 \/ st.tokens[end] # "case"
  /\ \A b \in lo..hi - 1 : q2[b] = q[b]
  /\ q2[hi].kind = "switch"
  /\ q2[hi].has_default = (q[hi].has_default \/ kind = "default")
  /\ q2[hi + 1].kind = kind /\ q2[hi + 1].last = "none"
  /\ \A b \in lo..hi : h2[b] = h[b]
  /\ h2[hi + 1] = h[hi]

LEMMA CaseStart ==
  ASSUME NEW st, NEW q, NEW h, NEW lo, NEW hi, Text(st, q, h, lo, hi),
         NEW kind, NEW end, NEW q2, NEW h2,
         CaseOpened(st, q, h, lo, hi, kind, end, q2, h2),
         NEW st2 \in StreamSet, st2.pos = st.pos + 1, st2.tokens = st.tokens,
         st2.masked = st.masked \cup {end}
  PROVE  Text(st2, q2, h2, lo, hi + 1)
<1> SUFFICES ASSUME q[hi].kind = "switch", kind \in {"case", "default"},
                    st.pos <= Len(st.tokens), st.pos \notin st.masked,
                    st.tokens[st.pos] = kind,
                    Closes(Past(st), h[hi], end),
                    kind = "default" =>
                      /\ ~q[hi].has_default
                      /\ end = st.pos + 1 \/ st.tokens[end] # "case",
                    \A b \in lo..hi - 1 : q2[b] = q[b],
                    q2[hi].kind = "switch",
                    q2[hi].has_default = (q[hi].has_default \/ kind = "default"),
                    q2[hi + 1].kind = kind, q2[hi + 1].last = "none",
                    \A b \in lo..hi : h2[b] = h[b], h2[hi + 1] = h[hi]
             PROVE  Text(st2, q2, h2, lo, hi + 1)
  BY DEF CaseOpened
<1> DEFINE S2 == Before(st2)
           e == Before(st)[h[hi]]
<1>0. /\ st \in StreamSet /\ st.pos \in 1..Len(st.tokens)
      /\ Before(st) \in Seq(Entry) /\ Before(st) # <<>> /\ Len(Before(st)) = h[hi]
      /\ Mate(q[hi], e) /\ Last(Before(st)) = e /\ e \in Entry
      /\ hi \in lo..hi /\ hi \in Nat /\ lo \in Nat \ {0} /\ h[hi] \in Nat \ {0}
  BY TextIs
<1>1. Segment(q, h, lo, hi) /\ Ended(st, e) /\ Inner(q2[hi + 1])
  BY DEF Text, Inner
<1>2. /\ Past(st).pos = st.pos + 1 /\ Past(st).tokens = st.tokens
      /\ Past(st).masked = st.masked
      /\ Past(st).pos \in 1..Len(st.tokens) + 1
      /\ kind \in Token /\ Before(Past(st)) = Read(Before(st), kind)
  BY <1>0, Advances
<1>3. S2 = Read(Before(st), kind)
  BY <1>2 DEF Before
<1>4. /\ kind = "case" => \/ e.kind \in {"switch", "case"}
                          \/ e.kind = "default" /\ e.last = "none"
      /\ kind = "default" => e.kind \in {"switch", "case"} /\ ~e.default
      /\ e.default = q[hi].has_default
  BY <1>0, <1>1 DEF Mate, Ended, Bottoms
<1>5. S2 = Turned(Before(st), kind)
  BY <1>0, <1>2, <1>3, <1>4, ReadIs
<1>6. /\ S2 # <<>> /\ Len(S2) = h[hi]
      /\ S2[h[hi]].kind = kind /\ S2[h[hi]].last = "none"
      /\ S2[h[hi]].default = (e.default \/ kind = "default")
      /\ \A k \in 1..h[hi] - 1 : S2[k] = Before(st)[k]
  <2>1. kind \in EntryKind
    BY DEF EntryKind
  <2> QED  BY <1>0, <1>5, <2>1, TurnedAt
<1>7. Mate(q2[hi], S2[h2[hi]]) /\ Mate(q2[hi + 1], S2[h2[hi + 1]])
  BY <1>0, <1>4, <1>6 DEF Mate, Bottoms
<1>8. ASSUME NEW b \in lo..hi - 1 PROVE Mate(q2[b], S2[h2[b]])
  <2>1. ~Inner(q[hi])
    BY DEF Inner
  <2>2. h[b] \in Nat \ {0} /\ Mate(q[b], Before(st)[h[b]]) /\ h[b] < h[hi]
        /\ b \in lo..hi
    BY <2>1, TextIs
  <2>3. h[b] \in 1..h[hi] - 1
    BY <1>0, <2>2
  <2> QED  BY <1>6, <2>2, <2>3
<1>9. /\ \A b \in lo..hi + 1 : b = hi + 1 \/ b \in lo..hi
      /\ \A b \in lo..hi : b = hi \/ b \in lo..hi - 1
  <2>1. hi \in Nat /\ lo \in Nat
    BY <1>0
  <2> QED  BY ONLY <2>1
<1>10. Matched(st2, q2, h2, lo, hi + 1)
  <2>1. \A b \in lo..hi + 1 : Mate(q2[b], S2[h2[b]])
    BY <1>7, <1>8, <1>9
  <2>2. st2.pos \in 1..Len(st2.tokens) + 1 /\ Len(S2) = h2[hi + 1]
    BY <1>2, <1>6
  <2> QED  BY <1>6, <2>1, <2>2 DEF Matched
<1>11. \A b \in lo..hi : q2[b].kind = q[b].kind /\ h2[b] = h[b]
  BY <1>9
<1>12. Segment(q2, h2, lo, hi + 1)
  <2>1. lo \in lo..hi /\ \A b \in lo + 1..hi : b \in lo..hi /\ b - 1 \in lo..hi
    BY <1>0, <1>1 DEF Segment
  <2>2. \A b \in lo + 1..hi + 1 : b = hi + 1 \/ b \in lo + 1..hi
    BY <1>0
  <2>3. (hi + 1) - 1 = hi /\ lo <= hi + 1 /\ hi + 1 \in Nat /\ h2[hi + 1] = h2[hi] + 0
    BY <1>0, <1>1 DEF Segment
  <2>4. ASSUME NEW b \in lo + 1..hi
        PROVE  /\ q2[b].kind \notin Bottoms
               /\ Inner(q2[b]) <=> q2[b - 1].kind = "switch"
               /\ h2[b] = h2[b - 1] + (IF Inner(q2[b]) THEN 0 ELSE 1)
    <3>1. /\ q[b].kind \notin Bottoms
          /\ Inner(q[b]) <=> q[b - 1].kind = "switch"
          /\ h[b] = h[b - 1] + (IF Inner(q[b]) THEN 0 ELSE 1)
      BY <1>1, <2>4 DEF Segment
    <3>2. /\ q2[b].kind = q[b].kind /\ q2[b - 1].kind = q[b - 1].kind
          /\ h2[b] = h[b] /\ h2[b - 1] = h[b - 1]
      BY <1>11, <2>1, <2>4
    <3> QED  BY <3>1, <3>2 DEF Inner
  <2>5. /\ q2[hi + 1].kind \notin Bottoms
        /\ Inner(q2[hi + 1]) <=> q2[(hi + 1) - 1].kind = "switch"
        /\ h2[hi + 1] = h2[(hi + 1) - 1] + (IF Inner(q2[hi + 1]) THEN 0 ELSE 1)
    BY <1>1, <2>3 DEF Bottoms
  <2>6. q2[lo].kind \in Bottoms /\ h2[lo] = 1
    BY <1>1, <1>11, <2>1 DEF Segment
  <2> QED  BY <1>0, <2>2, <2>3, <2>4, <2>5, <2>6 DEF Segment
<1>13. Masking(Past(st), q2, h2, lo, hi)
  <2>1. SameCases(q, h, hi, q2, h2, hi, lo)
    BY <1>11 DEF SameCases, Inner
  <2> QED  BY <1>0, <2>1, MaskingKept DEF Text
<1>14. \A height, i : Closes(st2, height, i) <=> Closes(Past(st), height, i)
  BY <1>2 DEF Closes
<1>15. Masking(st2, q2, h2, lo, hi + 1)
  <2>1. ASSUME NEW b \in lo..hi + 1, Inner(q2[b])
        PROVE  \E i \in st2.masked :
                 /\ Closes(st2, h2[b], i)
                 /\ q2[b].kind = "default" /\ st2.tokens[i] = "case" =>
                      i = st2.pos /\ q2[b].last = "none"
    <3>1. CASE b = hi + 1
      BY <1>14, <3>1
    <3>2. CASE b \in lo..hi
      <4>1. PICK i \in st.masked :
              /\ Closes(Past(st), h2[b], i)
              /\ q2[b].kind = "default" /\ st.tokens[i] = "case" =>
                   i = st.pos + 1 /\ q2[b].last = "none"
        BY <1>2, <1>13, <2>1, <3>2 DEF Masking
      <4> QED  BY <1>14, <4>1
    <3>3. b = hi + 1 \/ b \in lo..hi
      BY <1>0
    <3> QED  BY <3>1, <3>2, <3>3
  <2>2. ASSUME NEW i \in st2.masked
        PROVE  \E b \in lo..hi + 1 : Inner(q2[b]) /\ Closes(st2, h2[b], i)
    <3>1. CASE i = end
      <4>1. hi + 1 \in lo..hi + 1
        BY <1>0, <1>12 DEF Segment
      <4> QED  BY <1>1, <1>14, <3>1, <4>1
    <3>2. CASE i \in st.masked
      <4>1. PICK b \in lo..hi : Inner(q2[b]) /\ Closes(Past(st), h2[b], i)
        BY <1>2, <1>13, <3>2 DEF Masking
      <4>2. b \in lo..hi + 1
        BY <1>0
      <4> QED  BY <1>14, <4>1, <4>2
    <3> QED  BY <3>1, <3>2
  <2> QED  BY <2>1, <2>2 DEF Masking
<1>16. q2[hi + 1].kind # "switch"
  OBVIOUS
<1> QED  BY <1>10, <1>12, <1>15, <1>16 DEF Text

(* It is over: its end is a token again, and the switch goes on there.      *)
CaseClosed(st, q, lo, hi, st2, q2) ==
  /\ st.pos \in st.masked
  /\ q[hi].kind = "default" => q[hi].last # "stmt"
  /\ \A b \in lo..hi - 1 : q2[b] = q[b]
  /\ st2 \in StreamSet /\ st2.pos = st.pos /\ st2.tokens = st.tokens
  /\ st2.masked = st.masked \ {st.pos}

LEMMA CaseStop ==
  ASSUME NEW st, NEW q, NEW h, NEW lo, NEW hi, Text(st, q, h, lo, hi),
         NEW st2, NEW q2, CaseClosed(st, q, lo, hi, st2, q2)
  PROVE  Text(st2, q2, h, lo, hi - 1)
<1> SUFFICES ASSUME st.pos \in st.masked,
                    q[hi].kind = "default" => q[hi].last # "stmt",
                    \A b \in lo..hi - 1 : q2[b] = q[b],
                    st2 \in StreamSet, st2.pos = st.pos, st2.tokens = st.tokens,
                    st2.masked = st.masked \ {st.pos}
             PROVE  Text(st2, q2, h, lo, hi - 1)
  BY DEF CaseClosed
<1> DEFINE e == Before(st)[h[hi]]
<1>0. /\ st \in StreamSet /\ st.pos \in 1..Len(st.tokens) + 1
      /\ Before(st) # <<>> /\ Len(Before(st)) = h[hi]
      /\ Mate(q[hi], e)
      /\ hi \in lo..hi /\ hi \in Nat /\ lo \in Nat \ {0} /\ h[hi] \in Nat \ {0}
  BY TextIs
<1>1. /\ Inner(q[hi]) /\ Closes(st, h[hi], st.pos)
      /\ st.pos <= Len(st.tokens) /\ st.tokens[st.pos] \in Ender
      /\ \A i : \A height \in Nat :
           Closes(st, height, i) => (i = st.pos <=> height = h[hi])
  BY OwnEnd
<1>2. Segment(q, h, lo, hi) /\ Masking(st, q, h, lo, hi)
  BY DEF Text
<1>3. lo # hi
  BY <1>1, <1>2 DEF Segment, Inner, Bottoms
<1>4. /\ hi \in lo + 1..hi /\ lo <= hi - 1 /\ hi - 1 \in Nat /\ hi - 1 \in lo..hi - 1
      /\ \A b \in lo..hi - 1 : b \in lo..hi /\ b # hi
      /\ \A b \in lo..hi : b = hi \/ b \in lo..hi - 1
  BY <1>0, <1>3
<1>5. q[hi - 1].kind = "switch" /\ h[hi - 1] = h[hi]
  <2>1. /\ Inner(q[hi]) <=> q[hi - 1].kind = "switch"
        /\ h[hi] = h[hi - 1] + (IF Inner(q[hi]) THEN 0 ELSE 1)
    BY <1>2, <1>4 DEF Segment
  <2>2. h[hi - 1] \in Nat
    BY <1>4, TextIs
  <2> QED  BY <1>1, <2>1, <2>2
<1>6. Before(st2) = Before(st)
  BY DEF Before
<1>7. Matched(st2, q2, h, lo, hi - 1)
  <2>1. \A b \in lo..hi - 1 : Mate(q2[b], Before(st2)[h[b]])
    BY <1>6, TextIs
  <2> QED  BY <1>0, <1>5, <1>6, <2>1 DEF Matched
<1>8. Segment(q2, h, lo, hi - 1)
  <2>1. lo \in lo..hi - 1
    BY <1>0, <1>4
  <2>2. \A b \in lo + 1..hi - 1 : b \in lo..hi - 1 /\ b - 1 \in lo..hi - 1 /\ b \in lo + 1..hi
    BY <1>0, <1>4
  <2> QED  BY <1>0, <1>2, <1>4, <2>1, <2>2 DEF Segment, Inner
<1>9. \A height, i : Closes(st2, height, i) <=> Closes(st, height, i)
  BY DEF Closes
<1>10. ASSUME NEW b \in lo..hi - 1, Inner(q[b]) PROVE h[b] \in Nat /\ h[b] # h[hi]
  <2>1. h[b] \in Nat \ {0} /\ (h[b] < h[hi] \/ q[b].kind = "switch")
    BY TextIs
  <2> QED  BY <1>0, <1>10, <2>1 DEF Inner
<1>11. Masking(st2, q2, h, lo, hi - 1)
  <2>1. ASSUME NEW b \in lo..hi - 1, Inner(q2[b])
        PROVE  \E i \in st2.masked :
                 /\ Closes(st2, h[b], i)
                 /\ q2[b].kind = "default" /\ st2.tokens[i] = "case" =>
                      i = st2.pos /\ q2[b].last = "none"
    <3>1. q2[b] = q[b] /\ b \in lo..hi
      BY <1>4, <2>1
    <3>2. PICK i \in st.masked :
            /\ Closes(st, h[b], i)
            /\ q[b].kind = "default" /\ st.tokens[i] = "case" =>
                 i = st.pos /\ q[b].last = "none"
      BY <1>2, <2>1, <3>1 DEF Masking
    <3>3. i # st.pos
      BY <1>1, <1>10, <2>1, <3>1, <3>2
    <3> QED  BY <1>9, <3>1, <3>2, <3>3
  <2>2. ASSUME NEW i \in st2.masked
        PROVE  \E b \in lo..hi - 1 : Inner(q2[b]) /\ Closes(st2, h[b], i)
    <3>1. i \in st.masked /\ i # st.pos
      OBVIOUS
    <3>2. PICK b \in lo..hi : Inner(q[b]) /\ Closes(st, h[b], i)
      BY <1>2, <3>1 DEF Masking
    <3>3. b # hi
      BY <1>0, <1>1, <3>1, <3>2
    <3>4. b \in lo..hi - 1
      BY <1>4, <3>3
    <3> QED  BY <1>9, <3>2, <3>4
  <2> QED  BY <2>1, <2>2 DEF Masking
<1>12. Ended(st2, e)
  <2>1. e.kind = q[hi].kind /\ e.last = q[hi].last
    BY <1>0, <1>1 DEF Mate, Inner, Bottoms
  <2>2. q[hi].kind = "default" /\ st.tokens[st.pos] = "case" => q[hi].last = "none"
    <3>1. PICK i \in st.masked :
            /\ Closes(st, h[hi], i)
            /\ q[hi].kind = "default" /\ st.tokens[i] = "case" =>
                 i = st.pos /\ q[hi].last = "none"
      BY <1>0, <1>1, <1>2 DEF Masking
    <3>2. i = st.pos
      BY <1>0, <1>1, <3>1
    <3> QED  BY <3>1, <3>2
  <2> QED  BY <1>1, <2>1, <2>2 DEF Ended
<1> QED  BY <1>5, <1>6, <1>7, <1>8, <1>11, <1>12 DEF Text

(* A text begins.                                                           *)
LEMMA Fresh ==
  ASSUME NEW text \in Seq(Token), NEW q, NEW h, NEW b \in Nat \ {0},
         q[b].kind \in Bottoms, q[b].last = "none", h[b] = 1
  PROVE  Text(Stream(text), q, h, b, b)
<1> DEFINE st == Stream(text)
<1>1. st \in StreamSet /\ st.pos = 1 /\ st.tokens = text /\ st.masked = {}
  BY DEF Stream, StreamSet
<1>2. Before(st) = <<New("script")>> /\ Len(text) \in Nat
  BY <1>1, StackStep DEF Before
<1>3. /\ Before(st) # <<>> /\ Len(Before(st)) = 1
      /\ Before(st)[1].kind = "script" /\ Before(st)[1].last = "none"
  BY <1>2 DEF New
<1>4. \A c \in b..b : c = b
  OBVIOUS
<1> HIDE DEF st
<1>5. Matched(st, q, h, b, b)
  <2>1. Mate(q[b], Before(st)[1])
    BY <1>3 DEF Mate, Bottoms
  <2>2. 1 \in 1..Len(text) + 1
    BY <1>2
  <2> QED  BY <1>1, <1>3, <1>4, <2>1, <2>2 DEF Matched
<1>6. Segment(q, h, b, b)
  <2>1. b + 1..b = {}
    OBVIOUS
  <2> QED  BY <2>1 DEF Segment
<1>7. Masking(st, q, h, b, b)
  BY <1>1, <1>4 DEF Masking, Inner, Bottoms
<1>8. q[b].kind # "switch"
  BY DEF Bottoms
<1> QED  BY <1>5, <1>6, <1>7, <1>8 DEF Text, st

(* A text that waits is not changed by what happens further in.             *)
LEMMA Undisturbed ==
  ASSUME NEW st, NEW q, NEW h, NEW lo, NEW hi, Text(st, q, h, lo, hi),
         NEW q2, NEW h2, \A b \in lo..hi : q2[b] = q[b] /\ h2[b] = h[b]
  PROVE  Text(st, q2, h2, lo, hi)
<1>1. /\ hi \in lo..hi /\ lo \in lo..hi
      /\ \A b \in lo + 1..hi : b \in lo..hi /\ b - 1 \in lo..hi
  <2>1. lo \in Nat \ {0} /\ hi \in Nat /\ lo <= hi
    BY DEF Text, Segment
  <2> QED  BY <2>1
<1>2. Segment(q2, h2, lo, hi)
  BY <1>1 DEF Text, Segment, Inner
<1>3. Matched(st, q2, h2, lo, hi)
  BY <1>1 DEF Text, Matched
<1>4. Masking(st, q2, h2, lo, hi)
  BY DEF Text, Masking, Inner
<1> QED  BY <1>1, <1>2, <1>3, <1>4 DEF Text

-----------------------------------------------------------------------------
(* The invariant: the calls are those of the texts in progress, outermost   *)
(* first, the n-th from cut[n] on, and each text is read as the grammar     *)
(* reads it; an error about the structure was raised for a text that is     *)
(* none of the grammar's.                                                   *)
Texts(h, cut) ==
  /\ cut[1] = 1 /\ \A n \in 1..Len(importing) + 1 : cut[n] \in Nat \ {0}
  /\ \A m, n \in 1..Len(importing) + 1 : m <= n => cut[m] <= cut[n]
  /\ \A n \in 1..Len(importing) :
       Text(importing[n].ts, blocks, h, cut[n], cut[n + 1] - 1)
  /\ Text(ts, blocks, h, cut[Len(importing) + 1], Len(blocks))

Mirror == Parsing => \E h, cut : Texts(h, cut)
Verdict == /\ Parsing => why = "none"
           /\ why = "syntax" => ~Grammatical(ts.tokens)

LEMMA PeekIs ==
  ASSUME ts \in StreamSet, ts.pos \in 1..Len(ts.tokens) + 1, ts_peek # "eof"
  PROVE  /\ ts.pos <= Len(ts.tokens) /\ ts.pos \notin ts.masked
         /\ ts.tokens[ts.pos] = ts_peek /\ ts.pos \in 1..Len(ts.tokens)
<1>1. Len(ts.tokens) \in Nat /\ ts.pos \in Nat
  BY DEF StreamSet
<1>2. ~(ts.pos > Len(ts.tokens) \/ ts.pos \in ts.masked)
  BY DEF ts_peek
<1> QED  BY <1>1, <1>2 DEF ts_peek

LEMMA PeekEof ==
  ASSUME ts \in StreamSet, ts.pos \in 1..Len(ts.tokens) + 1,
         ts_peek = "eof", ts.pos \notin ts.masked
  PROVE  ts.pos > Len(ts.tokens)
<1>1. ts.tokens \in Seq(Token) /\ Len(ts.tokens) \in Nat /\ ts.pos \in Nat \ {0}
  BY DEF StreamSet
<1>2. ASSUME ts.pos <= Len(ts.tokens) PROVE FALSE
  <2>1. ts.pos \in 1..Len(ts.tokens) /\ ~(ts.pos > Len(ts.tokens))
    BY <1>1, <1>2
  <2>2. ts.tokens[ts.pos] \in Token /\ ts_peek = ts.tokens[ts.pos]
    BY <1>1, <2>1 DEF ts_peek
  <2>3. "eof" \notin Token
    BY DEF Token
  <2> QED  BY <2>2, <2>3
<1> QED  BY <1>1, <1>2

LEMMA LastCall ==
  ASSUME Types, Descent, Parsing
  PROVE  /\ Len(blocks) \in Nat \ {0} /\ Top = blocks[Len(blocks)]
         /\ Top \in Block /\ blocks # <<>> /\ Len(importing) \in Nat
<1>1. blocks \in Seq(Block) /\ blocks # <<>> /\ Top \in Block
  BY TopIs
<1>2. importing \in Seq(ImportType)
  BY DEF Types
<1> QED  BY <1>1, <1>2 DEF Top, Last

(* The calls after a statement has been noted, and one more made.           *)
LEMMA NoteIs ==
  ASSUME Types, Descent, Parsing, NEW last \in {"none", "break", "stmt"}
  PROVE  /\ Len(Note(last)) = Len(blocks)
         /\ \A b \in 1..Len(blocks) - 1 : Note(last)[b] = blocks[b]
         /\ Note(last)[Len(blocks)] = [Top EXCEPT !.last = last]
         /\ \A x \in Block :
              /\ Len(Append(Note(last), x)) = Len(blocks) + 1
              /\ \A b \in 1..Len(blocks) - 1 : Append(Note(last), x)[b] = blocks[b]
              /\ Append(Note(last), x)[Len(blocks)] = [Top EXCEPT !.last = last]
              /\ Append(Note(last), x)[Len(blocks) + 1] = x
<1>1. blocks \in Seq(Block) /\ Len(blocks) \in Nat \ {0} /\ Top = blocks[Len(blocks)]
  BY TopIs, LastCall
<1>2. /\ Len(Note(last)) = Len(blocks)
      /\ \A b \in 1..Len(blocks) - 1 : Note(last)[b] = blocks[b]
      /\ Note(last)[Len(blocks)] = [Top EXCEPT !.last = last]
  BY <1>1 DEF Note
<1>3. Note(last) \in Seq(Block)
  BY NoteKeeps
<1>4. Len(blocks) \in 1..Len(blocks)
      /\ \A b \in 1..Len(blocks) - 1 : b \in 1..Len(blocks)
  BY <1>1
<1>5. ASSUME NEW x \in Block
      PROVE  /\ Len(Append(Note(last), x)) = Len(Note(last)) + 1
             /\ Append(Note(last), x)[Len(Note(last)) + 1] = x
             /\ \A b \in 1..Len(Note(last)) : Append(Note(last), x)[b] = Note(last)[b]
  BY <1>3, TopAdded
<1> QED  BY <1>2, <1>4, <1>5

(* The text being read goes on; those that wait for it are as they were.    *)
LEMMA OwnMoves ==
  ASSUME Types, Descent, Parsing, NEW h, NEW cut, Texts(h, cut),
         UNCHANGED importing,
         \A b \in 1..cut[Len(importing) + 1] - 1 : blocks'[b] = blocks[b],
         NEW h2, \A b \in 1..cut[Len(importing) + 1] - 1 : h2[b] = h[b],
         Text(ts', blocks', h2, cut[Len(importing) + 1], Len(blocks'))
  PROVE  Mirror'
<1> DEFINE L == Len(importing)
<1>1. L \in Nat
  BY LastCall
<1>2. ASSUME NEW n \in 1..L
      PROVE  Text(importing[n].ts, blocks', h2, cut[n], cut[n + 1] - 1)
  <2>1. Text(importing[n].ts, blocks, h, cut[n], cut[n + 1] - 1)
    BY DEF Texts
  <2>2. cut[n + 1] <= cut[L + 1]
    <3>1. n + 1 \in 1..L + 1 /\ L + 1 \in 1..L + 1 /\ n + 1 <= L + 1
      BY <1>1
    <3> QED  BY <3>1 DEF Texts
  <2>3. /\ cut[n] \in Nat \ {0} /\ cut[n + 1] \in Nat \ {0}
        /\ cut[L + 1] \in Nat \ {0}
    <3>1. n \in 1..L + 1 /\ n + 1 \in 1..L + 1 /\ L + 1 \in 1..L + 1
      BY <1>1
    <3> QED  BY <3>1 DEF Texts
  <2>5. \A b \in cut[n]..cut[n + 1] - 1 : b \in 1..cut[L + 1] - 1
    BY <2>2, <2>3
  <2>6. \A b \in cut[n]..cut[n + 1] - 1 : blocks'[b] = blocks[b] /\ h2[b] = h[b]
    BY <2>5
  <2> QED  BY <2>1, <2>6, Undisturbed, Zenon
<1>3. Texts(h2, cut)'
  BY <1>2 DEF Texts
<1> QED  BY <1>3 DEF Mirror

LEMMA OwnIs ==
  ASSUME Types, Descent, Parsing, NEW h, NEW cut, Texts(h, cut), NEW lo,
         lo = cut[Len(importing) + 1]
  PROVE  /\ Text(ts, blocks, h, lo, Len(blocks))
         /\ ts \in StreamSet /\ ts.pos \in 1..Len(ts.tokens) + 1
         /\ lo \in Nat \ {0} /\ lo <= Len(blocks) /\ Len(blocks) \in Nat \ {0}
         /\ Top = blocks[Len(blocks)] /\ Top \in Block
         /\ \A b \in 1..lo - 1 : b \in 1..Len(blocks) - 1
         /\ \A b \in lo..Len(blocks) - 1 : b \in 1..Len(blocks) - 1
         /\ \A b \in 1..lo - 1 : b \in 1..Len(blocks) /\ b # Len(blocks) + 1
         /\ \A b \in lo..Len(blocks) : b \in 1..Len(blocks) /\ b # Len(blocks) + 1
<1>1. Text(ts, blocks, h, lo, Len(blocks))
  BY DEF Texts
<1>2. ts \in StreamSet /\ ts.pos \in 1..Len(ts.tokens) + 1
      /\ lo \in Nat \ {0} /\ lo <= Len(blocks)
  BY <1>1 DEF Text, Segment, Matched
<1> QED  BY <1>1, <1>2, LastCall

LEMMA LeaveIs ==
  ASSUME Types, Descent, Parsing
  PROVE  /\ Len(Front(blocks)) = Len(blocks) - 1
         /\ \A b \in 1..Len(blocks) - 1 : Front(blocks)[b] = blocks[b]
         /\ \A x : /\ Len(Append(Front(blocks), x)) = Len(blocks)
                   /\ \A b \in 1..Len(blocks) - 1 :
                        Append(Front(blocks), x)[b] = blocks[b]
                   /\ Append(Front(blocks), x)[Len(blocks)] = x
<1>1. /\ blocks \in Seq(Block) /\ Len(blocks) \in Nat \ {0}
      /\ Front(blocks) \in Seq(Block) /\ Len(Front(blocks)) = Len(blocks) - 1
      /\ \A b \in 1..Len(blocks) - 1 : Front(blocks)[b] = blocks[b]
  BY TopIs, LastCall, TopRemoved
<1> HIDE DEF Front
<1>2. \A f \in Seq(Block) : \A x :
        /\ Len(Append(f, x)) = Len(f) + 1 /\ Append(f, x)[Len(f) + 1] = x
        /\ \A b \in 1..Len(f) : Append(f, x)[b] = f[b]
  OBVIOUS
<1> QED  BY <1>1, <1>2

(* The ways the descent goes on within a text: a statement is noted, a      *)
(* block begins, ends or goes on.                                           *)
LEMMA NotesOn ==
  ASSUME Types, Descent, Parsing, NEW h, NEW cut, Texts(h, cut),
         NEW token \in {"stmt", "break"}, ts_peek = token, Top.kind # "switch",
         blocks' = Note(token), ts' = Past(ts), importing' = importing
  PROVE  Mirror'
<1> DEFINE lo == cut[Len(importing) + 1]
           N == Len(blocks)
<1>1. /\ Text(ts, blocks, h, lo, N) /\ ts \in StreamSet
      /\ ts.pos \in 1..Len(ts.tokens) + 1
      /\ N \in Nat \ {0} /\ Top = blocks[N] /\ Top \in Block
      /\ \A b \in 1..lo - 1 : b \in 1..N - 1
      /\ \A b \in lo..N - 1 : b \in 1..N - 1
  BY OwnIs
<1>2. /\ ts.pos <= Len(ts.tokens) /\ ts.pos \notin ts.masked
      /\ ts.tokens[ts.pos] = token
  BY <1>1, PeekIs
<1>3. /\ Len(blocks') = N /\ \A b \in 1..N - 1 : blocks'[b] = blocks[b]
      /\ blocks'[N] = [blocks[N] EXCEPT !.last = token]
  <2>1. token \in {"none", "break", "stmt"}
    OBVIOUS
  <2>2. /\ Len(Note(token)) = N /\ \A b \in 1..N - 1 : Note(token)[b] = blocks[b]
        /\ Note(token)[N] = [Top EXCEPT !.last = token]
    BY <2>1, NoteIs, Zenon
  <2> QED  BY <1>1, <2>2
<1> HIDE DEF lo, N
<1>4. /\ \A b \in lo..N - 1 : blocks'[b] = blocks[b]
      /\ blocks'[N] = [blocks[N] EXCEPT !.last =
                         IF ts.tokens[ts.pos] = "break" THEN "break" ELSE "stmt"]
      /\ ts.tokens[ts.pos] \in {"stmt", "import", "break"}
  BY <1>1, <1>2, <1>3
<1>5. Text(Past(ts), blocks', h, lo, N)
  BY <1>1, <1>2, <1>4, Touch
<1>6. \A b \in 1..lo - 1 : blocks'[b] = blocks[b]
  BY <1>1, <1>3
<1> QED  BY <1>3, <1>5, <1>6, OwnMoves DEF lo

LEMMA Begins ==
  ASSUME Types, Descent, Parsing, NEW h, NEW cut, Texts(h, cut),
         NEW token \in Opening, ts_peek = token, Top.kind # "switch",
         NEW x \in Block, x.kind = token, x.last = "none", x.has_default = FALSE,
         blocks' = Append(Note("stmt"), x), ts' = Past(ts), importing' = importing
  PROVE  Mirror'
<1> DEFINE lo == cut[Len(importing) + 1]
           N == Len(blocks)
           h2 == [b \in 1..N + 1 |-> IF b = N + 1 THEN h[N] + 1 ELSE h[b]]
<1>1. /\ Text(ts, blocks, h, lo, N) /\ ts \in StreamSet
      /\ ts.pos \in 1..Len(ts.tokens) + 1
      /\ N \in Nat \ {0} /\ Top = blocks[N] /\ Top \in Block
      /\ \A b \in 1..lo - 1 : b \in 1..N - 1 /\ b \in 1..N /\ b # N + 1
      /\ \A b \in lo..N - 1 : b \in 1..N - 1
      /\ \A b \in lo..N : b \in 1..N /\ b # N + 1
  BY OwnIs
<1>2. /\ ts.pos <= Len(ts.tokens) /\ ts.pos \notin ts.masked
      /\ ts.tokens[ts.pos] = token
  <2>1. ts_peek # "eof"
    BY DEF Opening
  <2> QED  BY <1>1, <2>1, PeekIs
<1>3. /\ Len(blocks') = N + 1 /\ \A b \in 1..N - 1 : blocks'[b] = blocks[b]
      /\ blocks'[N] = [blocks[N] EXCEPT !.last = "stmt"]
      /\ blocks'[N + 1] = x
  BY <1>1, NoteIs
<1> HIDE DEF lo, N
<1>4. h2[N + 1] = h[N] + 1 /\ \A b \in 1..N : b # N + 1 => h2[b] = h[b]
  BY <1>1
<1> HIDE DEF h2
<1>5. /\ \A b \in lo..N : h2[b] = h[b]
      /\ \A b \in lo..N - 1 : blocks'[b] = blocks[b]
      /\ \A b \in 1..lo - 1 : blocks'[b] = blocks[b] /\ h2[b] = h[b]
  BY <1>1, <1>3, <1>4
<1>6. Text(Past(ts), blocks', h2, lo, N + 1)
  <2>1. /\ blocks[N] \in Block /\ blocks[N].kind # "switch"
        /\ ts.tokens[ts.pos] \in Opening
        /\ blocks'[N + 1] \in Block /\ blocks'[N + 1].kind = ts.tokens[ts.pos]
        /\ blocks'[N + 1].last = "none" /\ blocks'[N + 1].has_default = FALSE
    BY <1>1, <1>2, <1>3
  <2>2. Opened(ts, blocks, h, lo, N, blocks', h2)
    BY <1>2, <1>3, <1>4, <1>5, <2>1 DEF Opened
  <2> QED  BY <1>1, <2>2, Push, Zenon
<1>7. Text(ts', blocks', h2, lo, Len(blocks'))
  BY <1>3, <1>6
<1> QED  BY <1>5, <1>7, OwnMoves DEF lo

LEMMA EndsIt ==
  ASSUME Types, Descent, Parsing, NEW h, NEW cut, Texts(h, cut),
         ts_peek = "fi", Top.kind \notin Bottoms, ~Inner(Top), Top.kind # "try",
         blocks' = Front(blocks), ts' = Past(ts), importing' = importing
  PROVE  Mirror'
<1> DEFINE lo == cut[Len(importing) + 1]
           N == Len(blocks)
<1>1. /\ Text(ts, blocks, h, lo, N) /\ ts \in StreamSet
      /\ ts.pos \in 1..Len(ts.tokens) + 1
      /\ N \in Nat \ {0} /\ Top = blocks[N] /\ Top \in Block
      /\ \A b \in 1..lo - 1 : b \in 1..N - 1
      /\ \A b \in lo..N - 1 : b \in 1..N - 1
  BY OwnIs
<1>2. /\ ts.pos <= Len(ts.tokens) /\ ts.pos \notin ts.masked
      /\ ts.tokens[ts.pos] = "fi"
  BY <1>1, PeekIs
<1>3. Len(blocks') = N - 1 /\ \A b \in 1..N - 1 : blocks'[b] = blocks[b]
  BY LeaveIs
<1> HIDE DEF lo, N
<1>4. /\ \A b \in lo..N - 1 : blocks'[b] = blocks[b]
      /\ \A b \in 1..lo - 1 : blocks'[b] = blocks[b]
  BY <1>1, <1>3
<1>5. Text(Past(ts), blocks', h, lo, N - 1)
  BY <1>1, <1>2, <1>4, Pop
<1> QED  BY <1>3, <1>4, <1>5, OwnMoves DEF lo

LEMMA TurnsOn ==
  ASSUME Types, Descent, Parsing, NEW h, NEW cut, Texts(h, cut), NEW kind,
         \/ Top.kind = "if" /\ ts_peek = "elseif" /\ kind = "if"
         \/ Top.kind = "if" /\ ts_peek = "else" /\ kind = "else"
         \/ Top.kind = "try" /\ ts_peek = "catch" /\ kind = "catch",
         Become(kind), ts' = Past(ts), importing' = importing
  PROVE  Mirror'
<1> DEFINE lo == cut[Len(importing) + 1]
           N == Len(blocks)
<1>1. /\ Text(ts, blocks, h, lo, N) /\ ts \in StreamSet
      /\ ts.pos \in 1..Len(ts.tokens) + 1
      /\ N \in Nat \ {0} /\ Top = blocks[N] /\ Top \in Block
      /\ \A b \in 1..lo - 1 : b \in 1..N - 1
      /\ \A b \in lo..N - 1 : b \in 1..N - 1
  BY OwnIs
<1>2. /\ ts.pos <= Len(ts.tokens) /\ ts.pos \notin ts.masked
      /\ ts.tokens[ts.pos] = ts_peek
  BY <1>1, PeekIs
<1>3. /\ Len(blocks') = N /\ \A b \in 1..N - 1 : blocks'[b] = blocks[b]
      /\ blocks'[N] = NewBlock(kind)
  BY LeaveIs DEF Become
<1> HIDE DEF lo, N
<1>4. /\ \A b \in lo..N - 1 : blocks'[b] = blocks[b]
      /\ \A b \in 1..lo - 1 : blocks'[b] = blocks[b]
      /\ blocks'[N].kind = kind /\ blocks'[N].last = "none"
      /\ \/ blocks[N].kind = "if" /\ ts.tokens[ts.pos] = "elseif" /\ kind = "if"
         \/ blocks[N].kind = "if" /\ ts.tokens[ts.pos] = "else" /\ kind = "else"
         \/ blocks[N].kind = "try" /\ ts.tokens[ts.pos] = "catch" /\ kind = "catch"
  <2>1. NewBlock(kind).kind = kind /\ NewBlock(kind).last = "none"
    BY DEF NewBlock
  <2>2. /\ \A b \in lo..N - 1 : blocks'[b] = blocks[b]
        /\ \A b \in 1..lo - 1 : blocks'[b] = blocks[b]
    BY <1>1, <1>3
  <2>3. blocks'[N].kind = kind /\ blocks'[N].last = "none"
    BY <1>3, <2>1, Zenon
  <2>4. ts.tokens[ts.pos] = ts_peek /\ blocks[N].kind = Top.kind
    BY <1>1, <1>2, Zenon
  <2>5. \/ blocks[N].kind = "if" /\ ts.tokens[ts.pos] = "elseif" /\ kind = "if"
        \/ blocks[N].kind = "if" /\ ts.tokens[ts.pos] = "else" /\ kind = "else"
        \/ blocks[N].kind = "try" /\ ts.tokens[ts.pos] = "catch" /\ kind = "catch"
    BY <2>4
  <2> QED  BY <2>2, <2>3, <2>5
<1>5. Text(Past(ts), blocks', h, lo, N)
  BY <1>1, <1>2, <1>4, Turn
<1> QED  BY <1>3, <1>4, <1>5, OwnMoves DEF lo

(* Blocks and functions.                                                    *)
LEMMA BlocksMirrored ==
  ASSUME Types, Descent, Parsing, Mirror, Blocks, Parsing'
  PROVE  Mirror'
<1>0. PICK h, cut : Texts(h, cut)
  BY DEF Mirror
<1>1. ASSUME NEW token \in {"stmt", "break"}, Simple(token) PROVE Mirror'
  <2>1. /\ ts_peek = token /\ Top.kind # "switch" /\ blocks' = Note(token)
        /\ ts' = Past(ts) /\ importing' = importing
    BY <1>1 DEF Simple, Statement, ts_advance, Unread, Past
  <2> QED  BY <1>0, <2>1, NotesOn
<1>2. ASSUME NEW token \in {"block", "if", "try"}, Open(token) PROVE Mirror'
  <2>1. /\ ts_peek = token /\ Top.kind # "switch"
        /\ blocks' = Append(Note("stmt"), NewBlock(token))
        /\ ts' = Past(ts) /\ importing' = importing
    BY <1>2 DEF Open, Enter, Statement, ts_advance, Unread, Past
  <2>2. token \in Opening /\ token \in Kind
    BY DEF Opening, Kind
  <2>3. /\ NewBlock(token) \in Block /\ NewBlock(token).kind = token
        /\ NewBlock(token).last = "none" /\ NewBlock(token).has_default = FALSE
    BY <2>2, NewIs DEF NewBlock
  <2> QED  BY <1>0, <2>1, <2>2, <2>3, Begins
<1>3. ASSUME Close PROVE Mirror'
  <2>1. /\ ts_peek = "fi" /\ Top.kind \notin Bottoms /\ ~Inner(Top)
        /\ Top.kind # "try" /\ blocks' = Front(blocks)
        /\ ts' = Past(ts) /\ importing' = importing
    BY <1>3 DEF Close, Leave, ts_advance, Unread, Past, Bottoms, Inner
  <2> QED  BY <1>0, <2>1, EndsIt
<1>4. ASSUME Continue PROVE Mirror'
  <2>1. PICK kind :
          /\ \/ Top.kind = "if" /\ ts_peek = "elseif" /\ kind = "if"
             \/ Top.kind = "if" /\ ts_peek = "else" /\ kind = "else"
             \/ Top.kind = "try" /\ ts_peek = "catch" /\ kind = "catch"
          /\ Become(kind) /\ ts' = Past(ts) /\ importing' = importing
    BY <1>4 DEF Continue, In, ts_advance, Unread, Past
  <2> QED  BY <1>0, <2>1, TurnsOn
<1>5. ~(Unclosed \/ Stray \/ Malformed)
  BY DEF Unclosed, Stray, Malformed, Error, Parsing
<1> QED  BY <1>1, <1>2, <1>3, <1>4, <1>5 DEF Blocks

LEMMA FunctionsMirrored ==
  ASSUME Types, Descent, Parsing, Mirror, Functions, Parsing'
  PROVE  Mirror'
<1>0. PICK h, cut : Texts(h, cut)
  BY DEF Mirror
<1>1. ASSUME Register PROVE Mirror'
  <2>1. /\ ts_peek = "fi" /\ Top.kind \notin Bottoms /\ ~Inner(Top)
        /\ Top.kind # "try" /\ blocks' = Front(blocks)
        /\ ts' = Past(ts) /\ importing' = importing
    BY <1>1 DEF Register, In, Leave, ts_advance, Past, Bottoms, Inner
  <2> QED  BY <1>0, <2>1, EndsIt
<1>2. ASSUME NEW token \in {"function", "global function"}, NEW f \in FuncName,
             Define(token, f)
      PROVE  Mirror'
  <2> DEFINE x == [NewBlock(token) EXCEPT !.name = f]
  <2>1. /\ ts_peek = token /\ Top.kind # "switch"
        /\ blocks' = Append(Note("stmt"), x)
        /\ ts' = Past(ts) /\ importing' = importing
    BY <1>2 DEF Define, Enter, Statement, ts_advance, Unread, Past
  <2>2. token \in Opening /\ token \in Kind
    BY DEF Opening, Kind
  <2>3. x \in Block /\ x.kind = token /\ x.last = "none" /\ x.has_default = FALSE
    BY <2>2 DEF NewBlock, Block
  <2> HIDE DEF x
  <2> QED  BY <1>0, <2>1, <2>2, <2>3, Begins
<1>3. ASSUME NEW token, NEW f, Redefine(token, f) PROVE FALSE
  BY <1>3 DEF Redefine, Error, Parsing
<1> QED  BY <1>1, <1>2, <1>3 DEF Functions

(* Switches. The scan for the end of a case finds the first end there is at *)
(* the level of the switch.                                                 *)
LEMMA ScanFinds ==
  ASSUME Types, Descent, Parsing, NEW h, NEW cut, Texts(h, cut),
         Top.kind = "switch", ts_peek \in {"case", "default"}
  PROVE  /\ \A b \in Boundaries(ts.pos + 1) :
              (\A i \in Boundaries(ts.pos + 1) : b <= i) =>
                Closes(Past(ts), h[Len(blocks)], b)
         /\ Boundaries(ts.pos + 1) = {} =>
              \A j \in ts.pos + 1..Len(ts.tokens) :
                ~AtEnd(ts.tokens, h[Len(blocks)], j)
<1> DEFINE lo == cut[Len(importing) + 1]
           N == Len(blocks)
<1>1. /\ Text(ts, blocks, h, lo, N) /\ ts \in StreamSet
      /\ ts.pos \in 1..Len(ts.tokens) + 1 /\ Top = blocks[N]
  BY OwnIs
<1>2. /\ ts.pos <= Len(ts.tokens) /\ ts.pos \notin ts.masked
      /\ ts.tokens[ts.pos] = ts_peek /\ ts.pos \in 1..Len(ts.tokens)
  BY <1>1, PeekIs
<1> HIDE DEF lo, N
<1>3. /\ h[N] \in Nat \ {0} /\ h[N] = 1 + Level(ts.tokens, ts.pos - 1)
      /\ Len(ts.tokens) \in Nat
  BY <1>1, TextIs
<1>4. Level(ts.tokens, (ts.pos + 1) - 1) = h[N] - 1
  <2>1. Rise(ts.tokens[ts.pos]) = 0
    BY <1>2 DEF Rise, Openers
  <2>2. ts.pos \in Nat \ {0} /\ ts.pos - 1 \in Nat /\ (ts.pos + 1) - 1 = ts.pos
    BY <1>2, <1>3
  <2>3. /\ Level(ts.tokens, ts.pos) = Level(ts.tokens, ts.pos - 1) + 0
        /\ Level(ts.tokens, ts.pos - 1) \in Int
    BY <2>1, <2>2, LevelStep
  <2> QED  BY <1>3, <2>2, <2>3
<1>5. \A i \in ts.masked : /\ i \in ts.pos + 1..Len(ts.tokens)
                           /\ Level(ts.tokens, i - 1) < h[N] - 1
  BY <1>1, <1>2, MasksBeyond
<1>6. ts.pos + 1 \in Nat \ {0} /\ h[N] \in Nat
  BY <1>2, <1>3
<1>7. /\ \A b \in Boundaries(ts.pos + 1) :
           (\A i \in Boundaries(ts.pos + 1) : b <= i) =>
             /\ b \in ts.pos + 1..Len(ts.tokens) /\ b \notin ts.masked
             /\ AtEnd(ts.tokens, h[N], b)
             /\ \A j \in ts.pos + 1..b - 1 : ~AtEnd(ts.tokens, h[N], j)
      /\ Boundaries(ts.pos + 1) = {} =>
           \A j \in ts.pos + 1..Len(ts.tokens) : ~AtEnd(ts.tokens, h[N], j)
  <2>1. FurtherOut(ts.pos + 1, h[N])
    BY <1>4, <1>5, <1>6, Zenon DEF FurtherOut
  <2> QED  BY <1>1, <2>1, Scan, Zenon
<1>8. Past(ts).pos = ts.pos + 1 /\ Past(ts).tokens = ts.tokens
  BY <1>1, <1>2, Advances
<1> QED  BY <1>7, <1>8 DEF Closes, N

LEMMA CaseMirrored ==
  ASSUME Types, Descent, Parsing, NEW h, NEW cut, Texts(h, cut),
         Top.kind = "switch", NEW kind \in {"case", "default"}, ts_peek = kind,
         NEW b \in DOMAIN ts.tokens, Body(kind, b),
         kind = "default" => ~Top.has_default /\ ~LateCase(b),
         importing' = importing, ts' \in StreamSet
  PROVE  Mirror'
<1> DEFINE lo == cut[Len(importing) + 1]
           N == Len(blocks)
           h2 == [c \in 1..N + 1 |-> IF c = N + 1 THEN h[N] ELSE h[c]]
           marked == [blocks EXCEPT ![N].has_default = @ \/ kind = "default"]
<1>1. /\ Text(ts, blocks, h, lo, N) /\ ts \in StreamSet
      /\ ts.pos \in 1..Len(ts.tokens) + 1
      /\ N \in Nat \ {0} /\ Top = blocks[N] /\ Top \in Block
      /\ \A c \in 1..lo - 1 : c \in 1..N - 1 /\ c \in 1..N /\ c # N + 1
      /\ \A c \in lo..N - 1 : c \in 1..N - 1
      /\ \A c \in lo..N : c \in 1..N /\ c # N + 1
  BY OwnIs
<1>2. /\ ts.pos <= Len(ts.tokens) /\ ts.pos \notin ts.masked
      /\ ts.tokens[ts.pos] = kind
  BY <1>1, PeekIs
<1>3. Closes(Past(ts), h[N], b)
  BY ScanFinds DEF Body
<1>4. /\ ts'.pos = ts.pos + 1 /\ ts'.tokens = ts.tokens
      /\ ts'.masked = ts.masked \cup {b}
  BY <1>1 DEF Body, StreamSet
<1>5. /\ Len(blocks') = N + 1 /\ \A c \in 1..N - 1 : blocks'[c] = blocks[c]
      /\ blocks'[N].kind = "switch"
      /\ blocks'[N].has_default = (blocks[N].has_default \/ kind = "default")
      /\ blocks'[N + 1].kind = kind /\ blocks'[N + 1].last = "none"
  <2>1. blocks \in Seq(Block) /\ blocks[N].kind = "switch"
    BY <1>1, TopIs
  <2>2. /\ marked \in Seq([kind : Kind, last : {"none", "break", "stmt"},
                           has_default : BOOLEAN, name : FuncName \cup {NoName}])
        /\ Len(marked) = N
        /\ \A c \in 1..N - 1 : marked[c] = blocks[c]
        /\ marked[N] = [blocks[N] EXCEPT !.has_default = @ \/ kind = "default"]
    <3>1. blocks[N].has_default \in BOOLEAN
      BY <1>1 DEF Block
    <3>2. [blocks[N] EXCEPT !.has_default = @ \/ kind = "default"] \in Block
      BY <1>1, <3>1 DEF Block
    <3>3. marked = [blocks EXCEPT ![N] =
                      [blocks[N] EXCEPT !.has_default = @ \/ kind = "default"]]
      BY <1>1
    <3> QED  BY <1>1, <2>1, <3>2, <3>3 DEF Block
  <2>3. blocks' = Append(marked, NewBlock(kind))
    BY DEF Body
  <2> HIDE DEF marked
  <2>4. /\ Len(Append(marked, NewBlock(kind))) = N + 1
        /\ \A c \in 1..N : Append(marked, NewBlock(kind))[c] = marked[c]
        /\ Append(marked, NewBlock(kind))[N + 1] = NewBlock(kind)
    BY <1>1, <2>2
  <2>5. /\ marked[N].kind = "switch"
        /\ marked[N].has_default = (blocks[N].has_default \/ kind = "default")
    BY <1>1, <2>1, <2>2 DEF Block
  <2>6. /\ NewBlock(kind).kind = kind /\ NewBlock(kind).last = "none"
        /\ N \in 1..N /\ \A c \in 1..N - 1 : c \in 1..N
    BY <1>1 DEF NewBlock
  <2> QED  BY <2>2, <2>3, <2>4, <2>5, <2>6
<1> HIDE DEF lo, N
<1>6. h2[N + 1] = h[N] /\ \A c \in 1..N : c # N + 1 => h2[c] = h[c]
  BY <1>1
<1> HIDE DEF h2
<1>7. /\ \A c \in lo..N : h2[c] = h[c]
      /\ \A c \in lo..N - 1 : blocks'[c] = blocks[c]
      /\ \A c \in 1..lo - 1 : blocks'[c] = blocks[c] /\ h2[c] = h[c]
  BY <1>1, <1>5, <1>6
<1>8. kind = "default" => /\ ~blocks[N].has_default
                          /\ b = ts.pos + 1 \/ ts.tokens[b] # "case"
  BY <1>1 DEF LateCase
<1>9. Text(ts', blocks', h2, lo, N + 1)
  <2>1. blocks[N].kind = "switch"
    BY <1>1
  <2>2. CaseOpened(ts, blocks, h, lo, N, kind, b, blocks', h2)
    BY <1>2, <1>3, <1>5, <1>6, <1>7, <1>8, <2>1 DEF CaseOpened
  <2> QED  BY <1>1, <1>4, <2>2, CaseStart, Zenon
<1>10. Text(ts', blocks', h2, lo, Len(blocks'))
  BY <1>5, <1>9
<1> QED  BY <1>7, <1>10, OwnMoves DEF lo

LEMMA CaseLeft ==
  ASSUME Types, Descent, Parsing, NEW h, NEW cut, Texts(h, cut),
         EndCase, ts' \in StreamSet
  PROVE  Mirror'
<1> DEFINE lo == cut[Len(importing) + 1]
           N == Len(blocks)
<1>1. /\ Text(ts, blocks, h, lo, N) /\ ts \in StreamSet
      /\ N \in Nat \ {0} /\ Top = blocks[N]
      /\ \A b \in 1..lo - 1 : b \in 1..N - 1
      /\ \A b \in lo..N - 1 : b \in 1..N - 1
  BY OwnIs
<1>2. /\ ts.pos \in ts.masked /\ importing' = importing
      /\ Top.kind = "default" => Top.last \in {"none", "break"}
      /\ ts' = [ts EXCEPT !.masked = @ \ {ts.pos}] /\ blocks' = Front(blocks)
    BY DEF EndCase, Leave, Unread, In, Parsing
<1>3. Len(blocks') = N - 1 /\ \A b \in 1..N - 1 : blocks'[b] = blocks[b]
  BY <1>2, LeaveIs
<1> HIDE DEF lo, N
<1>4. /\ \A b \in lo..N - 1 : blocks'[b] = blocks[b]
      /\ \A b \in 1..lo - 1 : blocks'[b] = blocks[b]
      /\ blocks[N].kind = "default" => blocks[N].last # "stmt"
  BY <1>1, <1>2, <1>3
<1>5. ts'.pos = ts.pos /\ ts'.tokens = ts.tokens /\ ts'.masked = ts.masked \ {ts.pos}
  BY <1>1, <1>2 DEF StreamSet
<1>6. Text(ts', blocks', h, lo, N - 1)
  <2>1. CaseClosed(ts, blocks, lo, N, ts', blocks')
    BY <1>2, <1>4, <1>5 DEF CaseClosed
  <2> QED  BY <1>1, <2>1, CaseStop, Zenon
<1>7. Text(ts', blocks', h, lo, Len(blocks'))
  BY <1>3, <1>6
<1> QED  BY <1>2, <1>4, <1>7, OwnMoves DEF lo

LEMMA SwitchesMirrored ==
  ASSUME Types, Descent, Parsing, Mirror, Switches, Parsing', Types'
  PROVE  Mirror'
<1>0. PICK h, cut : Texts(h, cut)
  BY DEF Mirror
<1>t. ts' \in StreamSet
  BY DEF Types
<1>1. ASSUME Open("switch") PROVE Mirror'
  <2>1. /\ ts_peek = "switch" /\ Top.kind # "switch"
        /\ blocks' = Append(Note("stmt"), NewBlock("switch"))
        /\ ts' = Past(ts) /\ importing' = importing
    BY <1>1 DEF Open, Enter, Statement, ts_advance, Unread, Past
  <2>2. "switch" \in Opening /\ "switch" \in Kind
    BY DEF Opening, Kind
  <2>3. /\ NewBlock("switch") \in Block /\ NewBlock("switch").kind = "switch"
        /\ NewBlock("switch").last = "none" /\ NewBlock("switch").has_default = FALSE
    BY <2>2, NewIs DEF NewBlock
  <2> QED  BY <1>0, <2>1, <2>2, <2>3, Begins
<1>2. ASSUME parse_case PROVE Mirror'
  <2>1. PICK b \in DOMAIN ts.tokens :
          /\ Body("case", b) /\ Top.kind = "switch" /\ ts_peek = "case"
          /\ importing' = importing
    BY <1>2 DEF parse_case, In, Unread
  <2> QED  BY <1>0, <1>t, <2>1, CaseMirrored
<1>3. ASSUME parse_default PROVE Mirror'
  <2>1. PICK b \in DOMAIN ts.tokens :
          /\ Body("default", b) /\ Top.kind = "switch" /\ ts_peek = "default"
          /\ ~Top.has_default /\ ~LateCase(b) /\ importing' = importing
    BY <1>3 DEF parse_default, In, Unread
  <2> QED  BY <1>0, <1>t, <2>1, CaseMirrored
<1>4. ASSUME EndCase PROVE Mirror'
  BY <1>0, <1>t, <1>4, CaseLeft
<1>5. ASSUME EndSwitch PROVE Mirror'
  <2>1. /\ ts_peek = "fi" /\ Top.kind \notin Bottoms /\ ~Inner(Top)
        /\ Top.kind # "try" /\ blocks' = Front(blocks)
        /\ ts' = Past(ts) /\ importing' = importing
    BY <1>5 DEF EndSwitch, In, Leave, ts_advance, Unread, Past, Bottoms, Inner
  <2> QED  BY <1>0, <2>1, EndsIt
<1>6. ~(BadSwitch \/ BadDefault \/ MissingFi)
  BY DEF BadSwitch, BadDefault, MissingFi, Error, Parsing
<1> QED  BY <1>1, <1>2, <1>3, <1>4, <1>5, <1>6 DEF Switches

(* Modules: a text begins, or is over and the one that waits for it goes on. *)
LEMMA ModuleRead ==
  ASSUME Types, Descent, Parsing, NEW h, NEW cut, Texts(h, cut), Import
  PROVE  Mirror'
<1> DEFINE lo == cut[Len(importing) + 1]
           N == Len(blocks)
           L == Len(importing)
           entry == [ts |-> Past(ts), prefix |-> current_import_prefix]
<1>1. /\ Text(ts, blocks, h, lo, N) /\ ts \in StreamSet
      /\ ts.pos \in 1..Len(ts.tokens) + 1
      /\ N \in Nat \ {0} /\ Top = blocks[N] /\ Top \in Block
      /\ lo \in Nat \ {0} /\ lo <= N
      /\ \A b \in 1..lo - 1 : b \in 1..N - 1 /\ b \in 1..N /\ b # N + 1
      /\ \A b \in lo..N - 1 : b \in 1..N - 1
      /\ \A b \in lo..N : b \in 1..N /\ b # N + 1
  BY OwnIs
<1>2. /\ ts_peek = "import" /\ Top.kind # "switch"
      /\ blocks' = Append(Note("stmt"), NewBlock("module"))
      /\ importing' = Append(importing, entry)
      /\ \E text \in Modules : ts' = Stream(text)
  BY DEF Import, Statement, Enter, Past
<1>3. /\ ts.pos <= Len(ts.tokens) /\ ts.pos \notin ts.masked
      /\ ts.tokens[ts.pos] = "import"
  BY <1>1, <1>2, PeekIs
<1>4. /\ Len(blocks') = N + 1 /\ \A b \in 1..N - 1 : blocks'[b] = blocks[b]
      /\ blocks'[N] = [blocks[N] EXCEPT !.last = "stmt"]
      /\ blocks'[N + 1] = NewBlock("module")
  <2>1. NewBlock("module") \in Block
    BY NewIs DEF Kind
  <2> QED  BY <1>1, <1>2, <2>1, NoteIs
<1>5. L \in Nat /\ importing \in Seq(ImportType)
  BY LastCall DEF Types
<1>6. /\ Len(importing') = L + 1
      /\ \A n \in 1..L : importing'[n] = importing[n]
      /\ importing'[L + 1].ts = Past(ts)
  <2>1. \A e : /\ Len(Append(importing, e)) = L + 1
               /\ \A n \in 1..L : Append(importing, e)[n] = importing[n]
               /\ Append(importing, e)[L + 1] = e
    BY <1>5
  <2>2. entry.ts = Past(ts)
    OBVIOUS
  <2> QED  BY <1>2, <2>1, <2>2
<1>7. PICK h2 : h2[N + 1] = 1 /\ \A b \in 1..N : b # N + 1 => h2[b] = h[b]
  <2> DEFINE f == [b \in 1..N + 1 |-> IF b = N + 1 THEN 1 ELSE h[b]]
  <2>1. f[N + 1] = 1 /\ \A b \in 1..N : b # N + 1 => f[b] = h[b]
    BY <1>1
  <2> QED  BY <2>1
<1>8. PICK cut2 : cut2[L + 2] = N + 1 /\ \A n \in 1..L + 1 : cut2[n] = cut[n]
  <2> DEFINE f == [n \in 1..L + 2 |-> IF n = L + 2 THEN N + 1 ELSE cut[n]]
  <2>1. f[L + 2] = N + 1 /\ \A n \in 1..L + 1 : f[n] = cut[n]
    BY <1>5
  <2> QED  BY <2>1
<1>9. /\ lo = cut[L + 1] /\ cut[1] = 1
      /\ \A n \in 1..L + 1 : cut[n] \in Nat \ {0}
      /\ \A m, n \in 1..L + 1 : m <= n => cut[m] <= cut[n]
      /\ \A n \in 1..L : Text(importing[n].ts, blocks, h, cut[n], cut[n + 1] - 1)
  BY DEF Texts
<1> HIDE DEF lo, N, L, entry
<1>10. Text(Past(ts), blocks', h2, lo, N)
  <2>1. /\ \A b \in lo..N - 1 : blocks'[b] = blocks[b]
        /\ blocks'[N] = [blocks[N] EXCEPT !.last =
                           IF ts.tokens[ts.pos] = "break" THEN "break" ELSE "stmt"]
        /\ ts.tokens[ts.pos] \in {"stmt", "import", "break"}
    BY <1>1, <1>3, <1>4
  <2>2. Text(Past(ts), blocks', h, lo, N)
    <3>1. blocks[N] \in Block /\ blocks[N].kind # "switch"
      BY <1>1, <1>2
    <3> QED  BY <1>1, <1>3, <2>1, <3>1, Touch, Zenon
  <2>3. \A b \in lo..N : blocks'[b] = blocks'[b] /\ h2[b] = h[b]
    BY <1>1, <1>7
  <2> QED  BY <2>2, <2>3, Undisturbed, Zenon
<1>11. Text(ts', blocks', h2, N + 1, N + 1)
  <2>1. PICK text \in Modules : ts' = Stream(text)
    BY <1>2
  <2>2. text \in Seq(Token)
    BY TextsAssumption
  <2>3. /\ blocks'[N + 1].kind \in Bottoms /\ blocks'[N + 1].last = "none"
        /\ h2[N + 1] = 1 /\ N + 1 \in Nat \ {0}
    BY <1>1, <1>4, <1>7 DEF NewBlock, Bottoms
  <2> QED  BY <2>1, <2>2, <2>3, Fresh
<1>12. ASSUME NEW n \in 1..L
       PROVE  Text(importing[n].ts, blocks', h2, cut[n], cut[n + 1] - 1)
  <2>1. Text(importing[n].ts, blocks, h, cut[n], cut[n + 1] - 1)
    BY <1>9
  <2>2. cut[n + 1] <= lo /\ cut[n] \in Nat \ {0} /\ cut[n + 1] \in Nat \ {0}
    <3>1. /\ n + 1 \in 1..L + 1 /\ L + 1 \in 1..L + 1 /\ n + 1 <= L + 1
          /\ n \in 1..L + 1
      BY <1>5
    <3> QED  BY <1>9, <3>1
  <2>3. \A b \in cut[n]..cut[n + 1] - 1 : b \in 1..lo - 1
    BY <1>1, <2>2
  <2>4. \A b \in cut[n]..cut[n + 1] - 1 : blocks'[b] = blocks[b] /\ h2[b] = h[b]
    BY <1>1, <1>4, <1>7, <2>3
  <2> QED  BY <2>1, <2>4, Undisturbed, Zenon
<1>13. \A m, n \in 1..L + 2 : m <= n => cut2[m] <= cut2[n]
  <2> SUFFICES ASSUME NEW m \in 1..L + 2, NEW n \in 1..L + 2, m <= n
               PROVE  cut2[m] <= cut2[n]
    OBVIOUS
  <2>1. CASE n \in 1..L + 1
    <3>1. m \in 1..L + 1
      BY <1>5, <2>1
    <3> QED  BY <1>8, <1>9, <2>1, <3>1
  <2>2. CASE n = L + 2 /\ m = L + 2
    BY <1>1, <1>8, <2>2
  <2>3. CASE n = L + 2 /\ m \in 1..L + 1
    <3>1. L + 1 \in 1..L + 1 /\ m <= L + 1
      BY <1>5, <2>3
    <3>2. cut[m] <= lo /\ cut2[m] = cut[m] /\ cut2[n] = N + 1
      BY <1>8, <1>9, <2>3, <3>1
    <3>3. cut[m] \in Nat
      BY <1>9, <2>3
    <3> QED  BY <1>1, <3>2, <3>3
  <2> QED  BY <1>5, <2>1, <2>2, <2>3
<1>15. \A n \in 1..L + 2 : cut2[n] \in Nat \ {0}
  <2> SUFFICES ASSUME NEW n \in 1..L + 2 PROVE cut2[n] \in Nat \ {0}
    OBVIOUS
  <2>1. n \in 1..L + 1 \/ n = L + 2
    BY <1>5
  <2>2. N + 1 \in Nat \ {0}
    BY <1>1
  <2> QED  BY <1>8, <1>9, <2>1, <2>2
<1>14. Texts(h2, cut2)'
  <2>1. /\ 1 \in 1..L + 1 /\ L + 1 \in 1..L + 1 /\ L + 1 + 1 = L + 2
        /\ \A n \in 1..L : n \in 1..L + 1 /\ n + 1 \in 1..L + 1
    BY <1>5
  <2>2. cut2[1] = 1
    BY <1>8, <1>9, <2>1
  <2>3. \A n \in 1..L + 1 :
          Text(importing'[n].ts, blocks', h2, cut2[n], cut2[n + 1] - 1)
    <3> SUFFICES ASSUME NEW n \in 1..L + 1
                 PROVE  Text(importing'[n].ts, blocks', h2, cut2[n], cut2[n + 1] - 1)
      OBVIOUS
    <3>1. CASE n \in 1..L
      BY <1>6, <1>8, <1>12, <2>1, <3>1
    <3>2. CASE n = L + 1
      <4>1. cut2[n + 1] - 1 = N /\ cut2[n] = lo
        <5>1. n + 1 = L + 2 /\ n \in 1..L + 1
          BY <1>5, <3>2
        <5>2. cut2[n + 1] = N + 1 /\ cut2[n] = cut[n]
          BY <1>8, <5>1
        <5> QED  BY <1>1, <1>9, <3>2, <5>2
      <4> QED  BY <1>6, <1>10, <3>2, <4>1
    <3> QED  BY <1>5, <3>1, <3>2
  <2>4. Text(ts', blocks', h2, cut2[L + 2], Len(blocks'))
    BY <1>4, <1>8, <1>11
  <2>5. Len(importing') + 1 = L + 2
    BY <1>5, <1>6
  <2>6. /\ \A n \in 1..Len(importing') + 1 : cut2[n] \in Nat \ {0}
        /\ \A m, n \in 1..Len(importing') + 1 : m <= n => cut2[m] <= cut2[n]
    BY <1>13, <1>15, <2>5
  <2>7. \A n \in 1..Len(importing') :
          Text(importing'[n].ts, blocks', h2, cut2[n], cut2[n + 1] - 1)
    BY <1>6, <2>3
  <2>8. Text(ts', blocks', h2, cut2[Len(importing') + 1], Len(blocks'))
    BY <2>4, <2>5
  <2> QED  BY <2>2, <2>6, <2>7, <2>8 DEF Texts
<1> QED  BY <1>14 DEF Mirror

(* The first call of a text is read when it is the last one.                *)
LEMMA BottomRead ==
  ASSUME Types, Descent, Parsing, NEW h, NEW cut, Texts(h, cut), NEW lo,
         lo = cut[Len(importing) + 1], Top.kind \in Bottoms
  PROVE  lo = Len(blocks) /\ h[Len(blocks)] = 1
<1>1. /\ Text(ts, blocks, h, lo, Len(blocks)) /\ Top = blocks[Len(blocks)]
      /\ Len(blocks) \in Nat \ {0} /\ lo \in Nat \ {0} /\ lo <= Len(blocks)
  BY OwnIs
<1>2. Segment(blocks, h, lo, Len(blocks))
  BY <1>1 DEF Text
<1>3. Len(blocks) \notin lo + 1..Len(blocks) /\ h[lo] = 1
  BY <1>1, <1>2 DEF Segment
<1> QED  BY <1>1, <1>3

LEMMA ModuleLeft ==
  ASSUME Types, Descent, Parsing, NEW h, NEW cut, Texts(h, cut), EndModule
  PROVE  Mirror'
<1> DEFINE N == Len(blocks)
           L == Len(importing)
<1>1. /\ Top.kind = "module" /\ blocks' = Front(blocks)
      /\ importing' = Front(importing) /\ ts' = Last(importing).ts
  BY DEF EndModule, In, Leave
<1>2. N = cut[L + 1] /\ N \in Nat \ {0} /\ L \in Nat /\ Top = blocks[N]
  BY <1>1, BottomRead, LastCall DEF Bottoms
<1>3. L > 0
  <2>1. SUFFICES ASSUME L = 0 PROVE FALSE
    BY <1>2
  <2>2. N = 1
    BY <1>2, <2>1 DEF Texts
  <2>3. classes[1] = "script" /\ classes[1] = Class(Top.kind)
    <3>1. Len(classes) = 1 /\ \A b \in 1..Len(blocks) : classes[b] = Class(blocks[b].kind)
      BY <2>2, TopIs, ClassesType DEF classes
    <3> QED  BY <1>2, <2>2, <3>1 DEF Descent, Bottom
  <2> QED  BY <1>1, <2>3 DEF Class
<1>4. importing \in Seq(ImportType) /\ importing # <<>>
  BY <1>3 DEF Types
<1>5. /\ Len(importing') = L - 1 /\ ts' = importing[L].ts
      /\ \A n \in 1..L - 1 : importing'[n] = importing[n]
  BY <1>1, <1>4, TopRemoved
<1>6. Len(blocks') = N - 1 /\ \A b \in 1..N - 1 : blocks'[b] = blocks[b]
  BY <1>1, LeaveIs
<1> HIDE DEF N, L
<1>7. /\ cut[1] = 1 /\ \A n \in 1..L + 1 : cut[n] \in Nat \ {0}
      /\ \A m, n \in 1..L + 1 : m <= n => cut[m] <= cut[n]
      /\ \A n \in 1..L : Text(importing[n].ts, blocks, h, cut[n], cut[n + 1] - 1)
  BY DEF Texts, L
<1>8. ASSUME NEW n \in 1..L
      PROVE  Text(importing[n].ts, blocks', h, cut[n], cut[n + 1] - 1)
  <2>1. Text(importing[n].ts, blocks, h, cut[n], cut[n + 1] - 1)
    BY <1>7
  <2>2. cut[n + 1] <= N /\ cut[n] \in Nat \ {0} /\ cut[n + 1] \in Nat \ {0}
    <3>1. /\ n + 1 \in 1..L + 1 /\ L + 1 \in 1..L + 1 /\ n + 1 <= L + 1
          /\ n \in 1..L + 1
      BY <1>2
    <3> QED  BY <1>2, <1>7, <3>1
  <2>3. \A b \in cut[n]..cut[n + 1] - 1 : b \in 1..N - 1
    BY <1>2, <2>2
  <2>4. \A b \in cut[n]..cut[n + 1] - 1 : blocks'[b] = blocks[b] /\ h[b] = h[b]
    BY <1>6, <2>3
  <2> QED  BY <2>1, <2>4, Undisturbed, Zenon
<1>9. Texts(h, cut)'
  <2>1. /\ L - 1 + 1 = L /\ L \in 1..L /\ \A n \in 1..L : n \in 1..L + 1
        /\ \A n \in 1..L - 1 : n \in 1..L
    BY <1>2, <1>3
  <2>2. Text(ts', blocks', h, cut[L], Len(blocks'))
    BY <1>2, <1>5, <1>6, <1>8, <2>1
  <2> QED  BY <1>5, <1>7, <1>8, <2>1, <2>2 DEF Texts
<1> QED  BY <1>9 DEF Mirror

LEMMA ScriptBegins ==
  ASSUME NEW text \in Seq(Token), ts' = Stream(text), importing' = <<>>,
         blocks' = <<NewBlock("script")>>
  PROVE  Mirror'
<1> DEFINE one == [n \in {1} |-> 1]
<1>1. /\ blocks'[1].kind \in Bottoms /\ blocks'[1].last = "none"
      /\ Len(blocks') = 1 /\ Len(importing') = 0 /\ one[1] = 1
  BY DEF NewBlock, Bottoms
<1> HIDE DEF one
<1>2. Text(ts', blocks', one, 1, 1)
  BY <1>1, Fresh
<1>3. Texts(one, one)'
  BY <1>1, <1>2 DEF Texts
<1> QED  BY <1>3 DEF Mirror

LEMMA MirrorKept ==
  ASSUME Inv, Mirror, Next, Types'
  PROVE  Mirror'
<1>1. ASSUME Execute PROVE Mirror'
  <2>1. /\ ~Parsing /\ importing' = importing /\ blocks' = <<NewBlock("script")>>
        /\ \E text \in Executed : ts' = Stream(text)
    BY <1>1 DEF Execute, Parsing
  <2>2. importing = <<>>
    BY <2>1 DEF Inv, Descent
  <2> QED  BY <2>1, <2>2, TextsAssumption, ScriptBegins
<1>2. ASSUME Parse, ~Parsing' PROVE Mirror'
  BY <1>2 DEF Mirror
<1>3. ASSUME Parse, Parsing' PROVE Mirror'
  <2>1. Types /\ Descent
    BY DEF Inv
  <2>2. Parsing
    BY <1>3, <2>1, ParseShaped DEF Shaped, Reads, CaseBegins, CaseEnds,
       ModuleBegins, ModuleEnds, Stops, Within, Goes
  <2>3. PICK h, cut : Texts(h, cut)
    BY <2>2 DEF Mirror
  <2>4. ~EndScript
    BY <1>3 DEF EndScript, Parsing
  <2> QED  BY <1>3, <2>1, <2>2, <2>3, <2>4, BlocksMirrored, FunctionsMirrored,
              SwitchesMirrored, ModuleRead, ModuleLeft DEF Parse
<1> QED  BY <1>1, <1>2, <1>3 DEF Next

LEMMA TextHeight ==
  ASSUME NEW st, NEW q, NEW h, NEW lo, NEW hi, Text(st, q, h, lo, hi)
  PROVE  /\ Len(st.tokens) \in Nat /\ st.pos \in 1..Len(st.tokens) + 1
         /\ Len(Before(st)) = h[hi]
BY TextIs

(* A script or module read to its end is one of the grammar's.              *)
LEMMA ReadToEnd ==
  ASSUME Types, Descent, Parsing, Mirror, Top.kind \in Bottoms,
         ts.pos > Len(ts.tokens)
  PROVE  Grammatical(ts.tokens)
<1>1. PICK h, cut : Texts(h, cut)
  BY DEF Mirror
<1> DEFINE lo == cut[Len(importing) + 1]
<1>2. /\ Text(ts, blocks, h, lo, Len(blocks)) /\ h[Len(blocks)] = 1
      /\ ts.pos \in 1..Len(ts.tokens) + 1
  BY <1>1, OwnIs, BottomRead
<1> HIDE DEF lo
<1> DEFINE hi == Len(blocks)
<1> HIDE DEF hi
<1>3. /\ Text(ts, blocks, h, lo, hi) /\ h[hi] = 1
  BY <1>2 DEF hi
<1>4. Len(Before(ts)) = h[hi] /\ Len(ts.tokens) \in Nat
  BY <1>3, TextHeight, Zenon
<1>5. Len(Before(ts)) = 1
  BY <1>3, <1>4
<1>6. ts.pos - 1 = Len(ts.tokens)
  BY <1>2, <1>4
<1> QED  BY <1>5, <1>6 DEF Before, Grammatical

-----------------------------------------------------------------------------
(* The errors about the structure. Each is raised where the grammar cannot  *)
(* go on: it has no place for the next token, or the text ends too early.   *)
LEMMA Rejected ==
  ASSUME NEW st \in StreamSet, st.pos \in 1..Len(st.tokens),
         Read(Before(st), st.tokens[st.pos]) = <<>>
  PROVE  ~Grammatical(st.tokens)
<1>1. /\ st.tokens \in Seq(Token) /\ st.pos \in 0..Len(st.tokens)
      /\ StacksOf(st.tokens)[st.pos] = <<>>
  BY StackStep DEF StreamSet, Before
<1> QED  BY <1>1, WrongForGood

LEMMA Nested ==
  ASSUME NEW st, NEW q, NEW h, NEW lo, NEW hi, Text(st, q, h, lo, hi),
         q[hi].kind \notin Bottoms
  PROVE  h[hi] \in Nat /\ h[hi] >= 2
<1>1. /\ Segment(q, h, lo, hi) /\ lo \in Nat \ {0} /\ hi \in Nat /\ lo <= hi
      /\ q[lo].kind \in Bottoms /\ h[lo] = 1
  BY DEF Text, Segment
<1>2. lo < hi
  BY <1>1
<1>3. /\ h[hi] \in Nat \ {0}
      /\ h[lo] < h[hi] \/ (lo = hi - 1 /\ Inner(q[hi]) /\ h[lo] = h[hi])
  BY <1>1, <1>2, Rising
<1>4. ~(lo = hi - 1 /\ Inner(q[hi]))
  <2>1. SUFFICES ASSUME lo = hi - 1, Inner(q[hi]) PROVE FALSE
    OBVIOUS
  <2>2. hi \in lo + 1..hi
    BY <1>1, <2>1
  <2>3. q[hi - 1].kind = "switch"
    BY <1>1, <2>1, <2>2 DEF Segment
  <2> QED  BY <1>1, <2>1, <2>3 DEF Bottoms
<1> QED  BY <1>1, <1>3, <1>4

LEMMA TooShort ==
  ASSUME NEW st, NEW q, NEW h, NEW lo, NEW hi, Text(st, q, h, lo, hi),
         q[hi].kind \notin Bottoms, st.pos > Len(st.tokens)
  PROVE  ~Grammatical(st.tokens)
<1>1. /\ Len(st.tokens) \in Nat /\ st.pos \in 1..Len(st.tokens) + 1
      /\ Len(Before(st)) = h[hi]
  BY TextHeight, Zenon
<1>2. h[hi] \in Nat /\ h[hi] >= 2
  BY Nested, Zenon
<1>3. st.pos - 1 = Len(st.tokens)
  BY <1>1
<1>4. Len(Before(st)) # 1
  BY <1>1, <1>2
<1> QED  BY <1>3, <1>4 DEF Before, Grammatical

WrongEnd(x, token) ==
  \/ /\ x.kind \in Bottoms
     /\ token \in {"fi", "else", "elseif", "case", "default", "catch"}
  \/ x.kind \in {"case", "default"} /\ token \in {"else", "elseif", "catch"}
  \/ x.kind = "try" /\ token \in {"fi", "else", "elseif", "case", "default"}
  \/ /\ x.kind \in {"block", "if", "else", "function", "global function", "catch"}
     /\ token \in {"case", "default", "catch"}
  \/ /\ x.kind \in {"block", "else", "function", "global function", "catch"}
     /\ token \in {"else", "elseif"}
  \/ x.kind = "default" /\ x.last = "stmt" /\ token \in Ender

LEMMA WronglyClosed ==
  ASSUME NEW st, NEW q, NEW h, NEW lo, NEW hi, Text(st, q, h, lo, hi),
         st.pos \in 1..Len(st.tokens), WrongEnd(q[hi], st.tokens[st.pos])
  PROVE  ~Grammatical(st.tokens)
<1> DEFINE e == Last(Before(st))
           token == st.tokens[st.pos]
<1>1. /\ Before(st) # <<>> /\ e \in Entry /\ Mate(q[hi], e) /\ st \in StreamSet
      /\ token \in Token
  <2>1. /\ Before(st) # <<>> /\ Last(Before(st)) = Before(st)[h[hi]]
        /\ Before(st)[h[hi]] \in Entry /\ Mate(q[hi], Before(st)[h[hi]])
        /\ st \in StreamSet /\ st.tokens \in Seq(Token)
    BY TextIs
  <2> QED  BY <2>1
<1>2. \/ /\ e.kind = "script"
         /\ token \in {"fi", "else", "elseif", "case", "default", "catch"}
      \/ e.kind \in {"case", "default"} /\ token \in {"else", "elseif", "catch"}
      \/ /\ e.kind = "try"
         /\ token \in {"fi", "else", "elseif", "case", "default"}
      \/ /\ e.kind \in {"block", "if", "else", "function",
                        "global function", "catch"}
         /\ token \in {"case", "default", "catch"}
      \/ /\ e.kind \in {"block", "else", "function", "global function", "catch"}
         /\ token \in {"else", "elseif"}
      \/ e.kind = "default" /\ e.last = "stmt" /\ token \in Ender
  BY <1>1 DEF Mate, Bottoms, WrongEnd
<1>3. Read(Before(st), token) = <<>>
  <2> HIDE DEF e, token
  <2>1. token \in {"fi", "else", "elseif", "case", "default", "catch"}
    BY <1>2 DEF Ender
  <2>2. CASE token = "fi"
    BY <1>1, <1>2, <2>2, ReadIs DEF Ender, e
  <2>3. CASE token = "else"
    BY <1>1, <1>2, <2>3, ReadIs DEF Ender, e
  <2>4. CASE token = "elseif"
    BY <1>1, <1>2, <2>4, ReadIs DEF Ender, e
  <2>5. CASE token = "case"
    BY <1>1, <1>2, <2>5, ReadIs DEF Ender, e
  <2>6. CASE token = "default"
    BY <1>1, <1>2, <2>6, ReadIs DEF Ender, e
  <2>7. CASE token = "catch"
    BY <1>1, <1>2, <2>7, ReadIs DEF Ender, e
  <2> QED  BY <2>1, <2>2, <2>3, <2>4, <2>5, <2>6, <2>7
<1> QED  BY <1>1, <1>3, Rejected

LEMMA UnclosedWrong ==
  ASSUME Types, Descent, Parsing, NEW h, NEW cut, Texts(h, cut), Unclosed
  PROVE  ~Grammatical(ts.tokens)
<1> DEFINE lo == cut[Len(importing) + 1]
           N == Len(blocks)
<1>1. /\ Text(ts, blocks, h, lo, N) /\ Top = blocks[N]
      /\ ts \in StreamSet /\ ts.pos \in 1..Len(ts.tokens) + 1
  BY OwnIs
<1>2. /\ Top.kind \in {"block", "if", "else", "function", "global function",
                       "try", "catch"}
      /\ \/ ts_peek = "eof"
         \/ /\ Top.kind \in {"block", "else", "function", "global function", "catch"}
            /\ ts_peek \in {"else", "elseif"}
  BY DEF Unclosed, In, Ends
<1> HIDE DEF lo, N
<1>3. ts.pos \notin ts.masked
  BY <1>1, <1>2, OwnEnd DEF Inner
<1>4. CASE ts_peek = "eof"
  <2>1. ts.pos > Len(ts.tokens)
    BY <1>1, <1>3, <1>4, PeekEof
  <2> QED  BY <1>1, <1>2, <2>1, TooShort DEF Bottoms
<1>5. CASE ts_peek # "eof"
  <2>1. ts.pos \in 1..Len(ts.tokens) /\ ts.tokens[ts.pos] = ts_peek
    BY <1>1, <1>5, PeekIs
  <2>2. WrongEnd(blocks[N], ts.tokens[ts.pos])
    BY <1>1, <1>2, <1>5, <2>1 DEF WrongEnd
  <2> QED  BY <1>1, <2>1, <2>2, WronglyClosed
<1> QED  BY <1>4, <1>5

LEMMA StrayWrong ==
  ASSUME Types, Descent, Parsing, NEW h, NEW cut, Texts(h, cut), Stray
  PROVE  ~Grammatical(ts.tokens)
<1> DEFINE lo == cut[Len(importing) + 1]
           N == Len(blocks)
<1>1. /\ Text(ts, blocks, h, lo, N) /\ Top = blocks[N] /\ Top \in Block
      /\ ts \in StreamSet /\ ts.pos \in 1..Len(ts.tokens) + 1
  BY OwnIs
<1>2. /\ ts_peek \in {"fi", "else", "elseif", "case", "default", "catch"}
      /\ Top.kind # "switch" /\ ts_peek \notin Ends(Top.kind)
  BY DEF Stray, Statement
<1> HIDE DEF lo, N
<1>3. /\ ts.pos \in 1..Len(ts.tokens) /\ ts.pos \notin ts.masked
      /\ ts.tokens[ts.pos] = ts_peek
  BY <1>1, <1>2, PeekIs
<1>4. Top.kind \in {"case", "default"} => ts_peek \notin Ender
  BY <1>1, <1>3, NotItsEnd DEF Inner
<1>5. Top.kind \in Kind
  BY <1>1 DEF Block
<1>6. \/ Top.kind \in Bottoms
      \/ Top.kind \in {"case", "default"} /\ ts_peek \in {"else", "elseif", "catch"}
      \/ /\ Top.kind = "try"
         /\ ts_peek \in {"fi", "else", "elseif", "case", "default"}
      \/ /\ Top.kind \in {"block", "if", "else", "function",
                          "global function", "catch"}
         /\ ts_peek \in {"case", "default", "catch"}
  BY <1>2, <1>4, <1>5 DEF Kind, Bottoms, Ender, Ends
<1>7. WrongEnd(blocks[N], ts.tokens[ts.pos])
  BY <1>1, <1>2, <1>3, <1>6 DEF WrongEnd
<1> QED  BY <1>1, <1>3, <1>7, WronglyClosed

LEMMA DefaultWrong ==
  ASSUME Types, Descent, Parsing, NEW h, NEW cut, Texts(h, cut), BadDefault
  PROVE  ~Grammatical(ts.tokens)
<1> DEFINE lo == cut[Len(importing) + 1]
           N == Len(blocks)
<1>1. /\ Text(ts, blocks, h, lo, N) /\ Top = blocks[N]
      /\ ts \in StreamSet /\ ts.pos \in 1..Len(ts.tokens) + 1
  BY OwnIs
<1>2. ts_peek = "eof" /\ Top.kind = "default" /\ Top.last = "stmt"
  BY DEF BadDefault, In
<1> HIDE DEF lo, N
<1>3. ts.pos \in ts.masked
  <2>1. SUFFICES ASSUME ts.pos \notin ts.masked PROVE FALSE
    OBVIOUS
  <2>2. ts.pos <= Len(ts.tokens) /\ ts.pos > Len(ts.tokens)
    BY <1>1, <1>2, <2>1, NotItsEnd, PeekEof DEF Inner
  <2> QED  BY <1>1, <2>2 DEF StreamSet
<1>4. ts.pos <= Len(ts.tokens) /\ ts.tokens[ts.pos] \in Ender
  BY <1>1, <1>3, OwnEnd
<1>5. ts.pos \in 1..Len(ts.tokens)
  BY <1>1, <1>4 DEF StreamSet
<1>6. WrongEnd(blocks[N], ts.tokens[ts.pos])
  BY <1>1, <1>2, <1>4 DEF WrongEnd
<1> QED  BY <1>1, <1>5, <1>6, WronglyClosed

(* No end at the level of the switch is ahead: it is never left.            *)
LEMMA NoEnd ==
  ASSUME NEW st \in StreamSet, NEW height \in Nat, height >= 2,
         st.pos \in 1..Len(st.tokens),
         Level(st.tokens, st.pos) = height - 1,
         \A j \in st.pos + 1..Len(st.tokens) : ~AtEnd(st.tokens, height, j)
  PROVE  ~Grammatical(st.tokens)
<1> DEFINE text == st.tokens
           m == Len(text)
           a == st.pos + 1
<1>1. SUFFICES ASSUME Grammatical(text) PROVE FALSE
  OBVIOUS
<1>2. text \in Seq(Token) /\ m \in Nat /\ a \in Nat \ {0} /\ a - 1 = st.pos
      /\ m \in 0..m /\ st.pos <= m /\ st.pos \in Nat
  <2>1. text \in Seq(Token) /\ m \in Nat
    BY DEF StreamSet
  <2>2. st.pos \in 1..m
    OBVIOUS
  <2> HIDE DEF text, m
  <2> QED  BY <2>1, <2>2
<1>3. Len(StacksOf(text)[m]) = 1 /\ StacksOf(text)[m] # <<>>
  <2> DEFINE last == StacksOf(text)[m]
  <2>1. Len(last) = 1
    BY <1>1 DEF Grammatical
  <2> HIDE DEF text, m, last
  <2>3. last # <<>>
    BY <2>1, OneIsSome, Zenon
  <2> QED  BY <2>1, <2>3 DEF last
<1> HIDE DEF text, m, a
<1>4. Level(text, m) = 0
  <2>1. 1 = 1 + Level(text, m) /\ Level(text, m) \in Int
    BY <1>2, <1>3, StackHeight, LevelStep DEF m
  <2> QED  BY <2>1
<1>5. Level(text, m) < Level(text, a - 1)
  BY <1>2, <1>4 DEF text
<1>6. m >= a
  <2>1. m # st.pos
    BY <1>4 DEF text
  <2> QED  BY <1>2, <2>1 DEF a
<1>7. PICK j \in a..m : text[j] = "fi" /\ Level(text, j - 1) = Level(text, a - 1)
  BY <1>2, <1>5, <1>6, Passes
<1>8. AtEnd(text, height, j)
  BY <1>2, <1>7 DEF AtEnd, Ender, text
<1> QED  BY <1>7, <1>8 DEF text, m, a

(* What is read between a default and the next end at its level leaves a    *)
(* statement in it.                                                         *)
DefaultOpen(text, p, height, b) ==
  /\ text \in Seq(Token) /\ p \in 1..Len(text) /\ height \in Nat \ {0}
  /\ StacksOf(text)[p] # <<>> /\ Len(StacksOf(text)[p]) = height
  /\ StacksOf(text)[p][height].kind = "default"
  /\ b \in p + 2..Len(text)
  /\ \A j \in p + 1..b - 1 : ~AtEnd(text, height, j)

Filling(s, height) ==
  /\ Len(s) >= height /\ s[height].kind = "default" /\ s[height].last # "none"

LEMMA Filled ==
  ASSUME NEW text, NEW p, NEW height, NEW b, DefaultOpen(text, p, height, b)
  PROVE  StacksOf(text)[b - 1] # <<>> => Filling(StacksOf(text)[b - 1], height)
<1>0. /\ text \in Seq(Token) /\ p \in 1..Len(text) /\ height \in Nat \ {0}
      /\ StacksOf(text)[p] # <<>> /\ Len(StacksOf(text)[p]) = height
      /\ StacksOf(text)[p][height].kind = "default"
      /\ b \in p + 2..Len(text)
      /\ \A j \in p + 1..b - 1 : ~AtEnd(text, height, j)
  BY DEF DefaultOpen
<1> USE <1>0
<1> DEFINE s(k) == StacksOf(text)[k]
           Fits(k) == s(k) # <<>> => /\ Len(s(k)) >= height
                                     /\ s(k)[height].kind = "default"
                                     /\ k > p => s(k)[height].last # "none"
           T == {n \in Nat : p + n <= b - 1 => Fits(p + n)}
<1>1. Len(text) \in Nat /\ p \in Nat \ {0} /\ b \in Nat /\ b <= Len(text) /\ b >= p + 2
  OBVIOUS
<1>2. 0 \in T
  BY <1>1
<1>3. ASSUME NEW n \in T PROVE n + 1 \in T
  <2> DEFINE k == p + n
  <2>0. SUFFICES ASSUME p + (n + 1) <= b - 1 PROVE Fits(p + (n + 1))
    OBVIOUS
  <2>1. /\ n \in Nat /\ k \in Nat /\ p + (n + 1) = k + 1 /\ k >= p /\ k + 1 > p
        /\ k + 1 \in p + 1..b - 1 /\ k + 1 \in 1..Len(text) /\ k \in 0..Len(text)
        /\ k + 1 - 1 = k /\ k <= b - 1
    <3>1. n \in Nat
      BY <1>3 DEF T
    <3> HIDE DEF T, Fits
    <3> QED  BY <1>1, <2>0, <3>1
  <2>2. Fits(k)
    BY <2>0, <2>1
  <2> HIDE DEF k
  <2>3. /\ s(k) \in Seq(Entry) /\ text[k + 1] \in Token
        /\ s(k + 1) = Read(s(k), text[k + 1])
    BY <2>1, StackStep, StacksTyped
  <2>4. SUFFICES ASSUME s(k + 1) # <<>>
                 PROVE  /\ Len(s(k + 1)) >= height
                        /\ s(k + 1)[height].kind = "default"
                        /\ s(k + 1)[height].last # "none"
    BY <2>1
  <2>5. s(k) # <<>>
    BY <2>3, <2>4, ReadNothing
  <2>6. /\ Len(s(k)) >= height /\ s(k)[height].kind = "default"
        /\ k > p => s(k)[height].last # "none"
    BY <2>2, <2>5
  <2>7. /\ Len(s(k + 1)) = Len(s(k)) + Rise(text[k + 1])
        /\ \A c \in 1..Len(s(k)) - 1 : s(k + 1)[c] = s(k)[c]
        /\ Len(s(k)) \in Nat \ {0}
    <3>1. Len(s(k)) \in Nat \ {0} /\ Read(s(k), text[k + 1]) # <<>>
      BY <2>3, <2>4, <2>5, TopRemoved
    <3>2. /\ Len(Read(s(k), text[k + 1])) = Len(s(k)) + Rise(text[k + 1])
          /\ \A c \in 1..Len(s(k)) - 1 : Read(s(k), text[k + 1])[c] = s(k)[c]
      BY <2>3, <2>5, <3>1, ReadMoves, Zenon
    <3> QED  BY <2>3, <3>1, <3>2
  <2> HIDE DEF s
  <2>8. CASE Len(s(k)) > height
    <3>1. Rise(text[k + 1]) \in {-1, 0, 1}
      BY DEF Rise
    <3>2. height \in 1..Len(s(k)) - 1 /\ Len(s(k + 1)) >= height
      BY <2>7, <2>8, <3>1
    <3>3. k > p
      <4>1. k # p
        BY <2>8 DEF s
      <4> QED  BY <1>1, <2>1, <4>1
    <3> QED  BY <2>6, <2>7, <3>2, <3>3
  <2>9. CASE Len(s(k)) = height
    <3>1. text[k + 1] \notin Ender
      <4>1. Len(s(k)) = 1 + Level(text, k) /\ Level(text, k) \in Int
        BY <2>1, <2>5, StackHeight, LevelStep DEF s
      <4>2. ~AtEnd(text, height, k + 1)
        BY <2>1
      <4> QED  BY <2>1, <2>9, <4>1, <4>2 DEF AtEnd
    <3>2. Last(s(k)).kind = "default" /\ Last(s(k)) = s(k)[height]
      BY <2>3, <2>5, <2>6, <2>9, TopRemoved
    <3>3. PICK last \in {"break", "stmt"} :
            \/ s(k + 1) = Noted(s(k), last)
            \/ \E token \in Opening : s(k + 1) = Append(Noted(s(k), last), New(token))
      <4>1. text[k + 1] \in {"stmt", "import", "break"} \cup Opening
              \cup {"elseif", "else", "catch", "malformed"}
        BY <2>3, <3>1 DEF Token, Ender, Opening
      <4>2. CASE text[k + 1] \in {"stmt", "import", "break"}
        BY <2>3, <2>5, <3>2, <4>2, ReadIs
      <4>3. CASE text[k + 1] \in Opening
        BY <2>3, <2>5, <3>2, <4>3, ReadIs
      <4>4. CASE text[k + 1] \in {"elseif", "else", "catch", "malformed"}
        <5>1. s(k + 1) = <<>>
          BY <2>3, <2>5, <3>2, <4>4, ReadIs
        <5> QED  BY <2>4, <5>1
      <4> QED  BY <4>1, <4>2, <4>3, <4>4
    <3>4. /\ Noted(s(k), last) \in Seq(Entry) /\ Len(Noted(s(k), last)) = height
          /\ Noted(s(k), last)[height] = [s(k)[height] EXCEPT !.last = last]
      BY <2>3, <2>5, <2>9, NotedAt
    <3>5. Filling(Noted(s(k), last), height)
      <4>1. s(k)[height] \in Entry
        BY <2>3, <2>9
      <4>2. /\ Noted(s(k), last)[height].kind = "default"
            /\ Noted(s(k), last)[height].last # "none"
        BY <2>6, <3>4, <4>1 DEF Entry
      <4> QED  BY <3>4, <4>2 DEF Filling
    <3>6. ASSUME NEW token \in Opening
          PROVE  Filling(Append(Noted(s(k), last), New(token)), height)
      <4> DEFINE noted == Noted(s(k), last)
      <4>1. New(token) \in Entry
        BY EntriesTyped DEF Opening, EntryKind
      <4>2. noted \in Seq(Entry) /\ Len(noted) = height /\ height \in 1..Len(noted)
        BY <3>4
      <4> HIDE DEF noted
      <4>3. /\ Len(Append(noted, New(token))) = Len(noted) + 1
            /\ \A c \in 1..Len(noted) : Append(noted, New(token))[c] = noted[c]
        BY <4>1, <4>2, TopAdded
      <4>4. Filling(noted, height)
        BY <3>5 DEF noted
      <4>5. Filling(Append(noted, New(token)), height)
        BY <4>2, <4>3, <4>4 DEF Filling
      <4> QED  BY <4>5 DEF noted
    <3>7. Filling(s(k + 1), height)
      BY <3>3, <3>5, <3>6, Zenon
    <3> QED  BY <3>7 DEF Filling
  <2> QED  BY <2>6, <2>7, <2>8, <2>9
<1> HIDE DEF T
<1>4. T = Nat
  <2>1. T \in SUBSET Nat
    BY DEF T
  <2> QED  BY <1>2, <1>3, <2>1, Induct
<1>5. b - 1 - p \in T /\ p + (b - 1 - p) = b - 1 /\ b - 1 > p
  BY <1>1, <1>4
<1>6. Fits(b - 1)
  BY <1>1, <1>5 DEF T
<1> QED  BY <1>5, <1>6 DEF Filling

LEMMA SwitchWrong ==
  ASSUME Types, Descent, Parsing, NEW h, NEW cut, Texts(h, cut), BadSwitch
  PROVE  ~Grammatical(ts.tokens)
<1> DEFINE lo == cut[Len(importing) + 1]
           N == Len(blocks)
           e == Last(Before(ts))
           text == ts.tokens
           p == ts.pos
<1>1. /\ Text(ts, blocks, h, lo, N) /\ Top = blocks[N] /\ Top.kind = "switch"
      /\ ts \in StreamSet /\ p \in 1..Len(text) + 1 /\ ts_peek # "fi"
      /\ text \in Seq(Token) /\ Len(text) \in Nat
  BY OwnIs DEF BadSwitch, In, StreamSet
<1>2. p \notin ts.masked
  BY <1>1, OwnEnd DEF Inner
<1>3. h[N] \in Nat /\ h[N] >= 2
  BY <1>1, Nested DEF Bottoms
<1>4. CASE ts_peek = "eof"
  <2>1. p > Len(text)
    BY <1>1, <1>2, <1>4, PeekEof
  <2> QED  BY <1>1, <2>1, TooShort DEF Bottoms
<1>5. CASE ts_peek # "eof"
  <2>1. p \in 1..Len(text) /\ text[p] = ts_peek /\ text[p] \in Token /\ p \in Nat \ {0}
    BY <1>1, <1>5, PeekIs
  <2>2. /\ Before(ts) \in Seq(Entry) /\ Before(ts) # <<>> /\ e \in Entry
        /\ Len(Before(ts)) = h[N] /\ e = Before(ts)[h[N]] /\ Mate(Top, e)
        /\ h[N] = 1 + Level(text, p - 1) /\ Ended(ts, e)
    BY <1>1, TextIs DEF Text
  <2>3. /\ e.kind \in {"switch", "case", "default"} /\ e.default = Top.has_default
    BY <1>1, <2>2 DEF Mate, Bottoms
  <2>4. text[p] \in {"case", "default"} => Level(text, p) = h[N] - 1
    <3>1. text[p] \in {"case", "default"} => Rise(text[p]) = 0
      BY DEF Rise, Openers
    <3>2. /\ Level(text, p) = Level(text, p - 1) + Rise(text[p])
          /\ Level(text, p - 1) \in Int
      <4>1. p \in Nat \ {0} /\ p - 1 \in Nat
        BY <2>1
      <4> HIDE DEF p, text
      <4> QED  BY <4>1, LevelStep
    <3> QED  BY <2>2, <3>1, <3>2
  <2>5. ASSUME Read(Before(ts), text[p]) = <<>> PROVE ~Grammatical(text)
    BY <1>1, <2>1, <2>5, Rejected
  <2>6. CASE ts_peek \in {"case", "default"} /\ Boundaries(p + 1) = {}
    <3>1. \A j \in p + 1..Len(text) : ~AtEnd(text, h[N], j)
      BY <1>1, <2>6, ScanFinds
    <3> QED  BY <1>1, <1>3, <2>1, <2>4, <2>6, <3>1, NoEnd
  <2>7. CASE ts_peek = "default" /\ Top.has_default
    <3>1. Read(Before(ts), text[p]) = <<>>
      BY <2>1, <2>2, <2>3, <2>7, ReadIs
    <3> QED  BY <2>5, <3>1
  <2>8. ASSUME ts_peek = "default", NEW b \in Boundaries(p + 1),
               LateCase(b), \A i \in Boundaries(p + 1) : b <= i
        PROVE  ~Grammatical(text)
    <3>1. /\ Closes(Past(ts), h[N], b) /\ b # p + 1 /\ text[b] = "case"
      BY <1>1, <2>8, ScanFinds DEF LateCase
    <3>2. /\ b \in p + 1..Len(text) /\ AtEnd(text, h[N], b)
          /\ \A j \in p + 1..b - 1 : ~AtEnd(text, h[N], j)
      <4>1. Past(ts).pos = p + 1 /\ Past(ts).tokens = text
        BY <1>1, <2>1, Advances
      <4> QED  BY <3>1, <4>1 DEF Closes
    <3>3. b \in p + 2..Len(text) /\ b \in 1..Len(text) /\ p \in 0..Len(text)
          /\ b - 1 \in 0..Len(text) /\ b \in 0..Len(text)
      BY <1>1, <2>1, <3>1, <3>2
    <3>4. StacksOf(text)[p] = Read(Before(ts), text[p])
      BY <1>1, <2>1, StackStep DEF Before
    <3>5. SUFFICES ASSUME StacksOf(text)[p] # <<>> PROVE ~Grammatical(text)
      BY <2>5, <3>4
    <3>6. StacksOf(text)[p] = Turned(Before(ts), "default")
      BY <2>1, <2>2, <2>8, <3>4, <3>5, ReadIs
    <3>7. /\ Len(StacksOf(text)[p]) = h[N]
          /\ StacksOf(text)[p][h[N]].kind = "default"
      <4>1. "default" \in EntryKind
        BY DEF EntryKind
      <4> QED  BY <2>2, <3>6, <4>1, TurnedAt
    <3> DEFINE s == StacksOf(text)[b - 1]
    <3>8. s # <<>> => Filling(s, h[N])
      <4>1. h[N] \in Nat \ {0}
        BY <1>3
      <4>2. DefaultOpen(text, p, h[N], b)
        BY <1>1, <2>1, <3>2, <3>3, <3>5, <3>7, <4>1 DEF DefaultOpen
      <4> QED  BY <4>2, Filled, Zenon
    <3>9. s \in Seq(Entry) /\ StacksOf(text)[b] = Read(s, "case")
      BY <1>1, <3>1, <3>3, StackStep, StacksTyped
    <3>10. s # <<>> => Len(s) = h[N]
      <4>1. s # <<>> => Len(s) = 1 + Level(text, b - 1)
        BY <1>1, <3>3, StackHeight
      <4>2. Level(text, b - 1) = h[N] - 1
        BY <3>2 DEF AtEnd
      <4> QED  BY <1>3, <4>1, <4>2
    <3>11. Read(s, "case") = <<>>
      <4>1. CASE s = <<>>
        BY <4>1, ReadNothing
      <4>2. CASE s # <<>>
        <5>1. Last(s) = s[h[N]]
          BY <3>9, <3>10, <4>2, TopRemoved
        <5>2. "case" \in Token
          BY DEF Token
        <5>3. s[h[N]].kind = "default" /\ s[h[N]].last # "none"
          BY <3>8, <4>2 DEF Filling
        <5> QED  BY <4>2, <5>1, <5>2, <5>3, ReadIs
      <4> QED  BY <4>1, <4>2
    <3> QED  BY <1>1, <3>3, <3>9, <3>11, WrongForGood
  <2>9. CASE ts_peek \notin {"case", "default"}
    <3>1. e.kind = "switch"
      BY <1>1, <2>1, <2>2, <2>9 DEF Ended, Ender
    <3>2. text[p] \in {"stmt", "import", "break"} \cup Opening
            \cup {"elseif", "else", "catch", "malformed"}
      BY <1>1, <2>1, <2>9 DEF Token, Opening
    <3>3. Read(Before(ts), text[p]) = <<>>
      <4>1. CASE text[p] \in {"stmt", "import", "break"}
        BY <2>1, <2>2, <3>1, <4>1, ReadIs
      <4>2. CASE text[p] \in Opening
        BY <2>1, <2>2, <3>1, <4>2, ReadIs
      <4>3. CASE text[p] \in {"elseif", "else", "catch", "malformed"}
        BY <2>1, <2>2, <3>1, <4>3, ReadIs
      <4> QED  BY <3>2, <4>1, <4>2, <4>3
    <3> QED  BY <2>5, <3>3
  <2> QED  BY <2>6, <2>7, <2>8, <2>9 DEF BadSwitch
<1> QED  BY <1>4, <1>5

(* What a step makes of the reason: only an error gives one.                *)
Structural == Unclosed \/ Stray \/ BadSwitch \/ BadDefault
Otherwise ==
  \/ Malformed
  \/ \E token \in {"function", "global function"}, f \in FuncName : Redefine(token, f)

LEMMA Reasons ==
  ASSUME Next
  PROVE  \/ Parsing /\ why' = why
         \/ why' = "none"
         \/ Structural /\ Parsing /\ Error("syntax")
         \/ MissingFi /\ Parsing /\ Error("missing fi")
         \/ Otherwise /\ Parsing
              /\ \E reason \in {"malformed", "redefined"} : Error(reason)
<1>1. ASSUME NEW token, Simple(token) \/ Open(token) PROVE Parsing /\ why' = why
  BY <1>1 DEF Simple, Open, Statement, Unread, Parsing
<1>2. ASSUME NEW token, NEW f, Define(token, f) PROVE Parsing /\ why' = why
  BY <1>2 DEF Define, Statement, Unread, Parsing
<1>3. ASSUME Close \/ Continue \/ Register PROVE Parsing /\ why' = why
  BY <1>3 DEF Close, Continue, Register, In, Unread, Parsing
<1>4. ASSUME parse_case \/ parse_default \/ EndCase \/ EndSwitch
      PROVE  Parsing /\ why' = why
  BY <1>4 DEF parse_case, parse_default, EndCase, EndSwitch, In, Unread, Parsing
<1>5. ASSUME Import \/ EndModule PROVE Parsing /\ why' = why
  BY <1>5 DEF Import, EndModule, In, Statement, Parsing
<1>6. ASSUME EndScript \/ Execute PROVE why' = "none"
  BY <1>6 DEF EndScript, Execute
<1>7. ASSUME Structural PROVE Parsing /\ Error("syntax")
  BY <1>7 DEF Structural, Unclosed, Stray, BadSwitch, BadDefault, Statement, In, Parsing
<1>8. ASSUME MissingFi PROVE Parsing /\ Error("missing fi")
  BY <1>8 DEF MissingFi, In, Parsing
<1>9. ASSUME Otherwise
      PROVE  Parsing /\ \E reason \in {"malformed", "redefined"} : Error(reason)
  BY <1>9 DEF Otherwise, Malformed, Redefine, Statement, Parsing
<1>10. CASE Blocks
  BY <1>1, <1>3, <1>7, <1>9, <1>10 DEF Blocks, Structural, Otherwise
<1>11. CASE Functions
  BY <1>2, <1>3, <1>9, <1>11 DEF Functions, Otherwise
<1>12. CASE Switches
  BY <1>1, <1>4, <1>7, <1>8, <1>12 DEF Switches, Structural
<1> QED  BY <1>5, <1>6, <1>10, <1>11, <1>12 DEF Next, Parse

(* An error ends the parsing, and one about the structure is raised for a   *)
(* text that has none.                                                      *)
LEMMA VerdictKept ==
  ASSUME Inv, Mirror, Verdict, Next
  PROVE  Verdict'
<1>0. Types /\ Descent
  BY DEF Inv
<1>1. ASSUME NEW reason, Error(reason), Parsing,
             reason = "syntax" => ~Grammatical(ts.tokens)
      PROVE  Verdict'
  BY <1>1 DEF Verdict, Error, Parsing
<1>2. ASSUME Structural, Parsing, Error("syntax") PROVE Verdict'
  <2>1. PICK h, cut : Texts(h, cut)
    BY <1>2 DEF Mirror
  <2>2. ~Grammatical(ts.tokens)
    BY <1>0, <1>2, <2>1, UnclosedWrong, StrayWrong, SwitchWrong, DefaultWrong
       DEF Structural
  <2> QED  BY <1>1, <1>2, <2>2
<1>3. ASSUME Parsing, why' = why PROVE Verdict'
  BY <1>3 DEF Verdict
<1>4. ASSUME why' = "none" PROVE Verdict'
  BY <1>4 DEF Verdict
<1>5. ASSUME Parsing, NEW reason \in {"malformed", "missing fi", "redefined"},
             Error(reason)
      PROVE  Verdict'
  BY <1>1, <1>5
<1> QED  BY <1>2, <1>3, <1>4, <1>5, Reasons

LEMMA MirrorBegins == Init => Mirror /\ Verdict
<1> SUFFICES ASSUME Init PROVE Mirror /\ Verdict
  OBVIOUS
<1> DEFINE one == [n \in {1} |-> 1]
<1>1. PICK text \in Scripts : ts = Stream(text)
  BY DEF Init
<1>2. /\ blocks[1].kind \in Bottoms /\ blocks[1].last = "none"
      /\ Len(blocks) = 1 /\ Len(importing) = 0 /\ one[1] = 1
  BY DEF Init, NewBlock, Bottoms
<1> HIDE DEF one
<1>3. text \in Seq(Token)
  BY TextsAssumption
<1>4. Text(ts, blocks, one, 1, 1)
  BY <1>1, <1>2, <1>3, Fresh
<1>5. Texts(one, one)
  BY <1>2, <1>4 DEF Texts
<1>6. Verdict
  BY DEF Init, Verdict
<1> QED  BY <1>5, <1>6 DEF Mirror

LEMMA MirrorStep ==
  ASSUME Inv, Inv', Mirror, Verdict, [Next]_vars
  PROVE  Mirror' /\ Verdict'
<1>1. CASE Next
  <2>1. Types'
    BY DEF Inv
  <2> QED  BY <1>1, <2>1, MirrorKept, VerdictKept
<1>2. CASE UNCHANGED vars
  <2>1. /\ phase' = phase /\ why' = why /\ ts' = ts /\ blocks' = blocks
        /\ importing' = importing
    BY <1>2 DEF vars
  <2>2. Verdict'
    BY <2>1 DEF Verdict, Parsing
  <2>3. \A h, cut : Texts(h, cut) => Texts(h, cut)'
    BY <2>1 DEF Texts
  <2>4. Parsing' => Parsing
    BY <2>1 DEF Parsing
  <2> QED  BY <2>2, <2>3, <2>4 DEF Mirror
<1> QED  BY <1>1, <1>2

LEMMA Mirroring == Spec => [](Inv /\ Mirror /\ Verdict)
<1>1. Inv /\ Inv' /\ Mirror /\ Verdict /\ [Next]_vars => Mirror' /\ Verdict'
  BY MirrorStep
<1> QED  BY <1>1, Invariant, MirrorBegins, PTL DEF Spec

(* The parser decides of every text, however deep its blocks, switches and  *)
(* modules nest, as the grammar does: a text it reads to its end with the   *)
(* ends of cases it has found by scanning ahead has the structure the       *)
(* grammar finds from left to right, and an error about the structure is    *)
(* raised for texts only that do not have it (parse_block, parse_switch and *)
(* find_switch_boundary).                                                   *)
THEOREM ParserDecidesAsGrammar == Spec => []DecidesAsGrammar
<1>1. Inv /\ Mirror /\ Verdict => DecidesAsGrammar
  BY ReadToEnd DEF Inv, Verdict, DecidesAsGrammar, Parsing, Bottoms
<1> QED  BY <1>1, Mirroring, PTL

-----------------------------------------------------------------------------
(* The alarm for a missing fi. While nothing is being imported the blocks   *)
(* that wait for a fi are those the level counts.                           *)
LEMMA LevelWaits ==
  ASSUME Types, Descent, Parsing, NEW h, NEW cut, Texts(h, cut), importing = <<>>
  PROVE  h[Len(blocks)] = 1 + Waits(classes)
<1> DEFINE N == Len(blocks)
           W(k) == {b \in 1..k : classes[b] = "waiting"}
           T == {n \in Nat : n + 1 <= N =>
                   /\ IsFiniteSet(W(n + 1)) /\ Cardinality(W(n + 1)) \in Nat
                   /\ h[n + 1] = 1 + Cardinality(W(n + 1))}
<1>1. /\ Text(ts, blocks, h, 1, N) /\ N \in Nat \ {0}
      /\ blocks \in Seq(Block) /\ Len(classes) = N
      /\ classes \in Seq(Classes)
  BY OwnIs, TopIs DEF Texts
<1>2. /\ blocks[1].kind \in Bottoms /\ h[1] = 1
      /\ \A b \in 2..N : /\ blocks[b].kind \notin Bottoms
                         /\ h[b] = h[b - 1] + (IF Inner(blocks[b]) THEN 0 ELSE 1)
  BY <1>1 DEF Text, Segment
<1>3. \A b \in 1..N : classes[b] = Class(blocks[b].kind) /\ blocks[b].kind \in Kind
  <2>1. \A b \in 1..N : blocks[b] \in Block
    BY <1>1
  <2> QED  BY <1>1, <2>1, ClassesType DEF classes, Block
<1>4. \A b \in 1..N :
        classes[b] = "waiting" <=> blocks[b].kind \notin Bottoms /\ ~Inner(blocks[b])
  BY <1>3 DEF Class, Bottoms, Inner
<1> HIDE DEF N
<1>5. 0 \in T
  <2>1. 1 \in 1..N /\ \A b \in 1..0 + 1 : b = 1
    BY <1>1
  <2>2. W(0 + 1) = {}
    BY <1>2, <1>4, <2>1
  <2> HIDE DEF W
  <2>3. IsFiniteSet(W(0 + 1)) /\ Cardinality(W(0 + 1)) = 0
    BY <2>2, FS_EmptySet
  <2> QED  BY <1>2, <2>3
<1>6. ASSUME NEW n \in T PROVE n + 1 \in T
  <2> DEFINE k == n + 1
  <2>0. SUFFICES ASSUME k + 1 <= N
                 PROVE  /\ IsFiniteSet(W(k + 1)) /\ Cardinality(W(k + 1)) \in Nat
                        /\ h[k + 1] = 1 + Cardinality(W(k + 1))
    OBVIOUS
  <2>1. /\ k \in Nat \ {0} /\ k <= N /\ k + 1 \in 2..N /\ k + 1 \in 1..N
        /\ k + 1 - 1 = k /\ k + 1 \notin 1..k
    BY <1>1, <2>0
  <2>2. /\ IsFiniteSet(W(k)) /\ Cardinality(W(k)) \in Nat
        /\ h[k] = 1 + Cardinality(W(k))
    BY <2>1
  <2>3. W(k + 1) = IF classes[k + 1] = "waiting" THEN W(k) \cup {k + 1} ELSE W(k)
    <3>1. 1..k + 1 = (1..k) \cup {k + 1}
      BY <2>1
    <3> QED  BY <3>1
  <2>4. k + 1 \notin W(k)
    BY <2>1
  <2>5. h[k + 1] = h[k] + (IF classes[k + 1] = "waiting" THEN 1 ELSE 0)
    BY <1>2, <1>4, <2>1
  <2> HIDE DEF W, k
  <2>6. CASE classes[k + 1] = "waiting"
    <3>1. PICK M : M = W(k) /\ IsFiniteSet(M) /\ k + 1 \notin M
      BY <2>2, <2>4
    <3>2. IsFiniteSet(M \cup {k + 1}) /\ Cardinality(M \cup {k + 1}) = Cardinality(M) + 1
      BY <3>1, FS_AddElement
    <3>3. W(k + 1) = M \cup {k + 1} /\ h[k + 1] = h[k] + 1
      BY <2>3, <2>5, <2>6, <3>1
    <3>4. Cardinality(M) \in Nat /\ h[k] = 1 + Cardinality(M)
      BY <2>2, <3>1
    <3> HIDE DEF W
    <3>5. IsFiniteSet(W(k + 1)) /\ Cardinality(W(k + 1)) = Cardinality(M) + 1
      BY <3>2, <3>3
    <3> QED  BY <3>3, <3>4, <3>5
  <2>7. CASE classes[k + 1] # "waiting"
    BY <2>2, <2>3, <2>5, <2>7
  <2> QED  BY <2>6, <2>7
<1> HIDE DEF T
<1>7. T = Nat
  <2>1. T \in SUBSET Nat
    BY DEF T
  <2> QED  BY <1>5, <1>6, <2>1, Induct
<1>8. N - 1 \in T /\ N - 1 + 1 = N
  BY <1>1, <1>7
<1>9. h[N] = 1 + Cardinality(W(N))
  BY <1>1, <1>8 DEF T
<1>10. W(N) = WaitingIn(classes)
  BY <1>1 DEF WaitingIn
<1> QED  BY <1>9, <1>10 DEF Waits, N

LEMMA MissingWrong ==
  ASSUME Inv, NEW h, NEW cut, Texts(h, cut), MissingFi,
         parses = 1, importing = <<>>, \A i \in ts.masked : ts.tokens[i] # "fi"
  PROVE  ~Grammatical(ts.tokens)
<1> DEFINE text == ts.tokens
           m == Len(text)
           p == ts.pos
           N == Len(blocks)
           C == Count({"fi"}, p, m)
           O == Count(Openers, p, m)
<1>1. /\ Types /\ Descent /\ Parsing /\ ts_peek = "fi" /\ Top.kind = "switch"
      /\ C < fi_block_nesting
  BY DEF Inv, MissingFi, In, Parsing, count_remaining_fi
<1>2. /\ Text(ts, blocks, h, 1, N) /\ ts \in StreamSet /\ Top = blocks[N]
      /\ p \in 1..m + 1
  BY <1>1, OwnIs DEF Texts
<1>3. p \in 1..m /\ text \in Seq(Token) /\ m \in Nat /\ p \in Nat \ {0} /\ p - 1 <= m
  BY <1>1, <1>2, PeekIs DEF StreamSet
<1>4. Waits(classes) \in Nat /\ fi_block_nesting = Waits(classes)
  BY <1>1, TopIs, CountsFinite DEF Inv, Counter
<1>5. h[N] = 1 + Level(text, p - 1) /\ h[N] = 1 + Waits(classes)
  BY <1>1, <1>2, TextIs, LevelWaits
<1>6. C = Num(text, {"fi"}, m) - Num(text, {"fi"}, p - 1) /\ C \in Nat
  <2>1. \A i \in p..m : text[i] \in {"fi"} => i \notin ts.masked
    OBVIOUS
  <2> QED  BY <1>3, <2>1, CountIs
<1>7. O = Num(text, Openers, m) - Num(text, Openers, p - 1) /\ O \in Nat
  <2>1. \A i \in ts.masked : text[i] \in Ender
    BY <1>2 DEF Text, Masking, Closes, AtEnd
  <2>2. \A i \in p..m : text[i] \in Openers => i \notin ts.masked
    BY <2>1 DEF Openers, Ender
  <2> QED  BY <1>3, <2>2, CountIs
<1>8. /\ Level(text, m) = Num(text, Openers, m) - Num(text, {"fi"}, m)
      /\ Level(text, p - 1)
           = Num(text, Openers, p - 1) - Num(text, {"fi"}, p - 1)
      /\ \A S : \A k \in {m, p - 1} : Num(text, S, k) \in Nat
  <2>1. m \in Nat /\ p - 1 \in Nat
    BY <1>3
  <2> QED  BY <2>1, NumFinite DEF Level
<1>9. SUFFICES ASSUME Grammatical(text) PROVE FALSE
  OBVIOUS
<1>10. Level(text, m) = 0
  <2>1. Len(StacksOf(text)[m]) = 1 /\ StacksOf(text)[m] # <<>> /\ m \in 0..m
    <3>1. Len(StacksOf(text)[m]) = 1
      BY <1>9 DEF Grammatical
    <3>2. StacksOf(text)[m] # <<>>
      BY <3>1, OneIsSome, Zenon
    <3> QED  BY <1>3, <3>1, <3>2
  <2>2. 1 = 1 + Level(text, m) /\ Level(text, m) \in Int
    <3> HIDE DEF text
    <3> QED  BY <1>3, <2>1, StackHeight, LevelStep
  <2> QED  BY <2>2
<1> HIDE DEF text, m, p, N, C, O
<1> DEFINE o1 == Num(text, Openers, m)
           o0 == Num(text, Openers, p - 1)
           f1 == Num(text, {"fi"}, m)
           f0 == Num(text, {"fi"}, p - 1)
<1>11. o1 \in Nat /\ o0 \in Nat /\ f1 \in Nat /\ f0 \in Nat
  BY <1>8
<1>12. /\ C = f1 - f0 /\ O = o1 - o0 /\ o1 - f1 = 0 /\ Waits(classes) = o0 - f0
       /\ C < Waits(classes)
  <2>1. Level(text, p - 1) = o0 - f0 /\ h[N] = 1 + (o0 - f0)
    BY <1>5, <1>8
  <2>2. 1 + Waits(classes) = 1 + (o0 - f0)
    BY <1>5, <2>1
  <2>3. Waits(classes) = o0 - f0
    <3> HIDE DEF o0, f0
    <3> QED  BY <1>4, <1>11, <2>2
  <2> QED  BY <1>1, <1>4, <1>6, <1>7, <1>8, <1>10, <2>3
<1> HIDE DEF o1, o0, f1, f0
<1> QED  BY <1>4, <1>6, <1>7, <1>11, <1>12

(* The check of a switch's fi against the rest of the file raises no false  *)
(* alarm in the main script and outside modules, unless a fi is hidden as   *)
(* the end of a case (the comparison with fi_block_nesting in parse_switch).  *)
THEOREM AlarmIsReal == Spec => AlarmReal
<1> DEFINE Alarm == why' = "missing fi" /\ parses = 1 /\ importing = <<>>
                      /\ (\A i \in ts.masked : ts.tokens[i] # "fi")
                    => ~Grammatical(ts.tokens)
<1>1. Inv /\ Mirror /\ Verdict /\ [Next]_vars => [Alarm]_vars
  <2> SUFFICES ASSUME Inv, Mirror, Verdict, Next, why' = "missing fi", parses = 1,
                      importing = <<>>, \A i \in ts.masked : ts.tokens[i] # "fi"
               PROVE  ~Grammatical(ts.tokens)
    OBVIOUS
  <2>1. MissingFi /\ Parsing
    BY Reasons DEF Verdict, Error
  <2>2. PICK h, cut : Texts(h, cut)
    BY <2>1 DEF Mirror
  <2> QED  BY <2>1, <2>2, MissingWrong
<1> QED  BY <1>1, Mirroring, PTL DEF Spec, AlarmReal
=============================================================================
