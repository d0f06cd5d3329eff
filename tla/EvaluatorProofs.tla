-------------------------- MODULE EvaluatorProofs --------------------------
(***************************************************************************)
(* Proofs about Evaluator.  A step does one of five things to the stack of  *)
(* records: nothing, push, change the innermost, pop, or land a longjmp.    *)
(* Each shape preserves the invariant; each action has one of the shapes.   *)
(* The second half is about what the records save and give back: what a     *)
(* step does to the globals, by the kind of step (a record entered, changed, *)
(* left, abandoned); then, from these few facts, the pending control flow,  *)
(* the lock on constants, the scopes, and the steps of TryCatch that the    *)
(* evaluator's steps amount to.                                             *)
(***************************************************************************)
EXTENDS Evaluator, TLAPS, FiniteSetTheorems

IInv == TypeOK /\ EnvInnermost

(* What a step does to frames and exception_env.                            *)
Same == UNCHANGED <<frames, exception_env>>

Pushes(f) ==
  /\ f \in Frame /\ f.kind # "main"
  /\ depth < MaxDepth
  /\ frames' = Append(frames, f)
  /\ \/ Armed(f) /\ f.env = exception_env /\ exception_env' = depth + 1
     \/ ~Armed(f) /\ exception_env' = exception_env

Updates(f) ==
  /\ f \in Frame /\ f.kind = Top.kind
  /\ frames' = [frames EXCEPT ![depth] = f]
  /\ \/ ~Armed(Top) /\ ~Armed(f) /\ exception_env' = exception_env
     \/ ~Armed(Top) /\ Armed(f) /\ f.env = exception_env
                    /\ exception_env' = depth
     \/ Armed(Top) /\ ~Armed(f) /\ exception_env' = Top.env
     \/ Armed(Top) /\ Armed(f) /\ f.env = Top.env
                   /\ exception_env' = exception_env

Pops ==
  /\ frames' = SubSeq(frames, 1, depth - 1)
  /\ \/ Armed(Top) /\ exception_env' = Top.env
     \/ ~Armed(Top) /\ exception_env' = exception_env

Lands1 ==
  /\ exception_env # 0
  /\ exception_env' = Handler.env
  /\ \/ frames' = SubSeq(frames, 1, exception_env - 1)
     \/ \E f \in Frame :
          /\ f.kind = Handler.kind
          /\ ~Armed(f)
          /\ frames' = Append(SubSeq(frames, 1, exception_env - 1), f)

Fails == frames' = <<>> /\ exception_env' = 0

(* The part of the invariant that speaks of frames and exception_env.       *)
Records ==
  /\ frames \in Seq(Frame)
  /\ depth <= MaxDepth
  /\ \A k \in 1..depth : frames[k].kind = "main" <=> k = 1
  /\ exception_env \in 0..depth
  /\ EnvInnermost

-----------------------------------------------------------------------------
LEMMA InitRecords == Init => IInv
  BY ScopeAssumption, BoundAssumption
     DEF Init, IInv, TypeOK, EnvInnermost, InnermostBelow, Armed, Frame, Kind,
         EvalPhase, StepPhase, BodyPhase, ControlFlow, Context, MainScript,
         depth

(* Pushing a record, armed with the current handler saved, or not armed.    *)
LEMMA PushKeeps ==
  ASSUME Records, NEW f, Pushes(f), depth > 0
  PROVE  Records' /\ depth' = depth + 1
<1> USE DEF depth
<1>1. /\ f \in Frame
      /\ frames' \in Seq(Frame)
      /\ Len(frames') = Len(frames) + 1
      /\ \A k \in 1..Len(frames) : frames'[k] = frames[k]
      /\ frames'[Len(frames) + 1] = f
  BY DEF Records, Pushes
<1>2. Len(frames) \in Nat /\ MaxDepth \in Nat
  BY BoundAssumption DEF Records
<1>3. \A k \in 1..Len(frames') : frames'[k].kind = "main" <=> k = 1
  BY <1>1, <1>2 DEF Records, Pushes
<1>4. exception_env' \in 0..Len(frames')
  BY <1>1, <1>2 DEF Records, Pushes
<1>5. InnermostBelow(exception_env, depth + 1)' 
  BY <1>1, <1>2 DEF Records, Pushes, EnvInnermost, InnermostBelow, Armed
<1>6. ASSUME NEW k \in 1..Len(frames'), Armed(frames'[k])
      PROVE  InnermostBelow(frames[k].env, k)'
  <2>1. CASE k = Len(frames) + 1
    BY <1>1, <1>2, <1>6, <2>1
       DEF Records, Pushes, EnvInnermost, InnermostBelow, Armed
  <2>2. CASE k \in 1..Len(frames)
    <3>1. frames'[k] = frames[k] /\ InnermostBelow(frames[k].env, k)
      BY <1>1, <1>6, <2>2 DEF Records, EnvInnermost
    <3>2. \A j \in 1..(k - 1) : frames'[j] = frames[j]
      BY <1>1, <1>2, <2>2
    <3>3. PICK env : env = frames[k].env /\ env = frames'[k].env
                     /\ InnermostBelow(env, k)
      BY <3>1
    <3>4. /\ env \in 0..(k - 1) /\ k \in Nat
          /\ env # 0 => env \in 1..(k - 1) /\ Armed(frames'[env])
          /\ \A i \in (env + 1)..(k - 1) : i \in 1..(k - 1) /\ ~Armed(frames'[i])
      BY <1>2, <2>2, <3>2, <3>3 DEF InnermostBelow
    <3> QED  BY <3>3, <3>4 DEF InnermostBelow
  <2> QED  BY <1>1, <1>2, <2>1, <2>2
<1>7. depth' = depth + 1 /\ depth' <= MaxDepth
  BY <1>1, <1>2 DEF Pushes
<1> QED  BY <1>1, <1>3, <1>4, <1>5, <1>6, <1>7 DEF Records, EnvInnermost

(* Changing the innermost record: it may arm a handler or disarm its own.   *)
LEMMA UpdateKeeps ==
  ASSUME Records, NEW f, Updates(f), depth > 0
  PROVE  Records' /\ depth' = depth
<1> USE DEF depth
<1>1. /\ f \in Frame /\ f.kind = frames[Len(frames)].kind
      /\ frames' \in Seq(Frame)
      /\ Len(frames') = Len(frames)
      /\ \A k \in 1..Len(frames) :
           frames'[k] = IF k = Len(frames) THEN f ELSE frames[k]
  BY DEF Records, Updates, Top
<1>2. Len(frames) \in Nat
  BY DEF Records
<1>3. \A k \in 1..Len(frames') : frames'[k].kind = "main" <=> k = 1
  BY <1>1, <1>2 DEF Records
<1>4. InnermostBelow(exception_env, Len(frames) + 1)
  BY DEF Records, EnvInnermost
<1>5. \A k \in 1..Len(frames) :
        Armed(frames[k]) => InnermostBelow(frames[k].env, k)
  BY DEF Records, EnvInnermost
<1>6. Armed(frames[Len(frames)]) <=> exception_env = Len(frames)
  BY <1>2, <1>4 DEF InnermostBelow
<1>7. ASSUME ~Armed(frames[Len(frames)])
      PROVE  InnermostBelow(exception_env, Len(frames))
  BY <1>2, <1>4, <1>6, <1>7 DEF InnermostBelow
<1>8. ASSUME NEW e, NEW k \in 1..Len(frames), InnermostBelow(e, k)
      PROVE  InnermostBelow(e, k)'
  BY <1>1, <1>2, <1>8 DEF InnermostBelow
<1>9. InnermostBelow(exception_env, Len(frames) + 1)'
  <2>1. CASE ~Armed(Top) /\ ~Armed(f) /\ exception_env' = exception_env
    BY <1>1, <1>2, <1>4, <1>6, <2>1 DEF InnermostBelow, Top
  <2>2. CASE Armed(f) /\ exception_env' = depth
    BY <1>1, <1>2, <2>2 DEF InnermostBelow
  <2>3. CASE Armed(Top) /\ ~Armed(f) /\ exception_env' = Top.env
    BY <1>1, <1>2, <1>5, <2>3 DEF InnermostBelow, Top
  <2>4. CASE Armed(Top) /\ Armed(f) /\ exception_env' = exception_env
    BY <1>1, <1>2, <1>6, <2>4 DEF InnermostBelow, Top
  <2> QED
    BY <2>1, <2>2, <2>3, <2>4 DEF Updates
<1>10. ASSUME NEW k \in 1..Len(frames'), Armed(frames'[k])
       PROVE  InnermostBelow(frames[k].env, k)'
  <2>1. CASE k # Len(frames)
    BY <1>1, <1>2, <1>5, <1>8, <1>10, <2>1
  <2>2. CASE k = Len(frames)
    <3>1. InnermostBelow(f.env, k)
      BY <1>1, <1>2, <1>5, <1>7, <1>10, <2>2 DEF Updates, Top
    <3> QED
      BY <1>1, <1>2, <1>8, <2>2, <3>1
  <2> QED
    BY <2>1, <2>2
<1>11. exception_env' \in 0..Len(frames')
  BY <1>1, <1>2, <1>9 DEF InnermostBelow
<1>12. EnvInnermost'
  BY <1>9, <1>10 DEF EnvInnermost
<1> QED
  BY <1>1, <1>3, <1>11, <1>12 DEF Records

(* Cutting the stack at a depth where env was innermost.                    *)
LEMMA CutKeeps ==
  ASSUME Records, NEW n \in Nat, n <= depth, NEW e,
         frames' = SubSeq(frames, 1, n),
         exception_env' = e, InnermostBelow(e, n + 1)
  PROVE  Records' /\ depth' = n
<1> USE DEF depth
<1>1. /\ frames' \in Seq(Frame)
      /\ Len(frames') = n
      /\ \A k \in 1..n : frames'[k] = frames[k]
  BY DEF Records
<1>2. Len(frames) \in Nat /\ MaxDepth \in Nat
  BY BoundAssumption DEF Records
<1>3. \A k \in 1..n :
        Armed(frames[k]) => InnermostBelow(frames[k].env, k)
  BY <1>2 DEF Records, EnvInnermost
<1>4. ASSUME NEW g, NEW k \in 1..(n + 1), InnermostBelow(g, k)
      PROVE  /\ g \in 0..(k - 1)
             /\ g # 0 => Armed(frames'[g])
             /\ \A i \in (g + 1)..(k - 1) : ~Armed(frames'[i])
  BY <1>1, <1>2, <1>4 DEF InnermostBelow
<1>5. InnermostBelow(exception_env, Len(frames) + 1)'
  BY <1>1, <1>2, <1>4 DEF InnermostBelow
<1>6. \A k \in 1..Len(frames') :
        Armed(frames'[k]) => InnermostBelow(frames[k].env, k)'
  BY <1>1, <1>2, <1>3, <1>4 DEF InnermostBelow
<1>7. \A k \in 1..Len(frames') : frames'[k].kind = "main" <=> k = 1
  BY <1>1, <1>2 DEF Records
<1>8. exception_env' \in 0..Len(frames')
  BY <1>1, <1>2 DEF InnermostBelow
<1>9. EnvInnermost'
  BY <1>5, <1>6 DEF EnvInnermost
<1> QED
  BY <1>1, <1>2, <1>7, <1>8, <1>9 DEF Records

LEMMA PopKeeps ==
  ASSUME Records, Pops, depth > 0
  PROVE  Records' /\ depth' = depth - 1
<1>1. depth \in Nat /\ depth - 1 \in 0..depth
  BY DEF Records, depth
<1>2. InnermostBelow(exception_env, depth + 1)
  BY DEF Records, EnvInnermost
<1> DEFINE e == IF Armed(Top) THEN Top.env ELSE exception_env
<1>3. InnermostBelow(e, depth)
  BY <1>1, <1>2 DEF Records, EnvInnermost, InnermostBelow, Top
<1>4. depth - 1 \in Nat /\ depth - 1 <= depth /\ depth - 1 + 1 = depth
  BY <1>1
<1>5. exception_env' = e
  BY DEF Pops
<1> HIDE DEF e
<1> QED
  BY <1>3, <1>4, <1>5, CutKeeps DEF Pops

(* A longjmp: the record that armed the handler goes, or stays disarmed.    *)
LEMMA LandKeeps ==
  ASSUME Records, Lands1
  PROVE  Records' /\ depth' > 0
<1> DEFINE h == exception_env
<1>1. depth \in Nat /\ h \in 1..depth
  BY DEF Records, depth, Lands1
<1>2. Armed(Handler) /\ InnermostBelow(Handler.env, h)
  BY <1>1 DEF Records, EnvInnermost, InnermostBelow, Handler
<1>3. h # 1 /\ Handler.kind # "main"
  BY <1>1, <1>2 DEF Records, Armed, Handler
<1>4. CASE frames' = SubSeq(frames, 1, h - 1)
  <2>1. h - 1 \in Nat /\ h - 1 <= depth /\ h - 1 > 0 /\ h - 1 + 1 = h
    BY <1>1, <1>3
  <2> QED
    BY <1>2, <1>4, <2>1, CutKeeps DEF Lands1
<1>5. ASSUME NEW f \in Frame, f.kind = Handler.kind, ~Armed(f),
             frames' = Append(SubSeq(frames, 1, h - 1), f)
      PROVE  Records' /\ depth' > 0
  <2> USE DEF depth
  <2>1. /\ frames' \in Seq(Frame)
        /\ Len(frames') = h
        /\ \A k \in 1..(h - 1) : frames'[k] = frames[k]
        /\ frames'[h] = f
    BY <1>1, <1>5 DEF Records
  <2>2. \A k \in 1..h : frames'[k].kind = "main" <=> k = 1
    BY <1>1, <1>3, <1>5, <2>1 DEF Records
  <2>3. InnermostBelow(exception_env, depth + 1)'
    BY <1>1, <1>2, <1>5, <2>1 DEF InnermostBelow, Lands1
  <2>4. ASSUME NEW k \in 1..h, Armed(frames'[k])
        PROVE  InnermostBelow(frames[k].env, k)'
    BY <1>1, <1>5, <2>1, <2>4 DEF Records, EnvInnermost, InnermostBelow
  <2>5. depth' <= MaxDepth /\ exception_env' \in 0..depth'
    BY <1>1, <1>2, <2>1, BoundAssumption
       DEF Records, InnermostBelow, Lands1
  <2> QED
    BY <1>1, <2>1, <2>2, <2>3, <2>4, <2>5 DEF Records, EnvInnermost
<1> QED
  BY <1>4, <1>5 DEF Lands1

LEMMA FailKeeps ==
  ASSUME Fails
  PROVE  Records' /\ depth' = 0
  BY BoundAssumption
     DEF Fails, Records, EnvInnermost, InnermostBelow, depth

-----------------------------------------------------------------------------
(* The rest of TypeOK.                                                      *)
Rest ==
  /\ mode \in {"run", "unwind", "done", "failed"}
  /\ mode \in {"run", "unwind"} => current_scope \in Scope
  /\ control_flow \in ControlFlow
  /\ current_scope \in Scope \cup {NoScope}
  /\ DOMAIN chain \subseteq Scope
  /\ context \in Context

LEMMA Parts ==
  /\ IInv => Records /\ Rest /\ (mode \in {"run", "unwind"} => depth > 0)
  /\ Records' /\ Rest' /\ (mode' \in {"run", "unwind"} => depth' > 0) => IInv'
  BY DEF IInv, TypeOK, Records, Rest

(* What is known while the script runs.                                     *)
LEMMA Running ==
  ASSUME IInv, mode = "run"
  PROVE  /\ depth \in Nat /\ depth > 0 /\ depth \in 0..MaxDepth
         /\ MaxDepth \in Nat
         /\ Top \in Frame
         /\ current_scope \in Scope
         /\ exception_env \in 0..MaxDepth
         /\ context \in Context /\ MainScript \in Context
         /\ control_flow \in ControlFlow
         /\ DOMAIN chain \subseteq Scope
         /\ Top.kind = "main" <=> depth = 1
<1>1. depth \in Nat /\ depth > 0 /\ depth \in 0..MaxDepth /\ MaxDepth \in Nat
  BY BoundAssumption DEF IInv, TypeOK, depth
<1>2. Top \in Frame /\ (Top.kind = "main" <=> depth = 1)
  <2>1. depth \in 1..depth
    BY <1>1
  <2>2. frames[depth].kind = "main" <=> depth = 1
    BY <2>1 DEF IInv, TypeOK
  <2>3. frames[depth] \in Frame
    BY <2>1 DEF IInv, TypeOK, depth
  <2> QED
    BY <2>2, <2>3 DEF Top
<1>3. exception_env \in 0..MaxDepth
  BY <1>1 DEF IInv, TypeOK
<1>4. MainScript \in Context
  BY <1>1 DEF MainScript, Context
<1> QED
  BY <1>1, <1>2, <1>3, <1>4 DEF IInv, TypeOK

(* A fresh record.                                                          *)
LEMMA FreshFrame ==
  ASSUME IInv, mode = "run", NEW kind \in Kind,
         NEW phase \in EvalPhase \cup StepPhase \cup BodyPhase
  PROVE  /\ NewFrame(kind, phase) \in Frame
         /\ NewFrame(kind, phase).kind = kind
         /\ NewFrame(kind, phase).phase = phase
         /\ NewFrame(kind, phase).env = exception_env
         /\ \A s \in Scope :
              LET f == [NewFrame(kind, phase) EXCEPT !.own = s]
              IN  /\ f \in Frame /\ f.kind = kind /\ f.phase = phase
                  /\ f.env = exception_env
<1> DEFINE f == NewFrame(kind, phase)
<1>1. f \in Frame
  BY Running DEF NewFrame, Frame, ControlFlow
<1>2. f.kind = kind /\ f.phase = phase /\ f.env = exception_env
  BY DEF NewFrame
<1>3. ASSUME NEW s \in Scope
      PROVE  LET g == [f EXCEPT !.own = s]
             IN  /\ g \in Frame /\ g.kind = kind /\ g.phase = phase
                 /\ g.env = exception_env
  <2> HIDE DEF f
  <2> QED
    BY <1>1, <1>2, <1>3 DEF Frame
<1> QED
  BY <1>1, <1>2, <1>3

(* The steps that push a record.                                            *)
LEMMA PushSteps ==
  ASSUME IInv, mode = "run",
         \/ \E s \in Scope : CallUser(s)
         \/ CallBuiltin
         \/ \E s \in Scope : BuildMap(s)
         \/ \E kind \in {"if", "switch"} : EnterChoice(kind)
         \/ EnterWhile
         \/ EnterFor
         \/ EnterForIn
         \/ EnterImport
         \/ EnterTry
         \/ EnterExecute
         \/ EnterFlags
         \/ ParseFlag
  PROVE  (\E f : Pushes(f)) /\ Rest' /\ mode' = "run"
<1> USE DEF Push, Pushes, Armed, Rest, Kind, EvalPhase, StepPhase, BodyPhase
<1>1. ASSUME NEW s \in Scope, CallUser(s)
      PROVE  (\E f : Pushes(f)) /\ Rest' /\ mode' = "run"
  <2>1. Pushes([NewFrame("func", "args") EXCEPT !.own = s])
    BY <1>1, Running, FreshFrame DEF CallUser
  <2> QED
    BY <1>1, <2>1, Running DEF CallUser, scope_new
<1>2. CASE CallBuiltin
  <2>1. Pushes(NewFrame("builtin", "args"))
    BY <1>2, Running, FreshFrame DEF CallBuiltin
  <2> QED
    BY <1>2, <2>1, Running DEF CallBuiltin
<1>3. ASSUME NEW s \in Scope, BuildMap(s)
      PROVE  (\E f : Pushes(f)) /\ Rest' /\ mode' = "run"
  <2>1. Pushes([NewFrame("map", "eval") EXCEPT !.own = s])
    BY <1>3, Running, FreshFrame DEF BuildMap
  <2> QED
    BY <1>3, <2>1, Running DEF BuildMap, scope_new
<1>4. ASSUME NEW kind \in {"if", "switch"}, EnterChoice(kind)
      PROVE  (\E f : Pushes(f)) /\ Rest' /\ mode' = "run"
  <2>1. Pushes(NewFrame(kind, "eval"))
    BY <1>4, Running, FreshFrame DEF EnterChoice
  <2> QED
    BY <1>4, <2>1, Running DEF EnterChoice
<1>5. CASE EnterWhile
  <2>1. Pushes(NewFrame("while", "eval"))
    BY <1>5, Running, FreshFrame DEF EnterWhile
  <2> QED
    BY <1>5, <2>1, Running DEF EnterWhile
<1>6. CASE EnterFor
  <2>1. Pushes(NewFrame("for", "init"))
    BY <1>6, Running, FreshFrame DEF EnterFor
  <2> QED
    BY <1>6, <2>1, Running DEF EnterFor
<1>7. CASE EnterForIn
  <2>1. Pushes(NewFrame("forin", "eval"))
    BY <1>7, Running, FreshFrame DEF EnterForIn
  <2> QED
    BY <1>7, <2>1, Running DEF EnterForIn
<1>8. CASE EnterImport
  <2>1. Pushes(NewFrame("import", "body"))
    BY <1>8, Running, FreshFrame DEF EnterImport
  <2> QED
    BY <1>8, <2>1, Running, ScopeAssumption DEF EnterImport
<1>9. CASE EnterTry
  <2>1. Pushes(NewFrame("try", "body"))
    BY <1>9, Running, FreshFrame DEF EnterTry
  <2> QED
    BY <1>9, <2>1, Running DEF EnterTry
<1>10. CASE EnterExecute
  <2>1. Pushes(NewFrame("execute", "eval"))
    BY <1>10, Running, FreshFrame DEF EnterExecute
  <2> QED
    BY <1>10, <2>1, Running DEF EnterExecute, Context
<1>11. CASE EnterFlags
  <2>1. Pushes(NewFrame("flags", "match"))
    BY <1>11, Running, FreshFrame DEF EnterFlags
  <2> QED
    BY <1>11, <2>1, Running DEF EnterFlags
<1>12. CASE ParseFlag
  <2>1. Pushes(NewFrame("flag", "parse"))
    BY <1>12, Running, FreshFrame DEF ParseFlag
  <2> QED
    BY <1>12, <2>1, Running DEF ParseFlag, Context
<1> QED
  BY <1>1, <1>2, <1>3, <1>4, <1>5, <1>6, <1>7, <1>8, <1>9, <1>10, <1>11, <1>12

(* The steps that change the innermost record.                              *)
LEMMA UpdateSteps ==
  ASSUME IInv, mode = "run",
         \/ EnterFunction
         \/ \E kind \in {"if", "switch"} : ChooseBlock(kind)
         \/ DefineLoopVariable
         \/ \E s \in Scope : EnterIteration(s)
         \/ NextIteration
         \/ HaveIterable
         \/ \E s \in Scope : BindItem(s)
         \/ ArmIteration
         \/ NextItem
         \/ SetScriptArgs
         \/ OpenScript
         \/ \E s \in Scope : RunScript(s)
         \/ RunFlag
  PROVE  (\E f : Updates(f)) /\ Rest' /\ mode' = "run"
<1> USE DEF SetTop, At, BlockOver, Updates, Armed, Rest
<1>0. Top \in Frame
  BY Running
<1> USE DEF EvalPhase, StepPhase, BodyPhase
<1>1. CASE EnterFunction
  <2>1. Updates([Top EXCEPT !.phase = "body", !.cf = control_flow])
    BY <1>1, <1>0, Running DEF EnterFunction, Frame
  <2> QED
    BY <1>1, <1>0, <2>1, Running DEF EnterFunction, ControlFlow, Frame
<1>2. ASSUME NEW kind \in {"if", "switch"}, ChooseBlock(kind)
      PROVE  (\E f : Updates(f)) /\ Rest' /\ mode' = "run"
  <2>1. Updates([Top EXCEPT !.phase = "body"])
    BY <1>2, <1>0, Running DEF ChooseBlock, Frame
  <2> QED
    BY <1>2, <1>0, <2>1, Running DEF ChooseBlock, Frame
<1>3. CASE DefineLoopVariable
  <2>1. ASSUME NEW s \in Scope, scope_new(s, Top.old), current_scope' = s,
               SetTop([Top EXCEPT !.phase = "eval", !.own = s])
        PROVE  (\E f : Updates(f)) /\ Rest' /\ mode' = "run"
    <3> DEFINE f == [Top EXCEPT !.phase = "eval", !.own = s]
    <3>0. f \in Frame /\ f.kind = Top.kind /\ f.phase = "eval"
      BY <1>0, <2>1 DEF Frame
    <3>1. /\ frames' = [frames EXCEPT ![depth] = f]
          /\ Top.kind = "for" /\ exception_env' = exception_env
          /\ mode' = "run" /\ control_flow' = control_flow
          /\ context' = context
      BY <1>3, <2>1 DEF DefineLoopVariable
    <3>2. Updates(f)
      <4> HIDE DEF f
      <4> QED
        BY <3>0, <3>1
    <3>3. DOMAIN chain' \subseteq Scope
      BY <2>1, Running DEF scope_new
    <3>4. Rest'
      BY <2>1, <3>1, <3>3, Running
    <3> QED
      BY <3>1, <3>2, <3>4
  <2>2. ASSUME current_scope' = super_global_scope, UNCHANGED chain,
               SetTop([Top EXCEPT !.phase = "eval"])
        PROVE  (\E f : Updates(f)) /\ Rest' /\ mode' = "run"
    <3>1. Updates([Top EXCEPT !.phase = "eval"])
      BY <1>3, <1>0, <2>2 DEF DefineLoopVariable, Frame
    <3> QED
      BY <1>3, <2>2, <3>1, Running, ScopeAssumption DEF DefineLoopVariable
  <2> QED
    BY <1>3, <2>1, <2>2 DEF DefineLoopVariable
<1>4. ASSUME NEW s \in Scope, EnterIteration(s)
      PROVE  (\E f : Updates(f)) /\ Rest' /\ mode' = "run"
  <2> DEFINE o == IF Top.kind = "while" THEN current_scope ELSE Top.old
             f == [Top EXCEPT !.phase = "body", !.iter = s, !.n = Top.n + 1,
                              !.old = o]
  <2>0. f \in Frame /\ f.kind = Top.kind /\ f.phase = "body"
    <3>1. o \in Scope /\ Top.n + 1 \in Nat
      BY <1>0, Running DEF Frame
    <3> HIDE DEF o
    <3> QED
      BY <1>0, <1>4, <3>1 DEF Frame
  <2>1. Updates(f)
    <3>1. frames' = [frames EXCEPT ![depth] = f]
      BY <1>4 DEF EnterIteration
    <3> HIDE DEF f
    <3> QED
      BY <1>4, <2>0, <3>1 DEF EnterIteration
  <2> QED
    BY <1>4, <1>0, <2>1, Running DEF EnterIteration, scope_new, Frame
<1>5. CASE NextIteration
  <2>1. Updates([Top EXCEPT !.phase = "eval", !.iter = NoScope])
    BY <1>5, <1>0, Running DEF NextIteration, Frame
  <2> QED
    BY <1>5, <1>0, <2>1, Running, ScopeAssumption DEF NextIteration, scope_free, for_scope, AfterBody, BlockOver, ControlFlow, Frame
<1>6. CASE HaveIterable
  <2>1. Updates([Top EXCEPT !.phase = "next"])
    BY <1>6, <1>0, Running DEF HaveIterable, Frame
  <2> QED
    BY <1>6, <1>0, <2>1, Running DEF HaveIterable, Frame
<1>7. ASSUME NEW s \in Scope, BindItem(s)
      PROVE  (\E f : Updates(f)) /\ Rest' /\ mode' = "run"
  <2>1. Updates([Top EXCEPT !.phase = "bind", !.iter = s, !.old = current_scope])
    BY <1>7, <1>0, Running DEF BindItem, Frame
  <2> QED
    BY <1>7, <1>0, <2>1, Running DEF BindItem, scope_new, Frame
<1>8. CASE ArmIteration
  <2>1. Updates([Top EXCEPT !.phase = "body", !.env = exception_env])
    BY <1>8, <1>0, Running DEF ArmIteration, Frame
  <2> QED
    BY <1>8, <1>0, <2>1, Running DEF ArmIteration, Frame
<1>9. CASE NextItem
  <2>1. Updates([Top EXCEPT !.phase = "next", !.iter = NoScope])
    BY <1>9, <1>0, Running DEF NextItem, Frame
  <2> QED
    BY <1>9, <1>0, <2>1, Running DEF NextItem, scope_free, AfterBody, BlockOver, ControlFlow, Frame
<1>10. CASE SetScriptArgs
  <2>1. Updates([Top EXCEPT !.phase = "open"])
    BY <1>10, <1>0, Running DEF SetScriptArgs, Frame
  <2> QED
    BY <1>10, <1>0, <2>1, Running DEF SetScriptArgs, Context, Frame
<1>11. CASE OpenScript
  <2>1. Updates([Top EXCEPT !.phase = "parse"])
    BY <1>11, <1>0, Running DEF OpenScript, Frame
  <2> QED
    BY <1>11, <1>0, <2>1, Running DEF OpenScript, Context, Frame
<1>12. ASSUME NEW s \in Scope, RunScript(s)
      PROVE  (\E f : Updates(f)) /\ Rest' /\ mode' = "run"
  <2>1. Updates([Top EXCEPT !.phase = "body", !.own = s, !.old = current_scope])
    BY <1>12, <1>0, Running DEF RunScript, Frame
  <2> QED
    BY <1>12, <1>0, <2>1, Running DEF RunScript, scope_new, Context, Frame
<1>13. CASE RunFlag
  <2>1. Updates([Top EXCEPT !.phase = "body"])
    BY <1>13, <1>0, Running DEF RunFlag, Frame
  <2> QED
    BY <1>13, <1>0, <2>1, Running DEF RunFlag, Frame
<1> QED
  BY <1>1, <1>2, <1>3, <1>4, <1>5, <1>6, <1>7, <1>8, <1>9, <1>10, <1>11, <1>12, <1>13

(* The steps that pop the innermost record; it is never the program's own.  *)
LEMMA PopSteps ==
  ASSUME IInv, mode = "run",
         \/ LeaveFunction
         \/ LeaveBuiltin
         \/ LeaveMap
         \/ LeaveIf
         \/ LeaveSwitch
         \/ EndLoop
         \/ LeaveLoop
         \/ LeaveForIn
         \/ EndForIn
         \/ LeaveImport
         \/ LeaveTry
         \/ LeaveExecute
         \/ LeaveFlag
         \/ LeaveFlags
  PROVE  Pops /\ Rest' /\ mode' = "run" /\ Top.kind # "main"
<1> USE DEF Pop, Pops, At, BlockOver, Armed, Rest
<1>0. Top \in Frame
  BY Running
<1>1. CASE LeaveFunction
  BY <1>0, <1>1, Running DEF LeaveFunction, Frame, scope_free
<1>2. CASE LeaveBuiltin
  BY <1>0, <1>2, Running DEF LeaveBuiltin, Frame
<1>3. CASE LeaveMap
  BY <1>0, <1>3, Running DEF LeaveMap, Frame, scope_free
<1>4. CASE LeaveIf
  BY <1>0, <1>4, Running DEF LeaveIf, Frame
<1>5. CASE LeaveSwitch
  BY <1>0, <1>5, Running DEF LeaveSwitch, Frame, ControlFlow
<1>6. CASE EndLoop
  BY <1>0, <1>6, Running DEF EndLoop, Frame, scope_free
<1>7. CASE LeaveLoop
  BY <1>0, <1>7, Running DEF LeaveLoop, Frame, scope_free, AfterBody, ControlFlow
<1>8. CASE LeaveForIn
  BY <1>0, <1>8, Running DEF LeaveForIn, Frame, scope_free, AfterBody, ControlFlow
<1>9. CASE EndForIn
  BY <1>0, <1>9, Running DEF EndForIn, Frame
<1>10. CASE LeaveImport
  BY <1>0, <1>10, Running DEF LeaveImport, Frame
<1>11. CASE LeaveTry
  BY <1>0, <1>11, Running DEF LeaveTry, Frame
<1>12. CASE LeaveExecute
  BY <1>0, <1>12, Running DEF LeaveExecute, Frame, scope_free, Context
<1>13. CASE LeaveFlag
  BY <1>0, <1>13, Running DEF LeaveFlag, Frame, Context
<1>14. CASE LeaveFlags
  BY <1>0, <1>14, Running DEF LeaveFlags, Frame
<1> QED
  BY <1>1, <1>2, <1>3, <1>4, <1>5, <1>6, <1>7, <1>8, <1>9, <1>10, <1>11, <1>12, <1>13, <1>14

(* The steps that leave the records alone.                                  *)
LEMMA QuietSteps ==
  ASSUME IInv,
         \/ \E cf \in ControlFlow \ {"none"} : SetControlFlow(cf)
         \/ RepeatHere
         \/ Raise
  PROVE  Same /\ Rest' /\ mode = "run" /\ mode' \in {"run", "unwind"}
<1> USE DEF Same, Rest, IInv, TypeOK
<1>1. ASSUME NEW cf \in ControlFlow \ {"none"}, SetControlFlow(cf)
      PROVE  Same /\ Rest' /\ mode = "run" /\ mode' \in {"run", "unwind"}
  BY <1>1 DEF SetControlFlow, CanExec
<1>2. CASE RepeatHere
  BY <1>2 DEF RepeatHere, ControlFlow
<1>3. CASE Raise
  BY <1>3 DEF Raise, CanRaise, CanEval
<1> QED
  BY <1>1, <1>2, <1>3

(* The handler a longjmp lands in is a record.                              *)
LEMMA HandlerFrame ==
  ASSUME IInv, exception_env # 0
  PROVE  Handler \in Frame
<1>1. exception_env \in 1..Len(frames)
  BY DEF IInv, TypeOK, depth
<1> QED
  BY <1>1 DEF IInv, TypeOK, Handler

LEMMA UnwindSteps ==
  ASSUME IInv, Catch \/ Rethrow
  PROVE  Lands1 /\ Rest' /\ mode = "unwind"
<1> USE DEF Lands, Lands1, Rest
<1>1. Handler \in Frame /\ current_scope \in Scope /\ Rest
  BY HandlerFrame, Parts DEF Catch, Rethrow
<1>2. CASE Catch
  <2> DEFINE f == [Handler EXCEPT !.phase = "catch"]
  <2>1. f \in Frame /\ f.kind = Handler.kind /\ f.phase = "catch"
    BY <1>1 DEF Frame, BodyPhase
  <2>2. /\ frames' = Append(SubSeq(frames, 1, exception_env - 1), f)
        /\ Handler.kind = "try"
    BY <1>2 DEF Catch
  <2>3. ~Armed(f)
    BY <2>1, <2>2 DEF Armed
  <2> HIDE DEF f
  <2>4. Lands1
    BY <1>2, <2>1, <2>2, <2>3 DEF Catch
  <2> QED
    BY <1>1, <1>2, <2>4 DEF Catch
<1>3. CASE Rethrow
  <2>1. Lands1
    BY <1>3 DEF Rethrow
  <2>2. Rest'
    BY <1>1, <1>3 DEF Rethrow, scope_free, Frame, Context
  <2> QED
    BY <1>3, <2>1, <2>2 DEF Rethrow
<1> QED
  BY <1>2, <1>3

-----------------------------------------------------------------------------
(* Each shape preserves the invariant.                                      *)
LEMMA Pushed ==
  ASSUME IInv, mode = "run", (\E f : Pushes(f)) /\ Rest' /\ mode' = "run"
  PROVE  IInv'
<1>1. PICK f : Pushes(f)
  OBVIOUS
<1>2. depth \in Nat /\ depth > 0 /\ Records
  BY Running, Parts
<1>3. Records' /\ depth' = depth + 1
  BY <1>1, <1>2, PushKeeps
<1> QED
  BY <1>2, <1>3, Parts

LEMMA Updated ==
  ASSUME IInv, mode = "run", (\E f : Updates(f)) /\ Rest' /\ mode' = "run"
  PROVE  IInv'
<1>1. PICK f : Updates(f)
  OBVIOUS
<1>2. depth > 0 /\ Records
  BY Running, Parts
<1>3. Records' /\ depth' = depth
  BY <1>1, <1>2, UpdateKeeps
<1> QED
  BY <1>2, <1>3, Parts

LEMMA Popped ==
  ASSUME IInv, mode = "run", Pops /\ Rest' /\ mode' = "run",
         Top.kind # "main"
  PROVE  IInv'
<1>1. depth \in Nat /\ depth > 1 /\ Records
  BY Running, Parts
<1>2. Records' /\ depth' = depth - 1
  BY <1>1, PopKeeps
<1> QED
  BY <1>1, <1>2, Parts

LEMMA Quiet ==
  ASSUME IInv,
         \/ \E cf \in ControlFlow \ {"none"} : SetControlFlow(cf)
         \/ RepeatHere
         \/ Raise
  PROVE  IInv'
<1>1. Same /\ Rest' /\ mode = "run"
  BY QuietSteps
<1>2. Records /\ depth > 0
  BY <1>1, Parts
<1>3. Records' /\ depth' = depth
  BY <1>1, <1>2 DEF Same, Records, EnvInnermost, InnermostBelow, depth
<1> QED
  BY <1>1, <1>2, <1>3, Parts

(* Every step of the evaluator preserves the invariant.                     *)
LEMMA NextKeeps == IInv /\ [Next]_vars => IInv'
<1> SUFFICES ASSUME IInv, [Next]_vars
             PROVE  IInv'
  OBVIOUS
<1>0. Records /\ Rest
  BY Parts
<1>1. CASE Expressions
  <2>1. mode = "run"
    BY <1>1
       DEF Expressions, CallUser, BuildMap, EnterFunction, LeaveFunction,
           CallBuiltin, LeaveBuiltin, LeaveMap, CanEval, At, BlockOver
  <2> QED
    BY <1>1, <2>1, PushSteps, UpdateSteps, PopSteps, Pushed, Updated, Popped
         DEF Expressions
<1>2. CASE Statements
  <2>1. CASE (\E cf \in ControlFlow \ {"none"} : SetControlFlow(cf))
             \/ RepeatHere
    BY <2>1, Quiet
  <2>2. CASE ~((\E cf \in ControlFlow \ {"none"} : SetControlFlow(cf))
               \/ RepeatHere)
    <3>1. mode = "run"
      BY <1>2, <2>2
         DEF Statements, EnterChoice, ChooseBlock, LeaveIf, LeaveSwitch,
             EnterImport, LeaveImport, EnterTry, LeaveTry, CanExec, At,
             BlockOver
    <3> QED
      BY <1>2, <2>2, <3>1, PushSteps, UpdateSteps, PopSteps, Pushed, Updated,
         Popped DEF Statements
  <2> QED
    BY <2>1, <2>2
<1>3. CASE Loops
  <2>1. mode = "run"
    BY <1>3
       DEF Loops, EnterWhile, EnterFor, DefineLoopVariable, EnterIteration,
           BindItem, EndLoop, NextIteration, LeaveLoop, EnterForIn,
           HaveIterable, ArmIteration, NextItem, LeaveForIn, EndForIn,
           CanExec, At, BlockOver
  <2> QED
    BY <1>3, <2>1, PushSteps, UpdateSteps, PopSteps, Pushed, Updated,
       Popped DEF Loops
<1>4. CASE Scripts
  <2>1. mode = "run"
    BY <1>4
       DEF Scripts, EnterExecute, SetScriptArgs, OpenScript, RunScript,
           LeaveExecute, EnterFlags, ParseFlag, RunFlag, LeaveFlag,
           LeaveFlags, CanExec, At, BlockOver
  <2> QED
    BY <1>4, <2>1, PushSteps, UpdateSteps, PopSteps, Pushed, Updated,
       Popped DEF Scripts
<1>5. CASE Raise
  BY <1>5, Quiet
<1>6. CASE Catch \/ Rethrow
  BY <1>0, <1>6, UnwindSteps, LandKeeps, Parts
<1>7. CASE Uncaught
  <2>1. Fails /\ mode' = "failed" /\ Rest'
    BY <1>0, <1>7 DEF Uncaught, Fails, Rest, scope_free
  <2> QED
    BY <2>1, FailKeeps, Parts
<1>8. CASE Finish
  <2>1. mode = "run" /\ Top.kind = "main" /\ ~Armed(Top)
    BY <1>8 DEF Finish, BlockOver, Armed
  <2>2. depth = 1 /\ Pops /\ Rest' /\ mode' = "done"
    BY <1>0, <1>8, <2>1, Running
       DEF Finish, Pop, Pops, Rest, scope_free
  <2> QED
    BY <1>0, <2>2, PopKeeps, Parts
<1>9. CASE UNCHANGED vars
  BY <1>9 DEF vars, IInv, TypeOK, EnvInnermost, InnermostBelow, depth
<1> QED
  BY <1>1, <1>2, <1>3, <1>4, <1>5, <1>6, <1>7, <1>8, <1>9
     DEF Next, Unwinding

-----------------------------------------------------------------------------
(* eval_stmt.c, eval_call.c, eval_literal.c, eval_flag.c: the control state *)
(* stays well formed (in particular no record but the program's ends the    *)
(* program, and exception_env never names a record that has returned).      *)
THEOREM TypeCorrect == Spec => []TypeOK
<1>1. Init => IInv
  BY InitRecords
<1>2. IInv /\ [Next]_vars => IInv'
  BY NextKeeps
<1>3. IInv => TypeOK
  BY DEF IInv
<1> QED
  BY <1>1, <1>2, <1>3, PTL DEF Spec

(* However the constructs nest, exception_env is the setjmp of the          *)
(* innermost construct that has one and has not ended.                      *)
THEOREM HandlersNest == Spec => []EnvInnermost
<1>1. Init => IInv
  BY InitRecords
<1>2. IInv /\ [Next]_vars => IInv'
  BY NextKeeps
<1>3. IInv => EnvInnermost
  BY DEF IInv
<1> QED
  BY <1>1, <1>2, <1>3, PTL DEF Spec

-----------------------------------------------------------------------------
(* What the records save is given back.                                     *)
Calls == {"func", "builtin", "map"}
Plain == {"if", "switch", "while", "for", "forin", "import", "try", "execute",
          "flags"}

(* A record on its own. A function saves no pending control flow, because   *)
(* nothing is called while one is pending.                                  *)
Formed(f) ==
  /\ f.cf = "none"
  /\ f.kind \in {"flags", "flag"} => f.phase \notin EvalPhase
  /\ f.kind = "flags" => f.phase \notin BodyPhase
  /\ f.kind = "builtin" => f.phase = "args"

(* A record f on a record g: statements in blocks, flags in flags; and only *)
(* calls in the arguments of a native function, which runs no block.        *)
Nests(g, f) ==
  /\ f.kind \in Plain => g.phase \in BodyPhase
  /\ f.kind = "flag" => g.kind = "flags"
  /\ g.kind = "builtin" => f.kind \in Calls /\ f.old = g.old

Discipline ==
  /\ \A k \in 1..depth : Formed(frames[k]) /\ InnermostBelow(frames[k].env, k)
  /\ \A k \in 2..depth : Nests(frames[k - 1], frames[k])
  /\ mode = "run" /\ Top.kind = "builtin" => current_scope = Top.old

FInv == IInv /\ Discipline /\ PendingFlow

-----------------------------------------------------------------------------
(* The steps, by what they do to the records.                               *)

Enters(f) ==
  /\ f \in Frame /\ frames' = Append(frames, f)
  /\ Formed(f)
  /\ f.old = current_scope /\ f.env = exception_env /\ f.iter = NoScope
  /\ f.kind \in {"execute", "flag"} => f.ctx = context
  /\ \/ f.kind \in Calls /\ CanEval
     \/ f.kind \in Plain /\ CanExec
     \/ f.kind = "flag" /\ At("flags", "match")
  /\ control_flow' = control_flow
  /\ context'.allowed = IF f.kind = "execute" THEN FALSE ELSE context.allowed
  /\ f.kind = "builtin" => current_scope' = current_scope
  /\ \/ /\ chain' = chain /\ f.own = NoScope
        /\ current_scope' \in {current_scope, global_scope}
     \/ \E s \in Scope : /\ scope_new(s, current_scope)
                         /\ f.own = s /\ current_scope' = s
                         /\ f.kind \in {"func", "map"}

EnterSteps ==
  \/ \E s \in Scope : CallUser(s) \/ BuildMap(s)
  \/ CallBuiltin
  \/ \E kind \in {"if", "switch"} : EnterChoice(kind)
  \/ EnterWhile \/ EnterFor \/ EnterForIn \/ EnterImport \/ EnterTry
  \/ EnterExecute \/ EnterFlags \/ ParseFlag

(* A new record of a kind, at a phase, that owns own.                       *)
Fresh(f, kind, phase, own) ==
  /\ f \in Frame /\ f.kind = kind /\ f.phase = phase /\ f.own = own
  /\ f.cf = "none" /\ f.old = current_scope /\ f.env = exception_env
  /\ f.iter = NoScope
  /\ kind \in {"execute", "flag"} => f.ctx = context

LEMMA NewRecord ==
  ASSUME IInv, mode = "run", NEW kind \in Kind,
         NEW phase \in EvalPhase \cup StepPhase \cup BodyPhase
  PROVE  /\ Fresh(NewFrame(kind, phase), kind, phase, NoScope)
         /\ \A s \in Scope :
              Fresh([NewFrame(kind, phase) EXCEPT !.own = s], kind, phase, s)
  BY FreshFrame DEF NewFrame, Fresh

LEMMA Entering ==
  ASSUME IInv, EnterSteps
  PROVE  mode = "run" /\ mode' = "run" /\ \E f : Enters(f)
<1>0. mode = "run"
  BY DEF EnterSteps, CallUser, BuildMap, CallBuiltin, EnterChoice, EnterWhile,
         EnterFor, EnterForIn, EnterImport, EnterTry, EnterExecute, EnterFlags,
         ParseFlag, CanEval, CanExec, At
<1>1. /\ context \in Context /\ current_scope \in Scope
      /\ {"args", "eval", "init", "body", "match", "parse"}
           \subseteq EvalPhase \cup StepPhase \cup BodyPhase
      /\ (Calls \cup Plain \cup {"flag"}) \subseteq Kind
  BY <1>0, Running
     DEF EvalPhase, StepPhase, BodyPhase, Calls, Plain, Kind
<1> USE DEF Fresh, Formed, EvalPhase, StepPhase, BodyPhase, Calls,
            Plain, Push
<1>2. ASSUME NEW s \in Scope, CallUser(s)
      PROVE  mode' = "run" /\ \E f : Enters(f)
  <2> DEFINE f == [NewFrame("func", "args") EXCEPT !.own = s]
  <2>1. Fresh(f, "func", "args", s)
    BY <1>0, <1>1, NewRecord
  <2>2. frames' = Append(frames, f)
    BY <1>2 DEF CallUser
  <2> HIDE DEF f
  <2>3. Enters(f)
    BY <1>0, <1>1, <1>2, <2>1, <2>2 DEF Enters, CallUser
  <2> QED  BY <1>0, <1>2, <2>3 DEF CallUser
<1>3. ASSUME NEW s \in Scope, BuildMap(s)
      PROVE  mode' = "run" /\ \E f : Enters(f)
  <2> DEFINE f == [NewFrame("map", "eval") EXCEPT !.own = s]
  <2>1. Fresh(f, "map", "eval", s)
    BY <1>0, <1>1, NewRecord
  <2>2. frames' = Append(frames, f)
    BY <1>3 DEF BuildMap
  <2> HIDE DEF f
  <2>3. Enters(f)
    BY <1>0, <1>1, <1>3, <2>1, <2>2 DEF Enters, BuildMap
  <2> QED  BY <1>0, <1>3, <2>3 DEF BuildMap
<1>4. ASSUME NEW kind \in {"if", "switch"}, EnterChoice(kind)
      PROVE  mode' = "run" /\ \E f : Enters(f)
  <2> DEFINE f == NewFrame(kind, "eval")
  <2>1. Fresh(f, kind, "eval", NoScope)
    BY <1>0, <1>1, NewRecord
  <2>2. frames' = Append(frames, f)
    BY <1>4 DEF EnterChoice
  <2> HIDE DEF f
  <2>3. Enters(f)
    BY <1>0, <1>1, <1>4, <2>1, <2>2 DEF Enters, EnterChoice
  <2> QED  BY <1>0, <1>4, <2>3 DEF EnterChoice
<1>5. CASE CallBuiltin
  <2> DEFINE f == NewFrame("builtin", "args")
  <2>1. Fresh(f, "builtin", "args", NoScope)
    BY <1>0, <1>1, NewRecord
  <2>2. frames' = Append(frames, f)
    BY <1>5 DEF CallBuiltin
  <2> HIDE DEF f
  <2>3. Enters(f)
    BY <1>0, <1>1, <1>5, <2>1, <2>2 DEF Enters, CallBuiltin
  <2> QED  BY <1>0, <1>5, <2>3 DEF CallBuiltin
<1>6. CASE EnterWhile
  <2> DEFINE f == NewFrame("while", "eval")
  <2>1. Fresh(f, "while", "eval", NoScope)
    BY <1>0, <1>1, NewRecord
  <2>2. frames' = Append(frames, f)
    BY <1>6 DEF EnterWhile
  <2> HIDE DEF f
  <2>3. Enters(f)
    BY <1>0, <1>1, <1>6, <2>1, <2>2 DEF Enters, EnterWhile
  <2> QED  BY <1>0, <1>6, <2>3 DEF EnterWhile
<1>7. CASE EnterFor
  <2> DEFINE f == NewFrame("for", "init")
  <2>1. Fresh(f, "for", "init", NoScope)
    BY <1>0, <1>1, NewRecord
  <2>2. frames' = Append(frames, f)
    BY <1>7 DEF EnterFor
  <2> HIDE DEF f
  <2>3. Enters(f)
    BY <1>0, <1>1, <1>7, <2>1, <2>2 DEF Enters, EnterFor
  <2> QED  BY <1>0, <1>7, <2>3 DEF EnterFor
<1>8. CASE EnterForIn
  <2> DEFINE f == NewFrame("forin", "eval")
  <2>1. Fresh(f, "forin", "eval", NoScope)
    BY <1>0, <1>1, NewRecord
  <2>2. frames' = Append(frames, f)
    BY <1>8 DEF EnterForIn
  <2> HIDE DEF f
  <2>3. Enters(f)
    BY <1>0, <1>1, <1>8, <2>1, <2>2 DEF Enters, EnterForIn
  <2> QED  BY <1>0, <1>8, <2>3 DEF EnterForIn
<1>9. CASE EnterImport
  <2> DEFINE f == NewFrame("import", "body")
  <2>1. Fresh(f, "import", "body", NoScope)
    BY <1>0, <1>1, NewRecord
  <2>2. frames' = Append(frames, f)
    BY <1>9 DEF EnterImport
  <2> HIDE DEF f
  <2>3. Enters(f)
    BY <1>0, <1>1, <1>9, <2>1, <2>2 DEF Enters, EnterImport
  <2> QED  BY <1>0, <1>9, <2>3 DEF EnterImport
<1>10. CASE EnterTry
  <2> DEFINE f == NewFrame("try", "body")
  <2>1. Fresh(f, "try", "body", NoScope)
    BY <1>0, <1>1, NewRecord
  <2>2. frames' = Append(frames, f)
    BY <1>10 DEF EnterTry
  <2> HIDE DEF f
  <2>3. Enters(f)
    BY <1>0, <1>1, <1>10, <2>1, <2>2 DEF Enters, EnterTry
  <2> QED  BY <1>0, <1>10, <2>3 DEF EnterTry
<1>11. CASE EnterExecute
  <2> DEFINE f == NewFrame("execute", "eval")
  <2>1. Fresh(f, "execute", "eval", NoScope)
    BY <1>0, <1>1, NewRecord
  <2>2. frames' = Append(frames, f)
    BY <1>11 DEF EnterExecute
  <2> HIDE DEF f
  <2>3. Enters(f)
    BY <1>0, <1>1, <1>11, <2>1, <2>2 DEF Enters, EnterExecute, Context
  <2> QED  BY <1>0, <1>11, <2>3 DEF EnterExecute
<1>12. CASE EnterFlags
  <2> DEFINE f == NewFrame("flags", "match")
  <2>1. Fresh(f, "flags", "match", NoScope)
    BY <1>0, <1>1, NewRecord
  <2>2. frames' = Append(frames, f)
    BY <1>12 DEF EnterFlags
  <2> HIDE DEF f
  <2>3. Enters(f)
    BY <1>0, <1>1, <1>12, <2>1, <2>2 DEF Enters, EnterFlags
  <2> QED  BY <1>0, <1>12, <2>3 DEF EnterFlags
<1>13. CASE ParseFlag
  <2> DEFINE f == NewFrame("flag", "parse")
  <2>1. Fresh(f, "flag", "parse", NoScope)
    BY <1>0, <1>1, NewRecord
  <2>2. frames' = Append(frames, f)
    BY <1>13 DEF ParseFlag
  <2> HIDE DEF f
  <2>3. Enters(f)
    BY <1>0, <1>1, <1>13, <2>1, <2>2 DEF Enters, ParseFlag, Context
  <2> QED  BY <1>0, <1>13, <2>3 DEF ParseFlag
<1> QED
  BY <1>0, <1>2, <1>3, <1>4, <1>5, <1>6, <1>7, <1>8, <1>9, <1>10, <1>11,
     <1>12, <1>13 DEF EnterSteps

(* The innermost record changes. Its scopes: none changes; a new one, below *)
(* the current or the saved scope; or that of an iteration is freed.        *)
Changes(f) ==
  /\ f \in Frame /\ frames' = [frames EXCEPT ![depth] = f]
  /\ f.kind = Top.kind /\ f.kind \notin {"builtin", "try"}
  /\ f.ctx = Top.ctx /\ (f.kind \in Calls => f.old = Top.old)
  /\ Formed(Top) /\ PendingFlow => Formed(f)
  /\ f.env = Top.env \/ (~Armed(Top) /\ f.env = exception_env)
  /\ PendingFlow => control_flow' = "none" \/ f.kind = "flag"
  /\ context'.allowed = context.allowed

ChangeSteps ==
  \/ EnterFunction
  \/ \E kind \in {"if", "switch"} : ChooseBlock(kind)
  \/ DefineLoopVariable
  \/ \E s \in Scope : EnterIteration(s) \/ BindItem(s) \/ RunScript(s)
  \/ NextIteration \/ HaveIterable \/ ArmIteration \/ NextItem
  \/ SetScriptArgs \/ OpenScript \/ RunFlag

LEMMA Changing ==
  ASSUME IInv, ChangeSteps
  PROVE  mode = "run" /\ mode' = "run" /\ \E f : Changes(f)
<1>0. mode = "run"
  BY DEF ChangeSteps, EnterFunction, ChooseBlock, DefineLoopVariable,
         EnterIteration, BindItem, RunScript, NextIteration, HaveIterable,
         ArmIteration, NextItem, SetScriptArgs, OpenScript, RunFlag, At,
         BlockOver
<1>1. Top \in Frame /\ context \in Context /\ current_scope \in Scope
  BY <1>0, Running
<1> USE <1>0, <1>1 DEF SetTop, At, BlockOver, Formed, Armed, Calls,
    PendingFlow, EvalPhase, StepPhase, BodyPhase
<1>2. CASE EnterFunction
  <2> DEFINE f == [Top EXCEPT !.phase = "body", !.cf = control_flow]
  <2>1. f \in Frame /\ frames' = [frames EXCEPT ![depth] = f]
    BY <1>2, Running DEF Frame, EnterFunction
  <2>2. Changes(f)
    BY <1>2, <2>1 DEF Changes, EnterFunction, Frame
  <2> QED  BY <1>2, <2>2 DEF EnterFunction
<1>3. ASSUME NEW kind \in {"if", "switch"}, ChooseBlock(kind)
      PROVE  mode' = "run" /\ \E f : Changes(f)
  <2> DEFINE f == [Top EXCEPT !.phase = "body"]
  <2>1. f \in Frame /\ frames' = [frames EXCEPT ![depth] = f]
    BY <1>3, Running DEF Frame, ChooseBlock
  <2>2. Changes(f)
    BY <1>3, <2>1 DEF Changes, ChooseBlock, Frame
  <2> QED  BY <1>3, <2>2 DEF ChooseBlock
<1>4. CASE DefineLoopVariable
  <2>1. PICK own \in Scope \cup {NoScope} :
          frames' = [frames EXCEPT ![depth] =
                       [Top EXCEPT !.phase = "eval", !.own = own]]
    <3>1. CASE SetTop([Top EXCEPT !.phase = "eval"])
      <4>1. [Top EXCEPT !.phase = "eval"]
              = [Top EXCEPT !.phase = "eval", !.own = Top.own]
        BY DEF Frame
      <4> QED  BY <3>1, <4>1 DEF Frame
    <3> QED  BY <1>4, <3>1 DEF DefineLoopVariable
  <2> DEFINE f == [Top EXCEPT !.phase = "eval", !.own = own]
  <2>2. f \in Frame /\ frames' = [frames EXCEPT ![depth] = f]
    BY <2>1 DEF Frame
  <2>3. Changes(f)
    BY <1>4, <2>2 DEF Changes, DefineLoopVariable, Frame
  <2> QED  BY <1>4, <2>3 DEF DefineLoopVariable
<1>5. ASSUME NEW s \in Scope, EnterIteration(s)
      PROVE  mode' = "run" /\ \E f : Changes(f)
  <2> DEFINE o == IF Top.kind = "while" THEN current_scope ELSE Top.old
             f == [Top EXCEPT !.phase = "body", !.iter = s, !.n = Top.n + 1,
                              !.old = o]
  <2>1. f \in Frame
    <3>1. o \in Scope /\ Top.n + 1 \in Nat
      BY DEF Frame
    <3> HIDE DEF o
    <3> QED  BY <1>5, <3>1 DEF Frame
  <2>2. frames' = [frames EXCEPT ![depth] = f]
    BY <1>5 DEF EnterIteration
  <2>3. Changes(f)
    BY <1>5, <2>1, <2>2 DEF Changes, EnterIteration, Frame
  <2> QED  BY <1>5, <2>3 DEF EnterIteration
<1>6. ASSUME NEW s \in Scope, BindItem(s)
      PROVE  mode' = "run" /\ \E f : Changes(f)
  <2> DEFINE f == [Top EXCEPT !.phase = "bind", !.iter = s,
                              !.old = current_scope]
  <2>1. f \in Frame /\ frames' = [frames EXCEPT ![depth] = f]
    BY <1>6, Running DEF Frame, BindItem
  <2>2. Changes(f)
    BY <1>6, <2>1 DEF Changes, BindItem, Frame
  <2> QED  BY <1>6, <2>2 DEF BindItem
<1>7. ASSUME NEW s \in Scope, RunScript(s)
      PROVE  mode' = "run" /\ \E f : Changes(f)
  <2> DEFINE f == [Top EXCEPT !.phase = "body", !.own = s,
                              !.old = current_scope]
  <2>1. f \in Frame /\ frames' = [frames EXCEPT ![depth] = f]
    BY <1>7, Running DEF Frame, RunScript
  <2>2. Changes(f)
    BY <1>7, <2>1 DEF Changes, RunScript, Frame, Context
  <2> QED  BY <1>7, <2>2 DEF RunScript
<1>8. CASE NextIteration
  <2> DEFINE f == [Top EXCEPT !.phase = "eval", !.iter = NoScope]
  <2>1. f \in Frame /\ frames' = [frames EXCEPT ![depth] = f]
    BY <1>8, Running DEF Frame, NextIteration
  <2>2. Changes(f)
    BY <1>8, <2>1 DEF Changes, NextIteration, Frame, GoesRound, AfterBody
  <2> QED  BY <1>8, <2>2 DEF NextIteration
<1>9. CASE HaveIterable
  <2> DEFINE f == [Top EXCEPT !.phase = "next"]
  <2>1. f \in Frame /\ frames' = [frames EXCEPT ![depth] = f]
    BY <1>9, Running DEF Frame, HaveIterable
  <2>2. Changes(f)
    BY <1>9, <2>1 DEF Changes, HaveIterable, Frame
  <2> QED  BY <1>9, <2>2 DEF HaveIterable
<1>10. CASE ArmIteration
  <2> DEFINE f == [Top EXCEPT !.phase = "body", !.env = exception_env]
  <2>1. f \in Frame /\ frames' = [frames EXCEPT ![depth] = f]
    BY <1>10, Running DEF Frame, ArmIteration
  <2>2. Changes(f)
    BY <1>10, <2>1 DEF Changes, ArmIteration, Frame
  <2> QED  BY <1>10, <2>2 DEF ArmIteration
<1>11. CASE NextItem
  <2> DEFINE f == [Top EXCEPT !.phase = "next", !.iter = NoScope]
  <2>1. f \in Frame /\ frames' = [frames EXCEPT ![depth] = f]
    BY <1>11, Running DEF Frame, NextItem
  <2>2. Changes(f)
    BY <1>11, <2>1 DEF Changes, NextItem, Frame, GoesRound, AfterBody
  <2> QED  BY <1>11, <2>2 DEF NextItem
<1>12. CASE SetScriptArgs
  <2> DEFINE f == [Top EXCEPT !.phase = "open"]
  <2>1. f \in Frame /\ frames' = [frames EXCEPT ![depth] = f]
    BY <1>12, Running DEF Frame, SetScriptArgs
  <2>2. Changes(f)
    BY <1>12, <2>1 DEF Changes, SetScriptArgs, Frame, Context
  <2> QED  BY <1>12, <2>2 DEF SetScriptArgs
<1>13. CASE OpenScript
  <2> DEFINE f == [Top EXCEPT !.phase = "parse"]
  <2>1. f \in Frame /\ frames' = [frames EXCEPT ![depth] = f]
    BY <1>13, Running DEF Frame, OpenScript
  <2>2. Changes(f)
    BY <1>13, <2>1 DEF Changes, OpenScript, Frame, Context
  <2> QED  BY <1>13, <2>2 DEF OpenScript
<1>14. CASE RunFlag
  <2> DEFINE f == [Top EXCEPT !.phase = "body"]
  <2>1. f \in Frame /\ frames' = [frames EXCEPT ![depth] = f]
    BY <1>14, Running DEF Frame, RunFlag
  <2>2. Changes(f)
    BY <1>14, <2>1 DEF Changes, RunFlag, Frame
  <2> QED  BY <1>14, <2>2 DEF RunFlag
<1> QED
  BY <1>2, <1>3, <1>4, <1>5, <1>6, <1>7, <1>8, <1>9, <1>10, <1>11, <1>12,
     <1>13, <1>14 DEF ChangeSteps

(* The innermost record ends. A call gives back the scope it was made in.   *)
Leaves ==
  /\ frames' = SubSeq(frames, 1, depth - 1)
  /\ Top.kind # "main"
  /\ Top.kind \in {"func", "map"} => current_scope' = Top.old
  /\ Top.kind = "builtin" => current_scope' = current_scope
  /\ Top.kind \in Calls /\ Formed(Top) /\ PendingFlow => control_flow' = "none"
  /\ context'.allowed =
       IF Top.kind = "execute" THEN Top.ctx.allowed ELSE context.allowed

LeaveSteps ==
  \/ LeaveFunction \/ LeaveBuiltin \/ LeaveMap \/ LeaveIf \/ LeaveSwitch
  \/ EndLoop \/ LeaveLoop \/ LeaveForIn \/ EndForIn \/ LeaveImport
  \/ LeaveTry \/ LeaveExecute \/ LeaveFlag \/ LeaveFlags

LEMMA Leaving ==
  ASSUME IInv, LeaveSteps
  PROVE  mode = "run" /\ mode' = "run" /\ Leaves
<1>0. mode = "run"
  BY DEF LeaveSteps, LeaveFunction, LeaveBuiltin, LeaveMap, LeaveIf,
         LeaveSwitch, EndLoop, LeaveLoop, LeaveForIn, EndForIn, LeaveImport,
         LeaveTry, LeaveExecute, LeaveFlag, LeaveFlags, At, BlockOver
<1>1. Top \in Frame /\ context \in Context
  BY <1>0, Running
<1>2. Pops /\ mode' = "run" /\ Top.kind # "main"
  BY <1>0, PopSteps DEF LeaveSteps
<1> USE <1>0, <1>1, <1>2 DEF Leaves, Pops, Calls, Formed, PendingFlow, At,
    BlockOver, EvalPhase, BodyPhase
<1>3. CASE LeaveFunction
  BY <1>3 DEF LeaveFunction
<1>4. CASE LeaveBuiltin
  BY <1>4 DEF LeaveBuiltin
<1>5. CASE LeaveMap
  BY <1>5 DEF LeaveMap
<1>6. CASE LeaveIf
  BY <1>6 DEF LeaveIf
<1>7. CASE LeaveSwitch
  BY <1>7 DEF LeaveSwitch
<1>8. CASE EndLoop
  BY <1>8 DEF EndLoop
<1>9. CASE LeaveLoop
  BY <1>9 DEF LeaveLoop
<1>10. CASE LeaveForIn
  BY <1>10 DEF LeaveForIn
<1>11. CASE EndForIn
  BY <1>11 DEF EndForIn
<1>12. CASE LeaveImport
  BY <1>12 DEF LeaveImport
<1>13. CASE LeaveTry
  BY <1>13 DEF LeaveTry
<1>14. CASE LeaveExecute
  BY <1>14 DEF LeaveExecute, Context, Frame
<1>15. CASE LeaveFlag
  BY <1>15 DEF LeaveFlag, Context, Frame
<1>16. CASE LeaveFlags
  BY <1>16 DEF LeaveFlags
<1> QED
  BY <1>3, <1>4, <1>5, <1>6, <1>7, <1>8, <1>9, <1>10, <1>11, <1>12, <1>13,
     <1>14, <1>15, <1>16 DEF LeaveSteps

(* An error lands: the records above its handler are gone, and the handler  *)
(* with them unless it is that of a try block, which goes on to its catch.  *)
Abandons ==
  /\ exception_env \in 1..depth /\ Armed(Handler) /\ Handler \in Frame
  /\ control_flow' = control_flow /\ context'.allowed = context.allowed
  /\ \/ /\ frames' = SubSeq(frames, 1, exception_env - 1)
        /\ Handler.kind # "try" /\ mode' = "unwind"
     \/ /\ frames' = Append(SubSeq(frames, 1, exception_env - 1),
                            [Handler EXCEPT !.phase = "catch"])
        /\ Handler.kind = "try" /\ mode' = "run"

LEMMA Abandoning ==
  ASSUME IInv, Catch \/ Rethrow
  PROVE  mode = "unwind" /\ Abandons
<1>1. exception_env \in 1..depth
  BY DEF IInv, TypeOK, depth, Catch, Rethrow, Lands
<1>2. Armed(Handler) /\ Handler \in Frame /\ context \in Context
  BY <1>1, HandlerFrame
     DEF IInv, TypeOK, EnvInnermost, InnermostBelow, Handler, depth
<1> QED
  BY <1>1, <1>2 DEF Abandons, Catch, Rethrow, Lands, Context, Frame

(* Every step is one of these, or leaves the records alone, or is the end.  *)
Stays ==
  /\ UNCHANGED <<frames, context>>
  /\ mode = "run"
  /\ \/ /\ mode' = "unwind"
        /\ UNCHANGED <<control_flow, exception_env, current_scope, chain>>
     \/ /\ mode' = "run" /\ Top.phase \in BodyPhase
        /\ UNCHANGED <<exception_env, current_scope, chain>>

Ends == frames' = <<>> /\ mode' \in {"done", "failed"}

LEMMA Steps ==
  ASSUME Next
  PROVE  EnterSteps \/ ChangeSteps \/ LeaveSteps \/ Stays \/ Catch \/ Rethrow
         \/ Uncaught \/ Finish
<1>1. ASSUME (\E cf \in ControlFlow \ {"none"} : SetControlFlow(cf))
             \/ RepeatHere \/ Raise
      PROVE  Stays
  BY <1>1 DEF SetControlFlow, RepeatHere, Raise, CanRaise, CanEval, CanExec,
              Stays
<1> QED
  BY <1>1 DEF Next, Expressions, Statements, Loops, Scripts, Unwinding,
              EnterSteps, ChangeSteps, LeaveSteps

LEMMA Ending ==
  ASSUME IInv, Uncaught \/ Finish
  PROVE  Ends
<1>1. CASE Uncaught
  BY <1>1 DEF Uncaught, Ends
<1>2. CASE Finish
  <2>1. depth = 1
    BY <1>2, Running DEF Finish, BlockOver
  <2>2. frames' = <<>>
    BY <1>2, <2>1 DEF Finish, Pop, IInv, TypeOK, depth
  <2> QED  BY <1>2, <2>2 DEF Finish, Ends
<1> QED  BY <1>1, <1>2

-----------------------------------------------------------------------------
(* The discipline of the records, and with it the control flow.             *)

(* What is below a record does not change while it lasts.                   *)
LEMMA BelowStays ==
  ASSUME NEW n \in Nat, \A i \in 1..n : frames'[i] = frames[i],
         NEW k \in 1..(n + 1), InnermostBelow(frames[k].env, k),
         frames'[k].env = frames[k].env
  PROVE  InnermostBelow(frames[k].env, k)'
BY DEF InnermostBelow

LEMMA EnterKeeps ==
  ASSUME FInv, mode = "run", mode' = "run", NEW f, Enters(f)
  PROVE  Discipline' /\ PendingFlow'
<1>1. /\ depth \in Nat /\ depth > 0 /\ depth' = depth + 1
      /\ \A k \in 1..depth : frames'[k] = frames[k]
      /\ frames'[depth + 1] = f /\ f \in Frame
      /\ Top' = f
  BY Running DEF FInv, IInv, TypeOK, Enters, depth, Top
<1>2. InnermostBelow(exception_env, depth + 1)
  BY DEF FInv, IInv, EnvInnermost
<1>3. \A k \in 1..depth : Formed(frames[k]) /\ InnermostBelow(frames[k].env, k)
  BY DEF FInv, Discipline
<1>4. ASSUME NEW k \in 1..depth'
      PROVE  Formed(frames'[k]) /\ InnermostBelow(frames[k].env, k)'
  <2>1. CASE k = depth + 1
    <3>1. frames'[k] = f /\ f.env = exception_env /\ Formed(f)
      BY <1>1, <2>1 DEF Enters
    <3>2. InnermostBelow(frames[k].env, k)'
      BY <1>1, <1>2, <2>1, <3>1 DEF InnermostBelow
    <3> QED  BY <3>1, <3>2
  <2>2. CASE k # depth + 1
    BY <1>1, <1>3, <2>2, BelowStays
  <2> QED  BY <2>1, <2>2
<1>5. Nests(Top, f)
  BY <1>1, <1>3
     DEF Enters, Nests, FInv, Discipline, Formed, CanExec, CanEval, At, Top,
         Calls, Plain, EvalPhase, BodyPhase
<1>6. \A k \in 2..depth' : Nests(frames[k - 1], frames[k])'
  BY <1>1, <1>5 DEF FInv, Discipline, Nests, Top
<1>7. f.kind = "builtin" => current_scope' = f.old
  BY DEF Enters
<1>8. CanExec \/ CanEval => control_flow = "none"
  BY <1>1, <1>3 DEF FInv, CanExec, CanEval, PendingFlow, Formed, EvalPhase, BodyPhase, Top
<1>9. PendingFlow'
  BY <1>1, <1>8 DEF Enters, PendingFlow
<1> QED
  BY <1>1, <1>4, <1>6, <1>7, <1>9 DEF Discipline, Formed

LEMMA ChangeKeeps ==
  ASSUME FInv, mode = "run", NEW f, Changes(f)
  PROVE  Discipline' /\ PendingFlow'
<1>1. /\ depth \in Nat /\ depth > 0 /\ depth' = depth
      /\ \A k \in 1..(depth - 1) : frames'[k] = frames[k]
      /\ frames'[depth] = f /\ frames[depth] = Top
      /\ Top' = f
  BY Running DEF FInv, IInv, TypeOK, Changes, depth, Top
<1>2. InnermostBelow(exception_env, depth + 1)
  BY DEF FInv, IInv, EnvInnermost
<1>3. \A k \in 1..depth : Formed(frames[k]) /\ InnermostBelow(frames[k].env, k)
  BY DEF FInv, Discipline
<1>4. InnermostBelow(f.env, depth)
  BY <1>1, <1>2, <1>3 DEF Changes, InnermostBelow
<1>5. ASSUME NEW k \in 1..depth'
      PROVE  Formed(frames'[k]) /\ InnermostBelow(frames[k].env, k)'
  <2>1. CASE k = depth
    <3>1. Formed(f)
      BY <1>1, <1>3 DEF Changes, FInv
    <3>2. InnermostBelow(frames[k].env, k)'
      BY <1>1, <1>4, <2>1 DEF InnermostBelow
    <3> QED  BY <1>1, <2>1, <3>1, <3>2
  <2>2. CASE k # depth
    <3>1. k \in 1..(depth - 1) /\ depth - 1 \in Nat /\ k \in 1..(depth - 1 + 1)
      BY <1>1, <2>2
    <3> QED  BY <1>1, <1>3, <3>1, BelowStays
  <2> QED  BY <2>1, <2>2
<1>6. \A k \in 2..depth' : Nests(frames[k - 1], frames[k])'
  <2>1. \A k \in 2..depth : Nests(frames[k - 1], frames[k])
    BY DEF FInv, Discipline
  <2> QED  BY <1>1, <2>1 DEF Nests, Changes
<1>7. PendingFlow'
  BY <1>1 DEF Changes, PendingFlow, FInv
<1> QED
  BY <1>1, <1>5, <1>6, <1>7 DEF Discipline, Changes

(* Cutting the stack keeps what is said of the records that are left.       *)
LEMMA CutDiscipline ==
  ASSUME Discipline, frames \in Seq(Frame),
         NEW n \in Nat, n <= depth, n <= depth',
         \A i \in 1..n : frames'[i] = frames[i]
  PROVE  /\ \A k \in 1..n : Formed(frames'[k]) /\ InnermostBelow(frames[k].env, k)'
         /\ \A k \in 2..n : Nests(frames[k - 1], frames[k])'
<1>1. depth \in Nat
  BY DEF depth
<1>2. ASSUME NEW k \in 1..n
      PROVE  Formed(frames'[k]) /\ InnermostBelow(frames[k].env, k)'
  <2>1. k \in 1..depth /\ k \in 1..(n + 1) /\ frames'[k] = frames[k]
    BY <1>1
  <2>2. Formed(frames[k]) /\ InnermostBelow(frames[k].env, k)
    BY <2>1 DEF Discipline
  <2> QED  BY <2>1, <2>2, BelowStays
<1>3. ASSUME NEW k \in 2..n
      PROVE  Nests(frames[k - 1], frames[k])'
  <2>1. k \in 2..depth /\ k \in 1..n /\ k - 1 \in 1..n
    BY <1>1
  <2>2. Nests(frames[k - 1], frames[k])
    BY <2>1 DEF Discipline
  <2>3. frames'[k] = frames[k] /\ frames'[k - 1] = frames[k - 1]
    BY <2>1
  <2> QED  BY <2>2, <2>3 DEF Nests
<1> QED  BY <1>2, <1>3

LEMMA LeaveKeeps ==
  ASSUME FInv, mode = "run", Leaves
  PROVE  /\ Discipline' /\ PendingFlow'
         /\ Top.kind \in Calls => current_scope' = Top.old /\ control_flow' = "none"
<1>1. /\ depth \in Nat /\ depth > 1 /\ depth' = depth - 1 /\ Top \in Frame
      /\ \A k \in 1..(depth - 1) : frames'[k] = frames[k]
      /\ frames[depth] = Top /\ frames \in Seq(Frame)
      /\ Top' = frames[depth - 1]
  BY Running DEF FInv, IInv, TypeOK, Leaves, depth, Top
<1>2. depth - 1 \in Nat /\ depth - 1 <= depth /\ depth - 1 <= depth'
  BY <1>1
<1>3. Nests(Top', Top) /\ Formed(Top) /\ Formed(Top')
  BY <1>1 DEF FInv, Discipline
<1>4. Top.kind \in Calls => current_scope' = Top.old /\ control_flow' = "none"
  BY <1>3 DEF FInv, Discipline, Leaves, Calls
<1>5. Top.kind \in Calls \cup Plain \cup {"flag"}
  BY <1>1 DEF Leaves, Calls, Plain, Frame, Kind
<1>6. PendingFlow'
  BY <1>3, <1>4, <1>5 DEF PendingFlow, Nests
<1>7. mode' = "run" /\ Top'.kind = "builtin" => current_scope' = Top'.old
  BY <1>3, <1>4 DEF Nests
<1> QED
  BY <1>1, <1>2, <1>4, <1>6, <1>7, CutDiscipline DEF Discipline, FInv

LEMMA AbandonKeeps ==
  ASSUME FInv, mode = "unwind", Abandons
  PROVE  Discipline' /\ PendingFlow'
<1>0. PICK n \in Nat : n + 1 = exception_env
  <2>1. exception_env - 1 \in Nat
    BY DEF Abandons
  <2> QED  BY <2>1 DEF Abandons
<1>1. /\ depth \in Nat /\ n < depth /\ frames \in Seq(Frame)
      /\ n + 1 \in 1..depth /\ n = exception_env - 1
  BY <1>0 DEF FInv, IInv, TypeOK, depth, Abandons
<1>2. CASE Handler.kind # "try"
  <2>1. /\ depth' = n /\ \A i \in 1..n : frames'[i] = frames[i]
        /\ mode' = "unwind"
    BY <1>1, <1>2 DEF Abandons, depth
  <2>2. n \in Nat /\ n <= depth /\ n <= depth' /\ Discipline
    BY <1>1, <2>1 DEF FInv
  <2>3. /\ \A k \in 1..n : Formed(frames'[k]) /\ InnermostBelow(frames[k].env, k)'
        /\ \A k \in 2..n : Nests(frames[k - 1], frames[k])'
    BY <1>1, <2>1, <2>2, CutDiscipline
  <2> QED  BY <2>1, <2>3 DEF Discipline, PendingFlow
<1>3. CASE Handler.kind = "try"
  <2> DEFINE f == [Handler EXCEPT !.phase = "catch"]
  <2>0. f \in Frame /\ f.kind = "try" /\ f.phase = "catch"
        /\ f.env = Handler.env /\ f.cf = Handler.cf
    BY <1>3 DEF Abandons, Frame, BodyPhase
  <2>1. /\ depth' = n + 1 /\ (\A i \in 1..n : frames'[i] = frames[i])
        /\ frames'[n + 1] = f /\ frames[n + 1] = Handler /\ mode' = "run"
        /\ Top' = f
    BY <1>0, <1>1, <1>3, <2>0 DEF Abandons, depth, Handler, Top
  <2>2. /\ \A k \in 1..n : Formed(frames'[k]) /\ InnermostBelow(frames[k].env, k)'
        /\ \A k \in 2..n : Nests(frames[k - 1], frames[k])'
    BY <1>1, <2>1, CutDiscipline DEF FInv
  <2> HIDE DEF f
  <2>3. Formed(f) /\ InnermostBelow(frames[n + 1].env, n + 1)'
    <3>1. Formed(Handler) /\ InnermostBelow(frames[n + 1].env, n + 1)
      BY <1>1, <2>1 DEF FInv, Discipline
    <3>2. Formed(f)
      BY <2>0, <3>1 DEF Formed
    <3> QED  BY <1>1, <2>0, <2>1, <3>1, <3>2, BelowStays
  <2>4. n + 1 > 1 => Nests(frames[n], frames[n + 1])'
    <3>1. n + 1 > 1 => Nests(frames[n], frames[n + 1])
      BY <1>1 DEF FInv, Discipline
    <3> QED  BY <1>1, <1>3, <2>0, <2>1, <3>1 DEF Nests, Plain, Calls
  <2>5. \A k \in 1..(n + 1) : Formed(frames'[k]) /\ InnermostBelow(frames[k].env, k)'
    BY <1>1, <2>1, <2>2, <2>3
  <2>6. \A k \in 2..(n + 1) : Nests(frames[k - 1], frames[k])'
    BY <1>1, <2>2, <2>4
  <2> QED
    BY <2>0, <2>1, <2>5, <2>6 DEF Discipline, PendingFlow, BodyPhase
<1> QED  BY <1>2, <1>3

LEMMA StayKeeps ==
  ASSUME FInv, Stays
  PROVE  Discipline' /\ PendingFlow'
BY DEF FInv, Stays, Discipline, PendingFlow, InnermostBelow, depth, Top, Nests

LEMMA EndKeeps ==
  ASSUME Ends
  PROVE  Discipline' /\ PendingFlow'
BY DEF Ends, Discipline, PendingFlow, depth

LEMMA FlowInvariance == Spec => []FInv
<1>1. Init => FInv
  BY InitRecords
     DEF Init, FInv, Discipline, PendingFlow, Formed, InnermostBelow, depth, Top
<1>2. FInv /\ [Next]_vars => FInv'
  <2> SUFFICES ASSUME FInv, [Next]_vars PROVE FInv'
    OBVIOUS
  <2>1. IInv /\ IInv'
    BY NextKeeps DEF FInv
  <2>2. CASE UNCHANGED vars
    BY <2>1, <2>2
       DEF FInv, vars, Discipline, PendingFlow, InnermostBelow, depth, Top,
           Nests
  <2>3. CASE Next
    BY <2>1, <2>3, Steps, Entering, Changing, Leaving, Abandoning, Ending,
       EnterKeeps, ChangeKeeps, LeaveKeeps, AbandonKeeps, StayKeeps, EndKeeps
       DEF FInv
  <2> QED  BY <2>2, <2>3
<1> QED  BY <1>1, <1>2, PTL DEF Spec

(* eval_stmt.c: control flow waits only in blocks, which stop for it, and   *)
(* in flags: nothing is evaluated with a break, continue, return or repeat  *)
(* pending, in a script of any depth.                                       *)
THEOREM FlowIsPending == Spec => []PendingFlow
BY FlowInvariance, PTL DEF FInv

(* A call that ends: its handler is gone, and what it saved is current.     *)
LEMMA CallEnds ==
  ASSUME FInv, LeaveSteps, Top.kind \in Calls
  PROVE  /\ current_scope' = Top.old
         /\ exception_env' = Top.env
         /\ control_flow' = "none"
<1>1. mode = "run" /\ Leaves
  BY Leaving DEF FInv
<1>2. Pops
  BY <1>1, PopSteps DEF FInv, LeaveSteps
<1>3. depth \in Nat /\ depth > 0 /\ Top = frames[depth]
  BY <1>1, Running DEF FInv, Top
<1>4. InnermostBelow(Top.env, depth) /\ InnermostBelow(exception_env, depth + 1)
  BY <1>3 DEF FInv, IInv, Discipline, EnvInnermost
<1>5. ~Armed(Top) => exception_env = Top.env
  BY <1>3, <1>4 DEF InnermostBelow
<1> QED
  BY <1>1, <1>2, <1>5, LeaveKeeps DEF Pops

(* eval_call.c, eval_literal.c: whatever runs inside a call of a function,  *)
(* of a native function or in a map literal, the expression it is part of   *)
(* finds the scope, the handler and the control flow it left.               *)
THEOREM CallsAreTransparent == Spec => CallsTransparent
<1>1. ASSUME FInv, Next, mode = "run", depth' = depth - 1, mode' = "run",
             Top.kind \in {"func", "builtin", "map"}
      PROVE  /\ current_scope' = Top.old
             /\ exception_env' = Top.env
             /\ control_flow' = "none"
  <2>1. depth \in Nat /\ frames \in Seq(Frame) /\ depth > 0
    BY <1>1 DEF FInv, IInv, TypeOK, depth
  <2>2. ~EnterSteps
    <3>1. (\E f : Enters(f)) => depth' = depth + 1
      BY <2>1 DEF Enters, depth
    <3> QED  BY <1>1, <2>1, <3>1, Entering DEF FInv
  <2>3. ~ChangeSteps
    <3>1. (\E f : Changes(f)) => depth' = depth
      BY <2>1 DEF Changes, depth
    <3> QED  BY <1>1, <2>1, <3>1, Changing DEF FInv
  <2>4. ~Stays
    BY <1>1, <2>1 DEF Stays, depth
  <2>5. ~(Catch \/ Rethrow \/ Uncaught \/ Finish)
    BY <1>1 DEF Catch, Rethrow, Uncaught, Finish, Lands
  <2> QED
    BY <1>1, <2>2, <2>3, <2>4, <2>5, Steps, CallEnds DEF Calls
<1>2. FInv /\ [Next]_vars
        => [mode = "run" /\ depth' = depth - 1 /\ mode' = "run"
              /\ Top.kind \in {"func", "builtin", "map"}
            => /\ current_scope' = Top.old
               /\ exception_env' = Top.env
               /\ control_flow' = "none"]_vars
  BY <1>1
<1> QED  BY <1>2, FlowInvariance, PTL DEF Spec, CallsTransparent

-----------------------------------------------------------------------------
(* The lock on constants: it is on while a script runs that execute ran,    *)
(* and is what every execute inside that script will put back.              *)
Locked ==
  /\ \A k \in 1..depth : frames[k].kind = "execute" => ~context.allowed
  /\ \A j, k \in 1..depth :
       j < k /\ frames[j].kind = "execute" /\ frames[k].kind = "execute"
         => ~frames[k].ctx.allowed

LEMMA LockKept ==
  ASSUME IInv, Locked, Next
  PROVE  Locked'
<1>0. frames \in Seq(Frame) /\ depth \in Nat /\ depth = Len(frames)
  BY DEF IInv, TypeOK, depth
<1>1. CASE EnterSteps
  <2>1. PICK f : Enters(f)
    BY <1>1, Entering
  <2>2. /\ depth' = depth + 1 /\ frames'[depth + 1] = f
        /\ \A k \in 1..depth : frames'[k] = frames[k]
    BY <1>0, <2>1 DEF Enters, depth
  <2> QED  BY <1>0, <2>1, <2>2 DEF Locked, Enters
<1>2. CASE ChangeSteps
  <2>1. PICK f : Changes(f)
    BY <1>2, Changing
  <2>2. /\ depth' = depth
        /\ \A k \in 1..depth : /\ frames'[k].kind = frames[k].kind
                               /\ frames'[k].ctx = frames[k].ctx
    BY <1>0, <2>1 DEF Changes, depth, Top
  <2> QED  BY <1>0, <2>1, <2>2 DEF Locked, Changes
<1>3. CASE LeaveSteps
  <2>1. Leaves /\ depth > 1
    BY <1>3, Leaving, Running DEF Leaves
  <2>2. /\ depth' = depth - 1 /\ Top = frames[depth]
        /\ \A k \in 1..(depth - 1) : frames'[k] = frames[k]
    BY <1>0, <2>1 DEF Leaves, depth, Top
  <2> QED  BY <1>0, <2>1, <2>2 DEF Locked, Leaves
<1>4. CASE Stays
  BY <1>4 DEF Stays, Locked, depth
<1>5. CASE Catch \/ Rethrow
  <2>1. Abandons
    BY <1>5, Abandoning
  <2>2. \A k \in 1..depth' :
          /\ k \in 1..depth
          /\ frames'[k].kind = "execute" => frames'[k] = frames[k]
    <3>1. CASE Handler.kind # "try"
      BY <1>0, <2>1, <3>1 DEF Abandons, depth
    <3>2. CASE Handler.kind = "try"
      <4> DEFINE f == [Handler EXCEPT !.phase = "catch"]
      <4>1. f.kind = "try" /\ f \in Frame
        BY <2>1, <3>2 DEF Abandons, Frame, BodyPhase
      <4>2. frames' = Append(SubSeq(frames, 1, exception_env - 1), f)
        BY <2>1, <3>2 DEF Abandons
      <4> HIDE DEF f
      <4> QED  BY <1>0, <2>1, <4>1, <4>2 DEF Abandons, depth
    <3> QED  BY <3>1, <3>2
  <2> QED  BY <2>1, <2>2 DEF Locked, Abandons
<1>6. CASE Uncaught \/ Finish
  BY <1>6, Ending DEF Ends, Locked, depth
<1> QED  BY <1>1, <1>2, <1>3, <1>4, <1>5, <1>6, Steps

(* constants.c, eval_stmt.c NODE_EXECUTE: no script run with execute can    *)
(* define a constant, however deep it is, whatever errors it catches and    *)
(* whatever scripts it executes and outlives.                               *)
THEOREM ExecutedAreLocked == Spec => []ExecutedCannotDefine
<1>1. Init => Locked
  BY DEF Init, Locked, depth
<1>2. IInv /\ Locked /\ [Next]_vars => Locked'
  BY LockKept DEF Locked, vars, depth
<1>3. Locked => ExecutedCannotDefine
  BY DEF Locked, ExecutedCannotDefine, Executing
<1>4. Spec => []IInv
  BY InitRecords, NextKeeps, PTL DEF Spec
<1> QED  BY <1>1, <1>2, <1>3, <1>4, PTL DEF Spec

-----------------------------------------------------------------------------
(* Scopes. What a record will free can be reached from nothing that was     *)
(* there before it, so to free it is safe once the current scope is again   *)
(* one of those. Only a catch block may go on in a scope that no record     *)
(* has: one an abandoned call leaves, which nobody frees.                   *)

Live(s) == s \in DOMAIN chain /\ chain[s] \subseteq DOMAIN chain

(* The scopes the first n records use, and the two that are always there.   *)
Held(s, n) ==
  \/ s \in {global_scope, super_global_scope}
  \/ \E j \in 1..n : s = frames[j].old \/ s \in Owned(frames[j])

Owners(f) ==
  /\ f.own # NoScope => f.kind \in {"func", "map", "for", "execute"}
  /\ f.iter # NoScope => f.kind \in {"while", "for", "forin"}

Apart(k) ==
  /\ Owners(frames[k])
  /\ \A s \in Owned(frames[k]) :
       /\ s \notin chain[frames[k].old]
       /\ \A r \in Scope : Held(r, k - 1) => s \notin chain[r]
  /\ frames[k].own # NoScope /\ frames[k].iter # NoScope =>
       frames[k].iter \notin chain[frames[k].own]

ScopesKept ==
  /\ \A s \in DOMAIN chain : s \in chain[s]
  /\ mode \in {"run", "unwind"} =>
       \A s \in Scope : s = current_scope \/ Held(s, depth) => Live(s)
  /\ \A k \in 1..depth : Apart(k)

SInv == IInv /\ ScopesKept /\ (mode \in {"done", "failed"} => depth = 0)

(* A new scope disturbs no other, and no other reaches it.                  *)
LEMMA NewScope ==
  ASSUME \A s \in DOMAIN chain : s \in chain[s],
         NEW s, NEW parent, Live(parent), scope_new(s, parent)
  PROVE  /\ \A t \in DOMAIN chain' : t \in chain'[t]
         /\ Live(s)' /\ chain'[s] = {s} \cup chain[parent]
         /\ s \notin DOMAIN chain
         /\ \A r : Live(r) => /\ r \in DOMAIN chain' /\ chain'[r] = chain[r]
                              /\ Live(r)' /\ s \notin chain'[r]
BY DEF Live, scope_new

(* What does not reach a freed scope stays as it was.                       *)
LEMMA FreedScope ==
  ASSUME \A s \in DOMAIN chain : s \in chain[s],
         NEW dead, scope_free(dead)
  PROVE  /\ \A t \in DOMAIN chain' : t \in chain'[t]
         /\ \A r : Live(r) /\ chain[r] \cap dead = {} =>
              r \in DOMAIN chain' /\ chain'[r] = chain[r] /\ Live(r)'
BY DEF Live, scope_free

(* The records a step leaves alone stay apart.                              *)
LEMMA ApartStays ==
  ASSUME IInv, ScopesKept, NEW n \in Nat, n <= depth,
         \A i \in 1..n : frames'[i] = frames[i],
         \A r \in Scope : Held(r, n) => chain'[r] = chain[r]
  PROVE  \A k \in 1..n : Apart(k)'
<1> SUFFICES ASSUME NEW k \in 1..n PROVE Apart(k)'
  OBVIOUS
<1>1. depth \in Nat /\ frames \in Seq(Frame) /\ depth = Len(frames)
  BY DEF IInv, TypeOK, depth
<1>2. frames'[k] = frames[k] /\ k \in 1..depth /\ k - 1 <= n /\ frames[k] \in Frame
  BY <1>1
<1>3. Apart(k)
  BY <1>2 DEF ScopesKept
<1>4. \A r : Held(r, k - 1)' => Held(r, k - 1) /\ Held(r, n)
  BY <1>2 DEF Held
<1>5. frames[k].old \in Scope /\ Held(frames[k].old, n)
  BY <1>2 DEF Frame, Held
<1>6. frames[k].own # NoScope => frames[k].own \in Scope /\ Held(frames[k].own, n)
  BY <1>2 DEF Frame, Held, Owned
<1> QED
  BY <1>2, <1>3, <1>4, <1>5, <1>6 DEF Apart

LEMMA EnterScopes ==
  ASSUME SInv, mode = "run", NEW f, Enters(f)
  PROVE  ScopesKept'
<1>1. /\ depth \in Nat /\ depth' = depth + 1 /\ frames \in Seq(Frame)
      /\ \A k \in 1..depth : frames'[k] = frames[k]
      /\ frames'[depth + 1] = f /\ f \in Frame /\ IInv
      /\ current_scope \in Scope /\ global_scope \in Scope
  BY Running, ScopeAssumption DEF SInv, IInv, TypeOK, Enters, depth
<1>2. PICK n \in Nat : n = depth
  BY <1>1
<1>3. /\ \A s \in DOMAIN chain : s \in chain[s]
      /\ \A s \in Scope : s = current_scope \/ Held(s, n) => Live(s)
  BY <1>2 DEF SInv, ScopesKept
<1>4. \A r : Held(r, n)' <=> Held(r, n)
  BY <1>1, <1>2 DEF Held
<1>5. \A r : Held(r, n + 1)' <=> Held(r, n)' \/ r = current_scope \/ r \in Owned(f)
  <2>1. f.old = current_scope
    BY DEF Enters
  <2> QED  BY <1>1, <1>2, <2>1 DEF Held
<1>6. CASE chain' = chain /\ f.own = NoScope
           /\ current_scope' \in {current_scope, global_scope}
  <2>1. Owned(f) = {} /\ f.iter = NoScope
    BY <1>6 DEF Owned, Enters
  <2>2. Apart(n + 1)'
    BY <1>1, <1>2, <1>6, <2>1 DEF Apart, Owners
  <2>3. \A k \in 1..n : Apart(k)'
    <3>1. IInv /\ ScopesKept /\ n <= depth
      BY <1>1, <1>2 DEF SInv
    <3>2. \A i \in 1..n : frames'[i] = frames[i]
      BY <1>1, <1>2
    <3>3. \A r \in Scope : Held(r, n) => chain'[r] = chain[r]
      BY <1>6
    <3> QED  BY <3>1, <3>2, <3>3, ApartStays
  <2>4. \A k \in 1..depth' : Apart(k)'
    BY <1>1, <1>2, <2>2, <2>3
  <2>5. \A s \in Scope : s = current_scope' \/ Held(s, n + 1)' => Live(s)'
    BY <1>3, <1>4, <1>5, <1>6, <2>1 DEF Live, Held
  <2> QED  BY <1>1, <1>2, <1>3, <1>6, <2>4, <2>5 DEF ScopesKept
<1>7. ASSUME NEW s \in Scope, scope_new(s, current_scope), f.own = s,
             current_scope' = s, f.kind \in {"func", "map"}
      PROVE  ScopesKept'
  <2>1. Owned(f) = {s} /\ f.iter = NoScope /\ f.old = current_scope
    BY <1>7, ScopeAssumption DEF Owned, Enters
  <2>2. Live(current_scope)
    BY <1>1, <1>3
  <2>3. /\ \A t \in DOMAIN chain' : t \in chain'[t]
        /\ Live(s)'
        /\ \A r : Live(r) => chain'[r] = chain[r] /\ Live(r)' /\ s \notin chain'[r]
    BY <1>3, <1>7, <2>2, NewScope
  <2>4. Apart(n + 1)'
    <3>1. Owners(f)
      BY <1>7, <2>1 DEF Owners
    <3>2. s \notin chain'[f.old]
      BY <2>1, <2>2, <2>3
    <3>3. \A r \in Scope : Held(r, n)' => s \notin chain'[r]
      BY <1>3, <1>4, <2>3
    <3> QED  BY <1>1, <1>2, <2>1, <3>1, <3>2, <3>3 DEF Apart
  <2>5. \A k \in 1..n : Apart(k)'
    BY <1>1, <1>2, <1>3, <2>3, ApartStays DEF SInv
  <2>6. \A k \in 1..depth' : Apart(k)'
    BY <1>1, <1>2, <2>4, <2>5
  <2>7. \A r \in Scope : r = current_scope' \/ Held(r, n + 1)' => Live(r)'
    BY <1>3, <1>4, <1>5, <1>7, <2>1, <2>2, <2>3
  <2> QED  BY <1>1, <1>2, <2>3, <2>6, <2>7 DEF ScopesKept
<1> QED  BY <1>6, <1>7 DEF Enters

(* The scopes of the innermost record that changes into f: none changes; s  *)
(* is new, beside the one the record has or as its only one; or the scope   *)
(* of an iteration is freed.                                                *)
SameScopes(f) == f.old = Top.old /\ f.own = Top.own /\ f.iter = Top.iter

Beside(f, s) ==
  /\ f.old = Top.old /\ current_scope' = s
  /\ \/ f.own = s /\ f.iter = Top.iter /\ scope_new(s, Top.old)
     \/ f.iter = s /\ f.own = Top.own /\ scope_new(s, current_scope)

Only(f, s) ==
  /\ f.old = current_scope /\ current_scope' = s
  /\ \/ f.own = s /\ f.iter = NoScope
     \/ f.iter = s /\ f.own = NoScope
  /\ scope_new(s, current_scope)

Iterated(f) ==
  /\ f.old = Top.old /\ f.own = Top.own /\ f.iter = NoScope
  /\ \/ current_scope' \in {Top.old, super_global_scope}
     \/ current_scope' = Top.own /\ Top.own # NoScope
  /\ scope_free({Top.iter})

Rescopes(f) ==
  /\ f.kind = Top.kind /\ Owners(f)
  /\ \/ /\ SameScopes(f) /\ chain' = chain
        /\ current_scope' \in {current_scope, super_global_scope}
     \/ \E s \in Scope : Beside(f, s) \/ Only(f, s)
     \/ Iterated(f)

LEMMA Rescoping ==
  ASSUME IInv, Owners(Top), ChangeSteps
  PROVE  Rescopes(frames'[depth])
<1> DEFINE f == frames'[depth]
<1>0. mode = "run" /\ \E g : Changes(g)
  BY Changing
<1>1. Top \in Frame /\ depth \in 1..Len(frames) /\ frames \in Seq(Frame)
  BY <1>0, Running DEF depth, IInv, TypeOK
<1>2. f.kind = Top.kind
  BY <1>0, <1>1 DEF Changes
<1>t. \A g : SetTop(g) => f = g
  BY <1>1 DEF SetTop
<1> SUFFICES Rescopes(f)
  OBVIOUS
<1> HIDE DEF f
<1> USE <1>1
<1>3. CASE EnterFunction \/ (\E kind \in {"if", "switch"} : ChooseBlock(kind))
           \/ HaveIterable \/ ArmIteration \/ SetScriptArgs \/ OpenScript \/ RunFlag
  <2>1. SameScopes(f)
    <3>1. CASE EnterFunction
      BY <1>t, <3>1 DEF EnterFunction, SameScopes, Frame
    <3>2. CASE ArmIteration
      BY <1>t, <3>2 DEF ArmIteration, SameScopes, Frame
    <3>3. CASE \E phase \in {"body", "next", "open", "parse"} :
                 SetTop([Top EXCEPT !.phase = phase])
      BY <1>t, <3>3 DEF SameScopes, Frame
    <3> QED
      BY <1>3, <3>1, <3>2, <3>3
         DEF ChooseBlock, HaveIterable, SetScriptArgs, OpenScript, RunFlag
  <2>2. chain' = chain /\ current_scope' = current_scope
    BY <1>3 DEF EnterFunction, ChooseBlock, HaveIterable, ArmIteration,
                SetScriptArgs, OpenScript, RunFlag
  <2> QED  BY <1>2, <2>1, <2>2 DEF SameScopes, Rescopes, Owners
<1>4. CASE DefineLoopVariable
  <2>1. CASE SetTop([Top EXCEPT !.phase = "eval"])
             /\ current_scope' = super_global_scope /\ chain' = chain
    <3>1. SameScopes(f)
      BY <1>t, <2>1 DEF SameScopes, Frame
    <3> QED  BY <1>2, <2>1, <3>1 DEF SameScopes, Rescopes, Owners
  <2>2. ASSUME NEW s \in Scope, scope_new(s, Top.old), current_scope' = s,
               SetTop([Top EXCEPT !.phase = "eval", !.own = s])
        PROVE  Rescopes(f)
    <3>1. f.own = s /\ f.iter = Top.iter /\ f.old = Top.old
      BY <1>t, <2>2 DEF Frame
    <3>2. Top.kind = "for"
      BY <1>4 DEF DefineLoopVariable, At
    <3> QED  BY <1>2, <2>2, <3>1, <3>2 DEF Beside, Rescopes, Owners
  <2> QED  BY <1>4, <2>1, <2>2 DEF DefineLoopVariable
<1>5. ASSUME NEW s \in Scope, EnterIteration(s) PROVE Rescopes(f)
  <2>1. f.iter = s /\ f.own = Top.own
        /\ f.old = IF Top.kind = "while" THEN current_scope ELSE Top.old
    BY <1>t, <1>5 DEF EnterIteration, Frame
  <2>2. Top.kind \in {"while", "for"} /\ scope_new(s, current_scope)
        /\ current_scope' = s
    BY <1>5 DEF EnterIteration
  <2> QED  BY <1>2, <2>1, <2>2 DEF Beside, Only, Rescopes, Owners
<1>6. ASSUME NEW s \in Scope, BindItem(s) PROVE Rescopes(f)
  <2>1. f.iter = s /\ f.own = Top.own /\ f.old = current_scope
    BY <1>t, <1>6 DEF BindItem, Frame
  <2>2. Top.kind = "forin" /\ scope_new(s, current_scope) /\ current_scope' = s
    BY <1>6 DEF BindItem, At
  <2> QED  BY <1>2, <2>1, <2>2 DEF Only, Rescopes, Owners
<1>7. ASSUME NEW s \in Scope, RunScript(s) PROVE Rescopes(f)
  <2>1. f.own = s /\ f.iter = Top.iter /\ f.old = current_scope
    BY <1>t, <1>7 DEF RunScript, Frame
  <2>2. Top.kind = "execute" /\ scope_new(s, current_scope) /\ current_scope' = s
    BY <1>7 DEF RunScript, At
  <2> QED  BY <1>2, <2>1, <2>2 DEF Only, Rescopes, Owners
<1>8. CASE NextIteration \/ NextItem
  <2>1. f.own = Top.own /\ f.iter = NoScope /\ f.old = Top.old
    BY <1>t, <1>8 DEF NextIteration, NextItem, Frame
  <2>2. scope_free({Top.iter})
        /\ current_scope' \in {Top.old, for_scope(Top)}
    BY <1>8 DEF NextIteration, NextItem
  <2>3. Iterated(f)
    BY <2>1, <2>2 DEF Iterated, for_scope
  <2> QED  BY <1>2, <2>1, <2>3 DEF Rescopes, Owners
<1> QED  BY <1>3, <1>4, <1>5, <1>6, <1>7, <1>8 DEF ChangeSteps

LEMMA ChangeScopes ==
  ASSUME SInv, ChangeSteps
  PROVE  ScopesKept'
<1> DEFINE g == frames'[depth]
<1>0. mode = "run" /\ IInv /\ \E h : Changes(h)
  BY Changing DEF SInv
<1>1. /\ depth \in Nat /\ depth > 0 /\ frames \in Seq(Frame)
      /\ depth' = depth /\ Top = frames[depth] /\ Top \in Frame
      /\ \A k \in 1..(depth - 1) : frames'[k] = frames[k]
      /\ g \in Frame /\ current_scope \in Scope
      /\ global_scope \in Scope /\ super_global_scope \in Scope
      /\ DOMAIN chain \subseteq Scope /\ NoScope \notin Scope
  BY <1>0, Running, ScopeAssumption DEF IInv, TypeOK, Changes, depth, Top
<1>2. PICK n \in Nat : n + 1 = depth
  <2>1. depth - 1 \in Nat
    BY <1>1
  <2> QED  BY <1>1, <2>1
<1>3. PICK f \in Frame : f = g
  BY <1>1
<1>4. /\ \A s \in DOMAIN chain : s \in chain[s]
      /\ \A s \in Scope : s = current_scope \/ Held(s, n + 1) => Live(s)
      /\ Apart(n + 1)
  BY <1>0, <1>1, <1>2 DEF SInv, ScopesKept
<1>5. \A r : Held(r, n)' <=> Held(r, n)
  BY <1>1, <1>2 DEF Held
<1>6. \A r : Held(r, n + 1)' <=> Held(r, n) \/ r = f.old \/ r \in Owned(f)
  BY <1>1, <1>2, <1>3 DEF Held
<1>7. \A r : Held(r, n + 1) <=> Held(r, n) \/ r = Top.old \/ r \in Owned(Top)
  BY <1>1, <1>2 DEF Held
<1>8. /\ Owners(Top) /\ Top.old \in Scope /\ Owned(Top) \subseteq Scope
      /\ \A s \in Owned(Top) : /\ s \notin chain[Top.old]
                              /\ \A r \in Scope : Held(r, n) => s \notin chain[r]
      /\ Top.own # NoScope /\ Top.iter # NoScope => Top.iter \notin chain[Top.own]
  <2>1. Top.old \in Scope /\ Owned(Top) \subseteq Scope
    BY <1>1 DEF Owned, Frame
  <2>2. frames[n + 1] = Top /\ (n + 1) - 1 = n
    BY <1>1, <1>2
  <2> QED  BY <1>4, <2>1, <2>2 DEF Apart
<1>9. Rescopes(f)
  BY <1>0, <1>3, <1>8, Rescoping
(* What is to be shown of the new state.                                    *)
<1>10. ASSUME \A t \in DOMAIN chain' : t \in chain'[t],
              \A r \in Scope : Held(r, n) => chain'[r] = chain[r],
              \A r \in Scope : r = current_scope' \/ r = f.old \/ r \in Owned(f)
                              \/ Held(r, n) => Live(r)',
              \A s \in Owned(f) : /\ s \notin chain'[f.old]
                                 /\ \A r \in Scope : Held(r, n) => s \notin chain'[r],
              f.own # NoScope /\ f.iter # NoScope => f.iter \notin chain'[f.own]
       PROVE  ScopesKept'
  <2>1. \A k \in 1..n : Apart(k)'
    BY <1>0, <1>1, <1>2, <1>10, ApartStays DEF SInv
  <2>2. Apart(n + 1)'
    BY <1>1, <1>2, <1>3, <1>5, <1>9, <1>10 DEF Apart, Rescopes
  <2>3. \A k \in 1..depth' : Apart(k)'
    BY <1>1, <1>2, <2>1, <2>2
  <2>4. \A r \in Scope : r = current_scope' \/ Held(r, n + 1)' => Live(r)'
    BY <1>6, <1>10
  <2> QED  BY <1>1, <1>2, <1>10, <2>3, <2>4 DEF ScopesKept
<1>11. CASE SameScopes(f) /\ chain' = chain
            /\ current_scope' \in {current_scope, super_global_scope}
  <2>1. Owned(f) = Owned(Top) /\ f.old = Top.old
    BY <1>11 DEF SameScopes, Owned
  <2>2. Held(super_global_scope, n)
    BY DEF Held
  <2>3. \A r \in Scope : r = current_scope' \/ r = f.old \/ r \in Owned(f)
                         \/ Held(r, n) => Live(r)'
    BY <1>4, <1>7, <1>11, <2>1, <2>2 DEF Live
  <2> QED  BY <1>4, <1>8, <1>10, <1>11, <2>1, <2>3 DEF SameScopes
<1>12. ASSUME NEW s \in Scope, Beside(f, s) PROVE ScopesKept'
  <2>1. PICK parent \in {Top.old, current_scope} :
          scope_new(s, parent) /\ (f.own = s /\ f.iter = Top.iter => parent = Top.old
                                    \/ (f.iter = s /\ f.own = Top.own))
    BY <1>12 DEF Beside
  <2>2. Live(parent) /\ Live(Top.old)
    BY <1>1, <1>4, <1>7, <1>8
  <2>3. /\ \A t \in DOMAIN chain' : t \in chain'[t]
        /\ Live(s)' /\ chain'[s] = {s} \cup chain[parent]
        /\ s \notin DOMAIN chain
        /\ \A r : Live(r) => /\ chain'[r] = chain[r]
                             /\ Live(r)' /\ s \notin chain'[r]
    BY <1>4, <1>12, <2>1, <2>2, NewScope
  <2>4. f.old = Top.old /\ Owned(f) \subseteq Owned(Top) \cup {s}
        /\ current_scope' = s
    BY <1>12 DEF Beside, Owned
  <2>5. \A r \in Owned(Top) : Live(r)
    BY <1>4, <1>7, <1>8
  <2>6. f.own # NoScope /\ f.iter # NoScope => f.iter \notin chain'[f.own]
    <3>1. CASE f.iter = s /\ f.own = Top.own
      BY <2>3, <2>5, <3>1 DEF Owned
    <3>2. CASE f.own = s /\ f.iter = Top.iter /\ ~(f.iter = s /\ f.own = Top.own)
      BY <1>8, <2>1, <2>3, <2>5, <3>2 DEF Owned, Live
    <3> QED  BY <1>12, <3>1, <3>2 DEF Beside
  <2> QED  BY <1>4, <1>7, <1>8, <1>10, <2>2, <2>3, <2>4, <2>5, <2>6
<1>13. ASSUME NEW s \in Scope, Only(f, s) PROVE ScopesKept'
  <2>1. Live(current_scope)
    BY <1>1, <1>4
  <2>2. /\ \A t \in DOMAIN chain' : t \in chain'[t]
        /\ Live(s)'
        /\ \A r : Live(r) => /\ chain'[r] = chain[r]
                             /\ Live(r)' /\ s \notin chain'[r]
    BY <1>4, <1>13, <2>1, NewScope DEF Only
  <2>3. f.old = current_scope /\ Owned(f) \subseteq {s} /\ current_scope' = s
        /\ ~(f.own # NoScope /\ f.iter # NoScope)
    BY <1>13 DEF Only, Owned
  <2> QED  BY <1>4, <1>7, <1>10, <2>1, <2>2, <2>3
<1>14. CASE Iterated(f)
  <2>1. scope_free({Top.iter}) /\ f.iter = NoScope
        /\ f.old = Top.old /\ f.own = Top.own
    BY <1>14 DEF Iterated
  <2>2. Owned(f) = {f.own} \ {NoScope} /\ Owned(f) \subseteq Owned(Top)
    BY <2>1 DEF Owned
  <2>3. ASSUME NEW r \in Scope, Held(r, n) \/ r = Top.old \/ r \in Owned(f)
        PROVE  chain'[r] = chain[r] /\ Live(r)'
    <3>1. Live(r)
      BY <1>4, <1>7, <2>2, <2>3
    <3>2. Top.iter \notin chain[r]
      <4>1. CASE Top.iter = NoScope
        BY <1>1, <3>1, <4>1 DEF Live
      <4>2. CASE Top.iter # NoScope
        BY <1>8, <2>1, <2>2, <2>3, <4>2 DEF Owned
      <4> QED  BY <4>1, <4>2
    <3> QED  BY <1>4, <2>1, <3>1, <3>2, FreedScope
  <2>4. \A t \in DOMAIN chain' : t \in chain'[t]
    BY <1>4, <2>1, FreedScope
  <2>5. Held(current_scope', n) \/ current_scope' = Top.old \/ current_scope' \in Owned(f)
    BY <1>14, <2>1, <2>2 DEF Iterated, Held
  <2> QED  BY <1>4, <1>8, <1>10, <2>1, <2>2, <2>3, <2>4, <2>5
<1> QED  BY <1>9, <1>11, <1>12, <1>13, <1>14 DEF Rescopes

(* A record f that goes gives back its old scope and frees its own, or      *)
(* leaves the current scope as it is and frees none.                        *)
Unscopes(f) ==
  \/ chain' = chain /\ current_scope' \in {current_scope, f.old}
  \/ scope_free({NoScope}) /\ current_scope' = current_scope
  \/ \E dead \in {{f.own}, {f.iter}, {f.iter, f.own}} :
       scope_free(dead) /\ current_scope' = f.old

LEMMA LeaveUnscopes ==
  ASSUME IInv, Owners(Top), LeaveSteps
  PROVE  Unscopes(Top)
<1>1. mode = "run" /\ Top \in Frame /\ NoScope \notin Scope
  BY Leaving, Running, ScopeAssumption
<1>2. CASE LeaveIf \/ LeaveSwitch \/ LeaveBuiltin \/ EndForIn \/ LeaveImport
           \/ LeaveTry \/ LeaveFlag \/ LeaveFlags
  BY <1>2 DEF Unscopes, LeaveIf, LeaveSwitch, LeaveBuiltin, EndForIn,
              LeaveImport, LeaveTry, LeaveFlag, LeaveFlags
<1>3. CASE LeaveFunction \/ LeaveMap \/ LeaveExecute
  BY <1>3 DEF Unscopes, LeaveFunction, LeaveMap, LeaveExecute
<1>4. CASE LeaveLoop \/ LeaveForIn
  BY <1>4 DEF Unscopes, LeaveLoop, LeaveForIn
<1>5. CASE EndLoop
  <2>1. CASE Top.kind = "for"
    BY <1>5, <2>1 DEF Unscopes, EndLoop
  <2>2. CASE Top.kind = "while"
    <3>1. Top.own = NoScope
      BY <2>2 DEF Owners
    <3> QED  BY <1>5, <2>2, <3>1 DEF Unscopes, EndLoop
  <2> QED  BY <1>5, <2>1, <2>2 DEF EndLoop
<1> QED  BY <1>2, <1>3, <1>4, <1>5 DEF LeaveSteps

LEMMA AbandonUnscopes ==
  ASSUME IInv, Owners(Handler), Catch \/ Rethrow
  PROVE  Unscopes(Handler)
<1>1. CASE Catch
  BY <1>1 DEF Catch, Unscopes
<1>2. CASE Rethrow
  <2>1. CASE Handler.kind \in {"forin", "map"}
    <3>1. {Handler.own, Handler.iter} = {Handler.iter, Handler.own}
      OBVIOUS
    <3> QED  BY <1>2, <2>1, <3>1 DEF Rethrow, Unscopes
  <2>2. CASE Handler.kind \notin {"forin", "map"}
    <3>1. Handler.kind \in {"builtin", "flag"}
      BY <1>2, <2>2 DEF Rethrow, Lands
    <3>2. {Handler.own, Handler.iter} = {NoScope}
      BY <3>1 DEF Owners
    <3> QED  BY <1>2, <2>2, <3>2 DEF Rethrow, Unscopes
  <2> QED  BY <2>1, <2>2
<1> QED  BY <1>1, <1>2

(* Whatever is above it, what the first n records use outlives record n + 1.*)
LEMMA CutScopes ==
  ASSUME SInv, mode \in {"run", "unwind"}, NEW n \in Nat, n < depth,
         NEW f, f = frames[n + 1], Unscopes(f),
         \A i \in 1..n : frames'[i] = frames[i]
  PROVE  /\ \A t \in DOMAIN chain' : t \in chain'[t]
         /\ \A r \in Scope : Held(r, n) \/ r = f.old \/ r = current_scope'
              => Live(r)'
         /\ \A k \in 1..n : Apart(k)'
<1>1. /\ depth \in Nat /\ frames \in Seq(Frame) /\ depth = Len(frames)
      /\ n + 1 \in 1..depth /\ f \in Frame /\ n <= depth
      /\ current_scope \in Scope
      /\ DOMAIN chain \subseteq Scope /\ NoScope \notin Scope
  BY ScopeAssumption DEF SInv, IInv, TypeOK, depth
<1>2. /\ \A s \in DOMAIN chain : s \in chain[s]
      /\ \A s \in Scope : s = current_scope \/ Held(s, depth) => Live(s)
      /\ Apart(n + 1)
  BY <1>1 DEF SInv, ScopesKept
<1>3. \A s \in Owned(f) : /\ s \notin chain[f.old]
                         /\ \A r \in Scope : Held(r, n) => s \notin chain[r]
  <2>1. (n + 1) - 1 = n
    BY <1>1
  <2> QED  BY <1>2, <2>1 DEF Apart
<1>4. \A r \in Scope : Held(r, n) \/ r = f.old => Live(r)
  <2>1. \A r : Held(r, n) \/ r = f.old => Held(r, depth)
    BY <1>1 DEF Held
  <2> QED  BY <1>2, <2>1
<1>5. f.old \in Scope
  BY <1>1 DEF Frame
<1>6. /\ \A t \in DOMAIN chain' : t \in chain'[t]
      /\ \A r \in Scope : Held(r, n) \/ r = f.old \/ r = current_scope'
           => chain'[r] = chain[r] /\ Live(r)'
  <2>1. CASE chain' = chain /\ current_scope' \in {current_scope, f.old}
    BY <1>2, <1>4, <2>1 DEF Live
  <2>2. CASE scope_free({NoScope}) /\ current_scope' = current_scope
    <3>1. \A r \in Scope : Live(r) => chain[r] \cap {NoScope} = {}
      BY <1>1 DEF Live
    <3> QED  BY <1>2, <1>4, <2>2, <3>1, FreedScope
  <2>3. ASSUME NEW dead \in {{f.own}, {f.iter}, {f.iter, f.own}},
               scope_free(dead), current_scope' = f.old
        PROVE  /\ \A t \in DOMAIN chain' : t \in chain'[t]
               /\ \A r \in Scope : Held(r, n) \/ r = f.old \/ r = current_scope'
                    => chain'[r] = chain[r] /\ Live(r)'
    <3>1. dead \subseteq Owned(f) \cup {NoScope}
      BY <2>3 DEF Owned
    <3>2. \A r \in Scope : Held(r, n) \/ r = f.old
            => Live(r) /\ chain[r] \cap dead = {}
      BY <1>1, <1>3, <1>4, <3>1 DEF Live
    <3> QED  BY <1>2, <2>3, <3>2, FreedScope
  <2> QED  BY <2>1, <2>2, <2>3 DEF Unscopes
<1>7. \A k \in 1..n : Apart(k)'
  BY <1>1, <1>6, ApartStays DEF SInv
<1> QED  BY <1>6, <1>7

LEMMA LeaveScopes ==
  ASSUME SInv, LeaveSteps
  PROVE  ScopesKept'
<1>0. mode = "run" /\ mode' = "run" /\ IInv /\ Leaves
  BY Leaving DEF SInv
<1>1. /\ depth \in Nat /\ depth > 0 /\ frames \in Seq(Frame)
      /\ depth' = depth - 1 /\ Top = frames[depth]
      /\ \A k \in 1..(depth - 1) : frames'[k] = frames[k]
  BY <1>0, Running DEF IInv, TypeOK, Leaves, depth, Top
<1>2. PICK n \in Nat : n + 1 = depth
  <2>1. depth - 1 \in Nat
    BY <1>1
  <2> QED  BY <1>1, <2>1
<1>3. n < depth /\ depth' = n /\ \A i \in 1..n : frames'[i] = frames[i]
  BY <1>1, <1>2
<1>4. Owners(Top)
  BY <1>1 DEF SInv, ScopesKept, Apart
<1>5. Unscopes(Top) /\ Top = frames[n + 1]
  BY <1>0, <1>1, <1>2, <1>4, LeaveUnscopes
<1>6. /\ \A t \in DOMAIN chain' : t \in chain'[t]
      /\ \A r \in Scope : Held(r, n) \/ r = Top.old \/ r = current_scope'
           => Live(r)'
      /\ \A k \in 1..n : Apart(k)'
  BY <1>0, <1>3, <1>5, CutScopes
<1>7. \A r : Held(r, n)' => Held(r, n)
  BY <1>3 DEF Held
<1> QED  BY <1>3, <1>6, <1>7 DEF ScopesKept

LEMMA AbandonScopes ==
  ASSUME SInv, Catch \/ Rethrow
  PROVE  ScopesKept'
<1>0. mode = "unwind" /\ IInv /\ Abandons
  BY Abandoning DEF SInv
<1>1. PICK n \in Nat : n + 1 = exception_env
  <2>1. exception_env - 1 \in Nat
    BY <1>0 DEF Abandons
  <2> QED  BY <1>0, <2>1 DEF Abandons
<1>2. /\ depth \in Nat /\ n < depth /\ frames \in Seq(Frame)
      /\ n + 1 \in 1..depth /\ n = exception_env - 1
      /\ Handler = frames[n + 1]
  BY <1>0, <1>1 DEF IInv, TypeOK, depth, Abandons, Handler
<1>3. /\ \A i \in 1..n : frames'[i] = frames[i]
      /\ \/ depth' = n
         \/ /\ depth' = n + 1 /\ Handler.kind = "try" /\ chain' = chain
            /\ frames'[n + 1] = [Handler EXCEPT !.phase = "catch"]
  <2>1. CASE Handler.kind # "try"
    BY <1>0, <1>2, <2>1 DEF Abandons, depth
  <2>2. CASE Handler.kind = "try"
    <3> DEFINE g == [Handler EXCEPT !.phase = "catch"]
    <3>1. g \in Frame /\ frames' = Append(SubSeq(frames, 1, n), g)
      BY <1>0, <1>2, <2>2 DEF Abandons, Frame, BodyPhase
    <3>2. chain' = chain
      BY <2>2 DEF Catch, Rethrow, Lands
    <3> HIDE DEF g
    <3>3. depth' = n + 1 /\ frames'[n + 1] = g
          /\ \A i \in 1..n : frames'[i] = frames[i]
      BY <1>2, <3>1 DEF depth
    <3> QED  BY <2>2, <3>2, <3>3 DEF g
  <2> QED  BY <2>1, <2>2
<1>4. Owners(Handler)
  BY <1>2 DEF SInv, ScopesKept, Apart
<1>5. /\ \A t \in DOMAIN chain' : t \in chain'[t]
      /\ \A r \in Scope : Held(r, n) \/ r = Handler.old \/ r = current_scope'
           => Live(r)'
      /\ \A k \in 1..n : Apart(k)'
  BY <1>0, <1>2, <1>3, <1>4, AbandonUnscopes, CutScopes
<1>6. \A r : Held(r, n)' => Held(r, n)
  BY <1>3 DEF Held
<1>7. CASE depth' = n
  BY <1>5, <1>6, <1>7 DEF ScopesKept
<1>8. CASE depth' = n + 1 /\ Handler.kind = "try"
           /\ frames'[n + 1] = [Handler EXCEPT !.phase = "catch"]
  <2>1. PICK g : g = [Handler EXCEPT !.phase = "catch"]
    OBVIOUS
  <2>2. /\ g.kind = "try" /\ g.old = Handler.old
        /\ g.own = Handler.own /\ g.iter = Handler.iter
    BY <1>0, <1>8, <2>1 DEF Abandons, Frame
  <2>3. Owned(g) = {} /\ Owners(g) /\ g.own = NoScope
    <3>1. g.own = NoScope /\ g.iter = NoScope
      BY <1>4, <1>8, <2>2 DEF Owners
    <3> QED  BY <3>1 DEF Owners, Owned
  <2>4. frames'[n + 1] = g
    BY <1>8, <2>1
  <2>5. Apart(n + 1)'
    BY <2>3, <2>4 DEF Apart
  <2>6. \A k \in 1..depth' : Apart(k)'
    BY <1>2, <1>5, <1>8, <2>5
  <2>7. \A r : Held(r, n + 1)' => Held(r, n) \/ r = Handler.old
    BY <1>2, <1>3, <2>2, <2>3, <2>4 DEF Held
  <2> QED  BY <1>5, <1>8, <2>6, <2>7 DEF ScopesKept
<1> QED  BY <1>3, <1>7, <1>8

LEMMA ScopeInvariance == Spec => []SInv
<1>1. Init => SInv
  <2> SUFFICES ASSUME Init PROVE ScopesKept
    BY InitRecords DEF SInv, Init
  <2>1. frames[1].old = global_scope /\ frames[1].own = NoScope
        /\ frames[1].iter = NoScope /\ depth = 1
    BY DEF Init, depth
  <2>2. Owned(frames[1]) = {} /\ Apart(1)
    BY <2>1 DEF Owned, Apart, Owners
  <2>3. DOMAIN chain = {super_global_scope, global_scope}
        /\ \A s \in DOMAIN chain : s \in chain[s] /\ Live(s)
    BY DEF Init, Live
  <2>4. \A s : Held(s, 1) => s \in DOMAIN chain
    BY <2>1, <2>2, <2>3 DEF Held
  <2>5. current_scope \in DOMAIN chain
    BY <2>3 DEF Init
  <2> QED  BY <2>1, <2>2, <2>3, <2>4, <2>5 DEF ScopesKept
<1>2. SInv /\ [Next]_vars => SInv'
  <2> SUFFICES ASSUME SInv, [Next]_vars
               PROVE  ScopesKept' /\ (mode' \in {"done", "failed"} => depth' = 0)
    BY NextKeeps DEF SInv
  <2>1. IInv /\ ScopesKept
    BY DEF SInv
  <2>2. CASE UNCHANGED <<frames, current_scope, chain>>
             /\ (mode' = mode \/ (mode = "run" /\ mode' \in {"run", "unwind"}))
    BY <2>1, <2>2 DEF SInv, ScopesKept, Apart, Held, Live, depth
  <2>3. CASE Uncaught \/ Finish
    <3>1. frames' = <<>> /\ mode' \in {"done", "failed"}
      BY <2>1, <2>3, Ending DEF Ends
    <3>2. DOMAIN chain' = {}
      BY <2>3 DEF Uncaught, Finish, scope_free
    <3>3. depth' = 0
      BY <3>1 DEF depth
    <3> QED  BY <3>1, <3>2, <3>3 DEF ScopesKept
  <2>4. CASE EnterSteps
    BY <2>1, <2>4, Entering, EnterScopes
  <2>6. CASE ChangeSteps
    BY <2>1, <2>6, Changing, ChangeScopes
  <2>7. CASE LeaveSteps
    BY <2>1, <2>7, Leaving, LeaveScopes
  <2>8. CASE Catch \/ Rethrow
    BY <2>1, <2>8, Abandoning, AbandonScopes DEF Abandons
  <2>5. CASE Next
    BY <2>2, <2>3, <2>4, <2>5, <2>6, <2>7, <2>8, Steps DEF Stays
  <2> QED  BY <2>2, <2>5 DEF vars
<1> QED  BY <1>1, <1>2, PTL DEF Spec

(* scope.c scope_free: no scope the evaluator still has is freed, and none  *)
(* is owned twice, in a script of any depth, however it nests loops, calls, *)
(* maps and executed scripts, and from wherever an error abandons them.     *)
THEOREM NothingDangles == Spec => []NoDanglingScope
<1>1. SInv => NoDanglingScope
  <2> SUFFICES ASSUME SInv PROVE NoDanglingScope
    OBVIOUS
  <2>1. /\ depth \in Nat /\ frames \in Seq(Frame) /\ depth = Len(frames)
        /\ current_scope \in Scope \cup {NoScope}
        /\ mode \in {"run", "unwind"} => current_scope \in Scope
        /\ global_scope \in Scope /\ super_global_scope \in Scope
    BY ScopeAssumption DEF SInv, IInv, TypeOK, depth
  <2>2. ASSUME NEW k \in 1..depth
        PROVE  Owned(frames[k]) \subseteq Scope /\ frames[k].old \in Scope
    <3>1. frames[k] \in Frame
      BY <2>1
    <3> QED  BY <3>1 DEF Owned, Frame
  <2>3. ASSUME mode \in {"run", "unwind"},
               NEW s \in {current_scope, global_scope, super_global_scope}
                 \cup UNION {{frames[k].old} \cup Owned(frames[k]) : k \in 1..depth}
        PROVE  s \in DOMAIN chain /\ chain[s] \subseteq DOMAIN chain
    <3>1. s = current_scope \/ Held(s, depth)
      BY <2>3 DEF Held
    <3>2. s \in Scope
      BY <2>1, <2>2, <2>3
    <3> QED  BY <2>3, <3>1, <3>2 DEF SInv, ScopesKept, Live
  <2>4. ASSUME NEW k \in 1..depth, NEW s \in Owned(frames[k])
        PROVE  s \in chain[s] /\ ~Held(s, k - 1)
    <3>1. mode \in {"run", "unwind"}
      BY <2>1 DEF SInv, IInv, TypeOK
    <3>2. s \in Scope /\ Held(s, depth) /\ Apart(k)
      BY <2>2 DEF Held, SInv, ScopesKept
    <3> QED  BY <3>1, <3>2 DEF SInv, ScopesKept, Live, Apart
  <2>5. ASSUME NEW j \in 1..depth, NEW k \in 1..depth, j < k
        PROVE  Owned(frames[j]) \cap Owned(frames[k]) = {}
    <3>1. j \in 1..(k - 1)
      BY <2>1, <2>5
    <3> QED  BY <2>4, <3>1 DEF Held
  <2>6. \A k \in 1..depth : Owned(frames[k]) \cap {global_scope, super_global_scope} = {}
    BY <2>4 DEF Held
  <2>7. \A j, k \in 1..depth : j # k =>
          Owned(frames[j]) \cap Owned(frames[k]) = {}
    <3>1. \A j, k \in 1..depth : j # k => j < k \/ k < j
      BY <2>1
    <3> QED  BY <2>5, <3>1
  <2> QED  BY <2>3, <2>6, <2>7 DEF NoDanglingScope
<1> QED  BY <1>1, ScopeInvariance, PTL

-----------------------------------------------------------------------------
(* The evaluator implements structured exceptions. To the abstract          *)
(* specification a record entered, changed or left is a construct entered,  *)
(* nothing, or a construct left; the raise abandons what is inside the      *)
(* innermost try block at once, and the rethrows on the way there are       *)
(* nothing.                                                                 *)

(* A bounded set of naturals has a greatest element.                        *)
LEMMA Greatest ==
  ASSUME NEW n \in Nat, NEW S, S \subseteq 0..n, S # {}
  PROVE  \E m \in S : \A i \in S : i <= m
<1> DEFINE Above(m) == (m + 1)..n
           T == {Above(m) : m \in S}
           R == StrictSubsetOrdering(0..n)
<1>1. T \subseteq FiniteSubsetsOf(0..n) /\ T # {}
  <2>1. \A m \in S : Above(m) \subseteq 0..n /\ IsFiniteSet(Above(m))
    BY FS_Interval
  <2> QED  BY <2>1 DEF FiniteSubsetsOf
<1>2. IsWellFoundedOn(R, FiniteSubsetsOf(0..n))
  BY FS_StrictSubsetOrderingWellFounded
<1>3. PICK x \in T : \A y \in T : ~(<<y, x>> \in R)
  <2> HIDE DEF T, R
  <2> QED  BY <1>1, <1>2, WFMin
<1>4. PICK m \in S : x = Above(m)
  OBVIOUS
<1> SUFFICES ASSUME NEW i \in S, i > m PROVE FALSE
  OBVIOUS
<1>5. /\ Above(i) \subseteq Above(m) /\ Above(m) \subseteq 0..n
      /\ i \in Above(m) /\ i \notin Above(i)
  OBVIOUS
<1>6. <<Above(i), Above(m)>> \in R
  <2> HIDE DEF Above
  <2> QED  BY <1>5 DEF StrictSubsetOrdering
<1>7. Above(i) \in T
  OBVIOUS
<1> HIDE DEF T, R, Above
<1> QED  BY <1>3, <1>4, <1>6, <1>7

(* i is the innermost try block among the first n records, or 0.            *)
Innermost(i, n) ==
  /\ i \in 0..n
  /\ i # 0 => TryBlock(frames[i])
  /\ \A j \in (i + 1)..n : ~TryBlock(frames[j])

LEMMA InnermostExists ==
  ASSUME NEW n \in Nat
  PROVE  \E i : Innermost(i, n)
<1> DEFINE S == {j \in 1..n : TryBlock(frames[j])}
<1>1. CASE S = {}
  BY <1>1 DEF Innermost
<1>2. CASE S # {}
  <2>1. S \subseteq 0..n
    OBVIOUS
  <2>2. PICK m \in S : \A i \in S : i <= m
    <3> HIDE DEF S
    <3> QED  BY <1>2, <2>1, Greatest
  <2> QED  BY <2>2 DEF Innermost
<1> QED  BY <1>1, <1>2

(* There is only one.                                                       *)
LEMMA OneGreatest ==
  ASSUME NEW n \in Nat, NEW T, NEW i \in 0..n, NEW m \in 0..n,
         i # 0 => i \in T, \A j \in (i + 1)..n : j \notin T,
         m # 0 => m \in T, \A j \in (m + 1)..n : j \notin T
  PROVE  m = i
<1>1. CASE m < i
  <2>1. i \in (m + 1)..n /\ i # 0
    BY <1>1
  <2> QED  BY <2>1
<1>2. CASE i < m
  <2>1. m \in (i + 1)..n /\ m # 0
    BY <1>2
  <2> QED  BY <2>1
<1> QED  BY <1>1, <1>2

LEMMA SeenUnwinding ==
  ASSUME depth \in Nat, mode = "unwind", NEW i, Innermost(i, depth)
  PROVE  Seen = i
<1> DEFINE T == {j \in 1..depth : TryBlock(frames[j])}
           P(m) == (m # 0 => m \in T) /\ \A j \in (m + 1)..depth : j \notin T
<1>1. i \in 0..depth /\ P(i)
  BY DEF Innermost
<1>2. InnermostTry \in 0..depth /\ P(InnermostTry)
  <2> DEFINE Q(m) == /\ m # 0 => TryBlock(frames[m])
                     /\ \A j \in (m + 1)..depth : ~TryBlock(frames[j])
  <2>1. InnermostTry \in 0..depth /\ Q(InnermostTry)
    BY DEF InnermostTry, Innermost
  <2> QED  BY <2>1
<1> HIDE DEF T
<1> QED  BY <1>1, <1>2, OneGreatest DEF Seen

LEMMA SeenUnwindingNext ==
  ASSUME depth' \in Nat, mode' = "unwind", NEW i, Innermost(i, depth)'
  PROVE  Seen' = i
<1> DEFINE T == {j \in 1..depth' : TryBlock(frames[j])'}
           P(m) == (m # 0 => m \in T) /\ \A j \in (m + 1)..depth' : j \notin T
<1>1. i \in 0..depth' /\ P(i)
  BY DEF Innermost
<1>2. InnermostTry' \in 0..depth' /\ P(InnermostTry')
  <2> DEFINE Q(m) == /\ m # 0 => TryBlock(frames'[m])
                     /\ \A j \in (m + 1)..depth' : ~TryBlock(frames'[j])
  <2>1. InnermostTry' \in 0..depth' /\ Q(InnermostTry')
    BY DEF InnermostTry, Innermost
  <2>2. \A m \in 0..depth' : Q(m) => P(m)
    BY DEF TryBlock
  <2> HIDE DEF P, Q
  <2> QED  BY <2>1, <2>2
<1> HIDE DEF T
<1> QED  BY <1>1, <1>2, OneGreatest DEF Seen

(* What the first n records are to the abstract specification.              *)
Marks(n) == [i \in 1..n |-> IF TryBlock(frames[i]) THEN "try" ELSE "plain"]

LEMMA MarksType ==
  ASSUME NEW n \in Nat
  PROVE  /\ Marks(n) \in Seq({"try", "plain"}) /\ Len(Marks(n)) = n
         /\ \A i \in 1..n : Marks(n)[i] = IF TryBlock(frames[i]) THEN "try" ELSE "plain"
BY DEF Marks

LEMMA RefineInit == Init => Structure!Init
<1> SUFFICES ASSUME Init PROVE Structure!Init
  OBVIOUS
<1>1. depth = 1 /\ mode = "run" /\ ~TryBlock(frames[1])
  BY DEF Init, depth, TryBlock
<1>2. Seen = 1
  BY <1>1 DEF Seen
<1>3. Marks(1) = <<"plain">>
  BY <1>1 DEF Marks
<1> QED  BY <1>1, <1>2, <1>3 DEF Structure!Init, Marks

(* The records stay, or change without being a try block before or after.   *)
LEMMA RefineStutter ==
  ASSUME depth \in Nat, depth' = depth, mode' = mode,
         \A i \in 1..depth : TryBlock(frames[i])' <=> TryBlock(frames[i])
  PROVE  UNCHANGED <<Marks(Seen), mode>>
<1>1. Seen' = Seen /\ Seen \in 0..depth
  <2>1. CASE mode = "unwind"
    <3>1. PICK i : Innermost(i, depth)
      BY InnermostExists
    <3>2. Innermost(i, depth)'
      BY <3>1 DEF Innermost
    <3> QED  BY <2>1, <3>1, <3>2, SeenUnwinding, SeenUnwindingNext DEF Innermost
  <2>2. CASE mode # "unwind"
    BY <2>2 DEF Seen
  <2> QED  BY <2>1, <2>2
<1>2. PICK n \in 0..depth : n = Seen
  BY <1>1
<1>3. Marks(n)' = Marks(n)
  BY DEF Marks
<1> QED  BY <1>1, <1>2, <1>3

LEMMA RefineEnter ==
  ASSUME IInv, mode = "run", mode' = "run", NEW f, Enters(f)
  PROVE  Structure!Next
<1>1. PICK n \in Nat : n = depth
  BY Running
<1>2. /\ depth' = n + 1 /\ frames'[n + 1] = f
      /\ \A i \in 1..n : frames'[i] = frames[i]
  BY <1>1 DEF Enters, IInv, TypeOK, depth
<1> DEFINE c == IF TryBlock(f) THEN "try" ELSE "plain"
<1>3. Marks(n + 1)' = Append(Marks(n), c)
  <2>1. \A i \in 1..(n + 1) : TryBlock(frames[i])'
          <=> TryBlock(IF i = n + 1 THEN f ELSE frames[i])
    BY <1>2 DEF TryBlock
  <2> QED  BY <2>1 DEF Marks
<1>4. Seen = n /\ Seen' = n + 1
  BY <1>1, <1>2 DEF Seen
<1>5. Structure!Enter(c)
  BY <1>3, <1>4 DEF Structure!Enter, Marks
<1> QED  BY <1>5 DEF Structure!Next

LEMMA RefineLeave ==
  ASSUME IInv, mode = "run", mode' = "run", Leaves
  PROVE  Structure!Next
<1>1. PICK n \in Nat : n = depth - 1 /\ n + 1 = depth /\ n > 0
  BY Running DEF Leaves
<1>2. depth' = n /\ \A i \in 1..n : frames'[i] = frames[i]
  BY <1>1 DEF Leaves, IInv, TypeOK, depth
<1>3. Marks(n)' = SubSeq(Marks(n + 1), 1, n)
  <2>1. \A i \in 1..n : TryBlock(frames[i])' <=> TryBlock(frames[i])
    BY <1>2 DEF TryBlock
  <2> QED  BY <2>1 DEF Marks
<1>4. Seen = n + 1 /\ Seen' = n
  BY <1>1, <1>2 DEF Seen
<1>5. Len(Marks(n + 1)) = n + 1 /\ n + 1 > 1 /\ (n + 1) - 1 = n
  BY <1>1, MarksType
<1>6. Structure!Leave
  <2>1. Len(Marks(Seen)) > 1
    BY <1>4, <1>5
  <2>2. Marks(Seen)' = SubSeq(Marks(Seen), 1, Len(Marks(Seen)) - 1)
    BY <1>3, <1>4, <1>5
  <2> QED  BY <2>1, <2>2 DEF Structure!Leave, Marks
<1> QED  BY <1>6 DEF Structure!Next

LEMMA RefineRaise ==
  ASSUME IInv, mode = "run", mode' = "unwind", frames' = frames
  PROVE  Structure!Next
<1>1. PICK n \in Nat : n = depth /\ n = depth'
  BY Running DEF depth
<1>2. PICK i \in 0..n : Innermost(i, n)
  BY InnermostExists DEF Innermost
<1>3. Seen = n /\ Seen' = i
  <2>1. Innermost(i, depth)'
    BY <1>1, <1>2 DEF Innermost
  <2> QED  BY <1>1, <2>1, SeenUnwindingNext DEF Seen
<1>4. /\ Marks(i)' = Marks(i) /\ Len(Marks(n)) = n
      /\ \A j \in 1..n : Marks(n)[j] = IF TryBlock(frames[j]) THEN "try" ELSE "plain"
  BY MarksType DEF Marks
<1>5. CASE i = 0
  <2>1. \A j \in 1..n : Marks(n)[j] # "try"
    BY <1>2, <1>4, <1>5 DEF Innermost
  <2>2. Marks(i) = <<>>
    BY <1>5 DEF Marks
  <2>3. Structure!Throw
    BY <1>3, <1>4, <2>1, <2>2 DEF Structure!Throw, Marks
  <2> QED  BY <2>3 DEF Structure!Next
<1>6. CASE i # 0
  <2>1. Structure!Encloses(i)
    BY <1>2, <1>3, <1>4, <1>6 DEF Structure!Encloses, Marks, Innermost
  <2>2. SubSeq(Marks(n), 1, i) = Marks(i)
    BY <1>2 DEF Marks
  <2>3. i \in 1..n
    BY <1>6
  <2>4. Structure!Throw
    BY <1>3, <1>4, <2>1, <2>2, <2>3 DEF Structure!Throw, Marks
  <2> QED  BY <2>4 DEF Structure!Next
<1> QED  BY <1>5, <1>6

(* Where a jump in flight lands: nothing above the handler is a try block.  *)
LEMMA HandlerIsInnermost ==
  ASSUME IInv, mode \in {"run", "unwind"}
  PROVE  /\ depth \in Nat /\ exception_env \in 0..depth
         /\ \A j \in (exception_env + 1)..depth : ~TryBlock(frames[j])
<1>1. depth \in Nat /\ exception_env \in 0..depth
  BY DEF IInv, TypeOK, depth
<1>2. InnermostBelow(exception_env, depth + 1)
  BY DEF IInv, EnvInnermost
<1>3. \A j \in (exception_env + 1)..depth : ~Armed(frames[j])
  BY <1>1, <1>2 DEF InnermostBelow
<1> QED  BY <1>1, <1>3 DEF Armed, TryBlock

LEMMA RefineCatch ==
  ASSUME IInv, Catch
  PROVE  Structure!Next
<1>1. mode = "unwind" /\ mode' = "run" /\ Abandons /\ Handler.kind = "try"
  BY Abandoning DEF Catch, Lands
<1>2. PICK n \in Nat : n + 1 = exception_env /\ n = exception_env - 1
  <2>1. exception_env - 1 \in Nat
    BY <1>1 DEF Abandons
  <2> QED  BY <1>1, <2>1 DEF Abandons
<1>3. /\ depth \in Nat /\ frames \in Seq(Frame) /\ n + 1 \in 1..depth
      /\ \A j \in (n + 2)..depth : ~TryBlock(frames[j])
      /\ TryBlock(frames[n + 1])
  <2>1. TryBlock(Handler)
    BY <1>1 DEF Abandons, Armed, TryBlock
  <2> QED
    BY <1>1, <1>2, <2>1, HandlerIsInnermost
       DEF Abandons, Handler, depth, IInv, TypeOK
<1>4. Seen = n + 1
  BY <1>1, <1>3, SeenUnwinding DEF Innermost
<1>5. /\ depth' = n + 1 /\ ~TryBlock(frames[n + 1])'
      /\ \A i \in 1..n : TryBlock(frames[i])' <=> TryBlock(frames[i])
  <2> DEFINE g == [Handler EXCEPT !.phase = "catch"]
  <2>1. g \in Frame /\ frames' = Append(SubSeq(frames, 1, n), g) /\ ~TryBlock(g)
    BY <1>1, <1>2 DEF Abandons, Frame, BodyPhase, TryBlock
  <2> HIDE DEF g
  <2>2. depth' = n + 1 /\ frames'[n + 1] = g
        /\ \A i \in 1..n : frames'[i] = frames[i]
    BY <1>3, <2>1 DEF depth
  <2> QED  BY <2>1, <2>2 DEF TryBlock
<1>6. Seen' = n + 1
  BY <1>1, <1>5 DEF Seen
<1>7. Marks(n + 1)' = [Marks(n + 1) EXCEPT ![n + 1] = "plain"]
  <2>1. \A i \in 1..(n + 1) :
          TryBlock(frames[i])' <=> i # n + 1 /\ TryBlock(frames[i])
    BY <1>5
  <2> QED  BY <2>1 DEF Marks
<1>8. Len(Marks(Seen)) = n + 1 /\ Marks(Seen) # <<>>
  BY <1>4, MarksType
<1>9. Marks(Seen)' = [Marks(Seen) EXCEPT ![Len(Marks(Seen))] = "plain"]
  BY <1>4, <1>6, <1>7, <1>8
<1>10. Structure!Land
  BY <1>1, <1>8, <1>9 DEF Structure!Land, Marks
<1> QED  BY <1>10 DEF Structure!Next

LEMMA RefineRethrow ==
  ASSUME IInv, Rethrow
  PROVE  UNCHANGED <<Marks(Seen), mode>>
<1>1. mode = "unwind" /\ mode' = "unwind" /\ Abandons /\ Handler.kind # "try"
  BY Abandoning DEF Rethrow, Lands
<1>2. PICK n \in Nat : n + 1 = exception_env /\ n = exception_env - 1
  <2>1. exception_env - 1 \in Nat
    BY <1>1 DEF Abandons
  <2> QED  BY <1>1, <2>1 DEF Abandons
<1>3. /\ depth \in Nat /\ frames \in Seq(Frame) /\ n + 1 \in 1..depth
      /\ \A j \in (n + 1)..depth : ~TryBlock(frames[j])
  <2>1. ~TryBlock(frames[n + 1])
    BY <1>1, <1>2 DEF Handler, TryBlock
  <2> QED
    BY <1>1, <1>2, <2>1, HandlerIsInnermost DEF Abandons, depth, IInv, TypeOK
<1>4. depth' = n /\ \A i \in 1..n : frames'[i] = frames[i]
  BY <1>1, <1>2, <1>3 DEF Abandons, depth
<1>5. PICK i \in 0..n : Innermost(i, n)
  BY InnermostExists DEF Innermost
<1>6. Innermost(i, depth) /\ Innermost(i, depth)'
  BY <1>3, <1>4, <1>5 DEF Innermost
<1>7. Seen = i /\ Seen' = i
  BY <1>1, <1>3, <1>4, <1>6, SeenUnwinding, SeenUnwindingNext
<1>8. Marks(i)' = Marks(i)
  BY <1>4 DEF Marks, TryBlock
<1> QED  BY <1>1, <1>7, <1>8

LEMMA RefineFail ==
  ASSUME IInv, Uncaught
  PROVE  Structure!Next
<1>1. mode = "unwind" /\ mode' = "failed" /\ frames' = <<>> /\ exception_env = 0
  BY DEF Uncaught
<1>2. Innermost(0, depth) /\ depth \in Nat
  BY <1>1, HandlerIsInnermost DEF Innermost
<1>3. Seen = 0 /\ Seen' = 0
  BY <1>1, <1>2, SeenUnwinding DEF Seen, depth
<1>4. Marks(Seen) = <<>> /\ Marks(Seen)' = <<>>
  BY <1>3 DEF Marks
<1>5. Structure!Fail
  BY <1>1, <1>4 DEF Structure!Fail, Marks
<1> QED  BY <1>5 DEF Structure!Next

LEMMA RefineFinish ==
  ASSUME IInv, Finish
  PROVE  Structure!Next
<1>1. mode = "run" /\ mode' = "done" /\ depth = 1 /\ frames' = <<>>
  <2>1. mode = "run" /\ mode' = "done" /\ Top.kind = "main"
    BY DEF Finish, BlockOver
  <2>2. depth = 1
    BY <2>1, Running DEF IInv, TypeOK, Top
  <2> QED  BY <2>1, <2>2, Ending DEF Ends
<1>2. Seen = 1 /\ Seen' = 0
  BY <1>1 DEF Seen, depth
<1>3. Len(Marks(Seen)) = 1 /\ Marks(Seen)' = <<>>
  BY <1>2, MarksType DEF Marks
<1>4. Structure!Finish
  BY <1>1, <1>3 DEF Structure!Finish, Marks
<1> QED  BY <1>4 DEF Structure!Next

(* eval_stmt.c NODE_TRY and the handlers that rethrow: in a script of any   *)
(* depth an error lands in the try block that encloses it, and nowhere      *)
(* else, after any number of rethrows: the evaluator implements TryCatch.   *)
THEOREM ErrorsAreStructured == Spec => StructuredErrors
<1>1. Init => Structure!Init
  BY RefineInit
<1>2. IInv /\ [Next]_vars => [Structure!Next]_(Structure!vars)
  <2> SUFFICES ASSUME IInv, [Next]_vars
               PROVE  Structure!Next \/ UNCHANGED <<Marks(Seen), mode>>
    BY DEF Structure!vars, Marks
  <2>0. depth \in Nat
    BY DEF IInv, TypeOK, depth
  <2>1. CASE frames' = frames /\ mode' = mode
    BY <2>0, <2>1, RefineStutter DEF depth, TryBlock
  <2>2. CASE EnterSteps
    BY <2>2, Entering, RefineEnter
  <2>3. CASE ChangeSteps
    <3>1. PICK f : Changes(f)
      BY <2>3, Changing
    <3>2. mode' = mode /\ depth' = depth
          /\ \A i \in 1..depth : TryBlock(frames[i])' <=> TryBlock(frames[i])
      BY <2>0, <2>3, <3>1, Changing
         DEF Changes, depth, Top, TryBlock, IInv, TypeOK
    <3> QED  BY <2>0, <3>2, RefineStutter
  <2>4. CASE LeaveSteps
    BY <2>4, Leaving, RefineLeave
  <2>5. CASE Stays
    BY <2>1, <2>5, RefineRaise DEF Stays
  <2> QED
    BY <2>1, <2>2, <2>3, <2>4, <2>5, Steps, RefineCatch, RefineRethrow,
       RefineFail, RefineFinish DEF vars
<1>3. Spec => []IInv
  BY InitRecords, NextKeeps, PTL DEF Spec
<1> QED  BY <1>1, <1>2, <1>3, PTL DEF Spec, StructuredErrors, Structure!Spec
=============================================================================
