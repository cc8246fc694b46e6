--------------------------- MODULE DispatchProofs ---------------------------
(***************************************************************************)
(* Theorems about Dispatch: for any number of handlers, a dispatch denies  *)
(* only what a guard or the budget denies, keeps the guard's decision,     *)
(* asks its handlers in order up to it and waits for the recording.        *)
(***************************************************************************)
EXTENDS Dispatch, TLAPS

USE ConstantsAssumption DEF Terminal

\* The types the decisions rest on, and that the budget is read for tool calls
\* only.
Shape ==
  /\ said \in [Handlers -> Answers \cup {"nothing", "running"}]
  /\ static \in [Handlers -> Answers \cup {"script"}]
  /\ rule \in {"allow", "warn"} \cup Terminal
  /\ pc = "read" => event = "PreToolUse"

\* A script runs only for the handler the engine waits for, in the phase of
\* that handler.
OneScript ==
  \A h \in Handlers : said[h] = "running" =>
    /\ h = i
    /\ \/ pc = "guards" /\ phase[h] = "guard"
       \/ pc = "context" /\ phase[h] = "context"

EngineLabels == {"start", "guards", "context", "effects"}

\* While the engine runs nothing has been decided.
Undecided == pc \in EngineLabels => result = "allow" /\ Deciders = {}

\* Once it has ended, a guard's decision is the result, unless the budget or a
\* panic replaced it.
Decided ==
  pc \notin EngineLabels /\ ~panicked =>
    \A h \in Deciders :
      result = Verdict(said[h]) \/ (result = "deny" /\ BudgetDenies)

DecisionInv == Shape /\ OneScript /\ Undecided /\ Decided /\ OnlyGuardsDecide

-----------------------------------------------------------------------------
LEMMA DecisionInitially == Init => DecisionInv
BY DEF Init, DecisionInv, Shape, OneScript, Undecided, Decided, Deciders,
       OnlyGuardsDecide, EngineLabels, Answers

LEMMA ConcludeDecides ==
  ASSUME DecisionInv, NEW a \in Answers, Conclude(a), i \in Handlers,
         \/ pc = "guards" /\ phase[i] = "guard"
         \/ pc = "context" /\ phase[i] = "context"
  PROVE  DecisionInv'
<1> USE DEF DecisionInv, Shape, Answers
<1>1. CASE pc = "guards" /\ a \in Terminal
  <2>1. result' = Verdict(a) /\ pc' = "budget" /\ Deciders' = {i} /\ said'[i] = a
    BY <1>1 DEF Conclude, Deciders, Undecided, EngineLabels, config
  <2>2. Shape' /\ OneScript'
    BY <1>1 DEF Conclude, OneScript, config
  <2>3. OnlyGuardsDecide'
    BY <1>1, <2>1 DEF OnlyGuardsDecide, Verdict
  <2> QED
    BY <2>1, <2>2, <2>3 DEF Undecided, Decided, EngineLabels
<1>2. CASE ~(pc = "guards" /\ a \in Terminal)
  <2>1. UNCHANGED <<result, pc>> /\ Deciders' = {} /\ result' = "allow"
    BY <1>2 DEF Conclude, Deciders, Undecided, EngineLabels, config
  <2>2. Shape' /\ OneScript'
    BY <1>2 DEF Conclude, OneScript, config
  <2> QED
    BY <2>1, <2>2 DEF OnlyGuardsDecide, Undecided, Decided, EngineLabels
<1> QED
  BY <1>1, <1>2

LEMMA DecisionInductive == DecisionInv /\ [Next]_vars => DecisionInv'
<1> SUFFICES ASSUME DecisionInv, [Next]_vars PROVE DecisionInv'
  OBVIOUS
<1> USE DEF DecisionInv, Shape, config
<1>1. CASE Panic
  BY <1>1 DEF Panic, OneScript, Undecided, Decided, Deciders, EngineLabels,
              OnlyGuardsDecide, tail
<1>2. CASE Start
  BY <1>2 DEF Start, OneScript, Undecided, Decided, Deciders, EngineLabels,
              OnlyGuardsDecide, RuleDecides, BudgetDenies, Verdict, tail
<1>3. CASE NextPhase("guards", "context") \/ NextPhase("context", "effects")
  BY <1>3 DEF NextPhase, AtTop, OneScript, Undecided, Decided, Deciders,
              EngineLabels, OnlyGuardsDecide, answer, tail
<1>4. ASSUME NEW this \in {"guards", "context", "effects"},
             NEW p \in Phases, Skip(this, p)
      PROVE  DecisionInv'
  BY <1>4 DEF Skip, HasNext, AtTop, OneScript, Undecided, Decided, Deciders,
              EngineLabels, OnlyGuardsDecide, RuleDecides, BudgetDenies, answer,
              tail
<1>5. CASE AskStatic("guards", "guard") \/ AskStatic("context", "context")
  <2>1. /\ i \in Handlers
        /\ static[i] \in Answers
        /\ Conclude(static[i])
        /\ \/ pc = "guards" /\ phase[i] = "guard"
           \/ pc = "context" /\ phase[i] = "context"
    BY <1>5 DEF AskStatic, HasNext, AtTop
  <2> QED
    BY <2>1, ConcludeDecides
<1>6. CASE StartScript("guards", "guard") \/ StartScript("context", "context")
  BY <1>6 DEF StartScript, HasNext, AtTop, OneScript, Undecided, Decided,
              Deciders, EngineLabels, OnlyGuardsDecide, RuleDecides,
              BudgetDenies, answer, tail
<1>7. CASE ScriptEnds \/ ScriptTimeout
  <2>1. PICK a \in Answers : Conclude(a)
    BY <1>7 DEF ScriptEnds, ScriptTimeout, Answers
  <2>2. /\ i \in Handlers
        /\ \/ pc = "guards" /\ phase[i] = "guard"
           \/ pc = "context" /\ phase[i] = "context"
    BY <1>7 DEF ScriptEnds, ScriptTimeout, ScriptRuns, OneScript
  <2> QED
    BY <2>1, <2>2, ConcludeDecides
<1>8. CASE Fire
  BY <1>8 DEF Fire, HasNext, AtTop, OneScript, Undecided, Decided, Deciders,
              EngineLabels, OnlyGuardsDecide, RuleDecides, BudgetDenies, answer
<1>9. CASE BuildResult
  BY <1>9 DEF BuildResult, OneScript, Undecided, Decided, Deciders,
              EngineLabels, OnlyGuardsDecide, tail
<1>10. CASE OpenBudget
  BY <1>10 DEF OpenBudget, OneScript, Undecided, Decided, Deciders, Verdict,
               EngineLabels, OnlyGuardsDecide, RuleDecides, BudgetDenies, answer,
               tail
<1>11. CASE EnforceBudget
  BY <1>11 DEF EnforceBudget, OneScript, Undecided, Decided, Deciders, Verdict,
               EngineLabels, OnlyGuardsDecide, RuleDecides, BudgetDenies, tail
<1>12. CASE StartRecording \/ StopWaiting \/ Exit
  BY <1>12 DEF StartRecording, StopWaiting, Exit, OneScript, Undecided, Decided,
               Deciders, EngineLabels, OnlyGuardsDecide, RuleDecides,
               BudgetDenies, Verdict, answer, tail
<1>13. CASE \/ Deadline \/ RecordingEnds \/ RecordTimeout \/ UNCHANGED vars
            \/ \E h \in Handlers : EffectEnds(h)
  BY <1>13 DEF Deadline, RecordingEnds, RecordTimeout, EffectEnds, vars,
               OneScript, Undecided, Decided, Deciders, EngineLabels, Verdict,
               OnlyGuardsDecide, RuleDecides, BudgetDenies, answer, tail
<1> QED
  BY <1>1, <1>2, <1>3, <1>4, <1>5, <1>6, <1>7, <1>8, <1>9, <1>10, <1>11, <1>12,
     <1>13
  DEF Next, Step, Finished, Phases

\* Fail-open, for any number of handlers: a denied or withheld tool call had a
\* guard that said so, or the budget was spent; no timeout, error or panic of
\* a handler, no deadline and no database failure makes one.
THEOREM FailOpen == Spec => []OnlyGuardsDecide
<1>1. Init => DecisionInv
  BY DecisionInitially
<1>2. DecisionInv /\ [Next]_vars => DecisionInv'
  BY DecisionInductive
<1>3. DecisionInv => OnlyGuardsDecide
  BY DEF DecisionInv
<1> QED
  BY <1>1, <1>2, <1>3, PTL DEF Spec

\* The decision of a guard reaches the output, however the deadline, the side
\* effects and the recording fall out after it.
THEOREM GuardDecisionReachesOutput == Spec => []DecisionStands
<1>1. Init => DecisionInv
  BY DecisionInitially
<1>2. DecisionInv /\ [Next]_vars => DecisionInv'
  BY DecisionInductive
<1>3. DecisionInv => DecisionStands
  BY DEF DecisionInv, Decided, DecisionStands, EngineLabels
<1> QED
  BY <1>1, <1>2, <1>3, PTL DEF Spec

-----------------------------------------------------------------------------
(* Who was asked. The invariant follows the loops: what lies behind one is  *)
(* answered, what lies before it untouched.                                 *)

Quiet == \A h \in Handlers : effect[h] = "off"
Through(p) == \A h \in Handlers : phase[h] = p => said[h] \in Answers
Untouched(ps) == \A h \in Handlers : phase[h] \notin ps => said[h] = "nothing"

\* The loop of phase p is at handler i.
UpTo(p) ==
  \A h \in Handlers : phase[h] = p =>
    /\ h < i => said[h] \in Answers
    /\ h = i => said[h] \in {"nothing", "running"}
    /\ h > i => said[h] = "nothing"

Fired == \A h \in Handlers : phase[h] = "side_effect" => effect[h] # "off"

Positions ==
  /\ i \in Nat \ {0}
  /\ effect \in [Handlers -> {"off", "running", "done", "cut"}]
  /\ pc = "start" => i = 1 /\ Quiet /\ Untouched({})
  /\ pc = "guards" => Quiet /\ Untouched({"guard"}) /\ UpTo("guard")
  /\ pc = "context" => Quiet /\ UpTo("context") /\ (expired \/ Through("guard"))
  /\ pc = "effects" =>
       \/ expired
       \/ /\ Through("guard") /\ Through("context")
          /\ \A h \in Handlers : phase[h] = "side_effect" /\ h < i => effect[h] # "off"

\* What the engine leaves behind.
Left ==
  /\ DecisionEndsEngine
  /\ pc \notin EngineLabels /\ ~expired /\ ~panicked /\ Deciders = {} /\ ~RuleDecides =>
       Through("guard") /\ Through("context") /\ Fired

AskedInv == DecisionInv /\ Positions /\ Left

LEMMA AskedInitially == Init => AskedInv
BY DecisionInitially
DEF Init, AskedInv, Positions, Left, Quiet, Untouched, DecisionEndsEngine,
    Deciders, EngineLabels

\* A verdict of the loop leaves every later handler alone.
LEMMA ConcludeKeepsOrder ==
  ASSUME AskedInv, DecisionInv', NEW a \in Answers, Conclude(a), i \in Handlers,
         \/ pc = "guards" /\ phase[i] = "guard"
         \/ pc = "context" /\ phase[i] = "context"
  PROVE  AskedInv'
<1> USE DEF AskedInv, DecisionInv, Shape, Answers, Conclude, config, tail, Quiet
<1>1. CASE pc = "guards" /\ a \in Terminal
  <2>1. Deciders' = {i} /\ pc' = "budget" /\ i' = i /\ UNCHANGED <<phase, effect>>
    BY <1>1 DEF Deciders, Undecided, EngineLabels
  <2>2. \A h \in Handlers : h # i /\ (phase[h] # "guard" \/ i < h) =>
          said'[h] = "nothing"
    BY <1>1 DEF Positions, Untouched, UpTo
  <2>3. DecisionEndsEngine'
    BY <1>1, <2>1, <2>2 DEF DecisionEndsEngine, Positions
  <2> QED
    BY <1>1, <2>1, <2>3 DEF Positions, Left
<1>2. CASE ~(pc = "guards" /\ a \in Terminal)
  <2>1. /\ UNCHANGED <<pc, phase, effect, expired>> /\ i' = i + 1
        /\ said' = [said EXCEPT ![i] = a] /\ Deciders' = {}
    BY <1>2 DEF Deciders, Undecided, EngineLabels
  <2>2. \A p \in Phases : UpTo(p) => UpTo(p)'
    BY <2>1 DEF UpTo, Positions, Handlers
  <2>3. \A p \in Phases : Through(p) => Through(p)'
    BY <2>1 DEF Through
  <2>4. pc = "guards" => Untouched({"guard"})'
    BY <2>1 DEF Positions, Untouched
  <2>5. Positions'
    BY <2>1, <2>2, <2>3, <2>4 DEF Positions, Phases
  <2>6. Left'
    BY <2>1 DEF Left, DecisionEndsEngine, EngineLabels
  <2> QED
    BY <2>5, <2>6
<1> QED
  BY <1>1, <1>2

LEMMA AskedInductive == AskedInv /\ [Next]_vars => AskedInv'
<1> SUFFICES ASSUME AskedInv, [Next]_vars PROVE AskedInv'
  OBVIOUS
<1>0. DecisionInv'
  BY DecisionInductive DEF AskedInv
<1> USE <1>0 DEF AskedInv, config
<1> USE DEF Positions, Left, DecisionEndsEngine, Deciders, EngineLabels
<1>1. CASE Panic
  BY <1>1 DEF Panic, Untouched, Quiet, tail, RuleDecides
<1>2. CASE Start
  BY <1>2 DEF Start, Untouched, UpTo, Quiet, tail, RuleDecides, Handlers
<1>3. CASE NextPhase("guards", "context")
  BY <1>3 DEF NextPhase, AtTop, Untouched, UpTo, Through, Quiet, answer, tail, Handlers
<1>4. CASE NextPhase("context", "effects")
  BY <1>4 DEF NextPhase, AtTop, UpTo, Through, Quiet, answer, tail, Handlers
<1>5. ASSUME NEW this \in {"guards", "context", "effects"}, NEW p \in Phases,
             Skip(this, p), <<this, p>> \in {<<"guards", "guard">>,
               <<"context", "context">>, <<"effects", "side_effect">>}
      PROVE  AskedInv'
  BY <1>5 DEF Skip, HasNext, AtTop, Untouched, UpTo, Through, Quiet, answer, tail, Handlers
<1>6. CASE AskStatic("guards", "guard") \/ AskStatic("context", "context")
  <2>1. /\ i \in Handlers
        /\ static[i] \in Answers
        /\ Conclude(static[i])
        /\ \/ pc = "guards" /\ phase[i] = "guard"
           \/ pc = "context" /\ phase[i] = "context"
    BY <1>6 DEF AskStatic, HasNext, AtTop, DecisionInv, Shape
  <2> QED
    BY <2>1, ConcludeKeepsOrder
<1>7. CASE StartScript("guards", "guard") \/ StartScript("context", "context")
  BY <1>7 DEF StartScript, HasNext, AtTop, Untouched, UpTo, Through, Quiet,
              answer, tail, Handlers, DecisionInv, Shape, Undecided
<1>8. CASE ScriptEnds \/ ScriptTimeout
  <2>1. PICK a \in Answers : Conclude(a)
    BY <1>8 DEF ScriptEnds, ScriptTimeout, Answers
  <2>2. /\ i \in Handlers
        /\ \/ pc = "guards" /\ phase[i] = "guard"
           \/ pc = "context" /\ phase[i] = "context"
    BY <1>8 DEF ScriptEnds, ScriptTimeout, ScriptRuns, DecisionInv, OneScript
  <2> QED
    BY <2>1, <2>2, ConcludeKeepsOrder
<1>9. CASE Fire
  BY <1>9 DEF Fire, HasNext, AtTop, Through, answer, Handlers, DecisionInv, Undecided
<1>10. CASE BuildResult
  BY <1>10 DEF BuildResult, Through, Fired, tail, Handlers
<1>11. CASE OpenBudget \/ EnforceBudget
  BY <1>11 DEF OpenBudget, EnforceBudget, Through, Fired, answer, tail, RuleDecides
<1>12. CASE StartRecording \/ StopWaiting
  BY <1>12 DEF StartRecording, StopWaiting, Through, Fired, answer, tail, RuleDecides
<1>13. CASE Exit
  BY <1>13 DEF Exit, Through, Fired, answer, RuleDecides
<1>14. CASE Deadline \/ RecordingEnds \/ RecordTimeout \/ UNCHANGED vars
  BY <1>14 DEF Deadline, RecordingEnds, RecordTimeout, vars, Untouched, UpTo,
               Through, Fired, Quiet, answer, tail, RuleDecides
<1>15. ASSUME NEW h \in Handlers, EffectEnds(h) PROVE AskedInv'
  BY <1>15 DEF EffectEnds, Untouched, UpTo, Through, Fired, Quiet, answer,
               RuleDecides, DecisionInv, Undecided
<1> QED
  BY <1>1, <1>2, <1>3, <1>4, <1>5, <1>6, <1>7, <1>8, <1>9, <1>10, <1>11, <1>12,
     <1>13, <1>14, <1>15
  DEF Next, Step, Finished, Phases

\* Guards are asked in their order up to the first that decides, nothing of the
\* later phases happens after it, and without a decision only the deadline or a
\* panic leaves a handler out, for any number of handlers in any phases.
THEOREM AskedInOrder == Spec => []AskedUntilDecided
<1>1. Init => AskedInv
  BY AskedInitially
<1>2. AskedInv /\ [Next]_vars => AskedInv'
  BY AskedInductive
<1>3. AskedInv => AskedUntilDecided
  BY DEF AskedInv, Left, AskedUntilDecided, NothingSkipped, EngineLabels, Through, Fired
<1> QED
  BY <1>1, <1>2, <1>3, PTL DEF Spec

-----------------------------------------------------------------------------
\* The recording runs from its start to the exit, which it is gone from unless
\* the wait had its timeout.
RecordingInv ==
  /\ analytics = "running" => pc \in {"wait", "exit"}
  /\ pc = "exit" /\ analytics = "running" => waited
  /\ RecordingAwaited

\* The analytics write is cut off by the exit only after its two seconds.
THEOREM RecordingIsAwaited == Spec => []RecordingAwaited
<1> USE DEF RecordingInv, RecordingAwaited
<1>1. Init => RecordingInv
  BY DEF Init
<1>2. RecordingInv /\ [Next]_vars => RecordingInv'
  <2> SUFFICES ASSUME RecordingInv, [Next]_vars PROVE RecordingInv'
    OBVIOUS
  <2>1. CASE Panic \/ Start \/ BuildResult \/ OpenBudget \/ EnforceBudget
    BY <2>1 DEF Panic, Start, BuildResult, OpenBudget, EnforceBudget, tail
  <2>2. ASSUME NEW this \in {"guards", "context", "effects"},
               NEW next \in {"context", "effects"}, NEW p \in Phases,
               NextPhase(this, next) \/ Skip(this, p) \/ StartScript(this, p)
        PROVE  RecordingInv'
    BY <2>2 DEF NextPhase, Skip, StartScript, HasNext, AtTop, tail
  <2>3. ASSUME NEW a, Conclude(a), pc \in {"guards", "context", "effects"}
        PROVE  RecordingInv'
    BY <2>3 DEF Conclude, tail
  <2>4. CASE \/ AskStatic("guards", "guard") \/ AskStatic("context", "context")
             \/ ScriptEnds \/ ScriptTimeout
    BY <2>3, <2>4 DEF AskStatic, HasNext, AtTop, ScriptEnds, ScriptTimeout, ScriptRuns
  <2>5. CASE Fire \/ StartRecording \/ StopWaiting \/ Exit
    BY <2>5 DEF Fire, HasNext, AtTop, StartRecording, StopWaiting, Exit, tail
  <2>6. CASE \/ Deadline \/ RecordingEnds \/ RecordTimeout \/ UNCHANGED vars
             \/ \E h \in Handlers : EffectEnds(h)
    BY <2>6 DEF Deadline, RecordingEnds, RecordTimeout, EffectEnds, vars, tail
  <2> QED
    BY <2>1, <2>2, <2>4, <2>5, <2>6 DEF Next, Step, Finished, Phases
<1>3. RecordingInv => RecordingAwaited
  OBVIOUS
<1> QED
  BY <1>1, <1>2, <1>3, PTL DEF Spec
=============================================================================
