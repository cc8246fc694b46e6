------------------------------ MODULE Dispatch ------------------------------
(***************************************************************************)
(* One `hookwise dispatch` process: the three-phase engine                 *)
(* (internal/core/dispatcher.go, handlers.go), the budget override, the    *)
(* bounded wait for the analytics write and the exit (cmd/hookwise/        *)
(* cmd_dispatch.go), against the dispatch deadline, handler timeouts,      *)
(* errors and panics.                                                      *)
(*                                                                         *)
(* Handlers are the configured handlers that match the event, in           *)
(* configuration order. GetHandlersForEvent sorts them by phase, stably,   *)
(* and each phase's loop passes over the handlers of the others: each loop *)
(* meets its handlers in configuration order. What a static handler        *)
(* (inline, builtin) answers is configuration, what a script answers is    *)
(* known when it has run.                                                  *)
(***************************************************************************)
EXTENDS Naturals

CONSTANTS
  N,         \* number of handlers that match the event
  DBFails    \* may the budget's database read fail by itself?

ASSUME ConstantsAssumption == N \in Nat /\ DBFails \in BOOLEAN

Handlers == 1..N
Phases == {"guard", "context", "side_effect", "unknown"}
\* actionToResult, by what the phases look at; "empty" is any error.
Answers == {"empty", "block", "confirm", "warn", "context"}
Terminal == {"block", "confirm"}

VARIABLES
  event,      \* "PreToolUse" or another hook event
  rule,       \* what the declarative guards (core.Evaluate) say
  overBudget, \* enforcement is on and today's total has reached the budget
  phase,      \* inferPhase of each handler
  static,     \* the answer of a static handler; "script" for a script
  pc,         \* where the dispatch is
  i,          \* the handler the loop of the current phase is at
  expired,    \* the dispatch context is past its deadline
  said,       \* what each handler answered; "nothing" if not (yet) asked,
              \* "running" while its script does
  result,     \* "allow", "deny", "ask" or "context"
  panicked,   \* SafeDispatchWithWarnings has recovered a panic
  effect,     \* side-effect goroutines: "off", "running", "done", "cut"
  analytics,  \* the recording goroutine: "off", "running", "done", "cut"
  waited      \* analyticsRecordTimeout has passed

config == <<event, rule, overBudget, phase, static>>
answer == <<result, panicked>>
tail   == <<effect, analytics, waited>>
vars   == <<config, pc, i, expired, said, answer, tail>>

Init ==
  /\ event \in {"PreToolUse", "Stop"}
  /\ rule \in {"allow"} \cup Terminal \cup {"warn"}
  /\ overBudget \in BOOLEAN
  /\ phase \in [Handlers -> Phases]
  /\ static \in [Handlers -> Answers \cup {"script"}]
  /\ pc = "start"
  /\ i = 1
  /\ expired = FALSE
  /\ said = [h \in Handlers |-> "nothing"]
  /\ result = "allow"
  /\ panicked = FALSE
  /\ effect = [h \in Handlers |-> "off"]
  /\ analytics = "off"
  /\ waited = FALSE

-----------------------------------------------------------------------------
Verdict(decision) == IF decision = "block" THEN "deny" ELSE "ask"

\* Fault: fail-closed.
PanicDenies ==
  /\ pc \in {"start", "budget", "read"}
  /\ pc' = "exit"
  /\ panicked' = TRUE
  /\ result' = "deny"
  /\ UNCHANGED <<config, i, expired, said, tail>>

\* The configuration does not load, or something outside the engine's own
\* recovery panics: SafeDispatchWithWarnings exits 0 and prints nothing.
Panic ==
  /\ pc \in {"start", "budget", "read"}
  /\ pc' = "exit"
  /\ panicked' = TRUE
  /\ result' = "allow"
  /\ UNCHANGED <<config, i, expired, said, tail>>

\* Phase 1a: a declarative block or confirm ends the engine, and so does a
\* context that is already done.
Start ==
  /\ pc = "start"
  /\ \/ /\ expired
        /\ pc' = "budget"
        /\ UNCHANGED result
     \/ /\ ~expired /\ event = "PreToolUse" /\ rule \in Terminal
        /\ result' = Verdict(rule)
        /\ pc' = "budget"
     \/ /\ ~expired /\ (event # "PreToolUse" \/ rule \notin Terminal)
        /\ pc' = "guards"
        /\ UNCHANGED result
  /\ UNCHANGED <<config, i, expired, said, panicked, tail>>

\* The loop over the handlers is at its top: nothing is being waited for.
AtTop(this) == pc = this /\ (i \in Handlers => said[i] # "running")
HasNext(this) == AtTop(this) /\ i \in Handlers /\ ~expired

\* Fault: the loop variable is not reset.
NextPhaseGoesOn(this, next) ==
  /\ AtTop(this)
  /\ i \notin Handlers \/ expired
  /\ pc' = next
  /\ UNCHANGED <<config, i, expired, said, answer, tail>>

\* The engine is through with a phase: all handlers seen, or the deadline.
NextPhase(this, next) ==
  /\ AtTop(this)
  /\ i \notin Handlers \/ expired
  /\ pc' = next
  /\ i' = 1
  /\ UNCHANGED <<config, expired, said, answer, tail>>

\* The handlers of one phase, in order; those of the others are passed over.
Skip(this, p) ==
  /\ HasNext(this)
  /\ phase[i] # p
  /\ i' = i + 1
  /\ UNCHANGED <<config, pc, expired, said, answer, tail>>

\* Fault: a decision ends the phase, not the engine.
ConcludeEndsPhase(a) ==
  /\ said' = [said EXCEPT ![i] = a]
  /\ IF pc = "guards" /\ a \in Terminal
       THEN result' = Verdict(a) /\ pc' = "effects" /\ i' = 1
       ELSE i' = i + 1 /\ UNCHANGED <<result, pc>>
  /\ UNCHANGED <<config, expired, panicked, tail>>

\* Fault: the guards after a decision are still asked, and the last one wins.
ConcludeGoesOn(a) ==
  /\ said' = [said EXCEPT ![i] = a]
  /\ i' = i + 1
  /\ result' = IF pc = "guards" /\ a \in Terminal THEN Verdict(a) ELSE result
  /\ UNCHANGED <<config, pc, expired, panicked, tail>>

\* The next handler has answered a. In executeGuardPhase the first block or
\* confirm ends the engine; executeContextPhase looks at the context only.
Conclude(a) ==
  /\ said' = [said EXCEPT ![i] = a]
  /\ IF pc = "guards" /\ a \in Terminal
       THEN result' = Verdict(a) /\ pc' = "budget" /\ UNCHANGED i
       ELSE i' = i + 1 /\ UNCHANGED <<result, pc>>
  /\ UNCHANGED <<config, expired, panicked, tail>>

AskStatic(this, p) ==
  /\ HasNext(this)
  /\ phase[i] = p /\ static[i] # "script"
  /\ Conclude(static[i])

StartScript(this, p) ==
  /\ HasNext(this)
  /\ phase[i] = p /\ static[i] = "script"
  /\ said' = [said EXCEPT ![i] = "running"]
  /\ UNCHANGED <<config, pc, i, expired, answer, tail>>

ScriptRuns ==
  pc \in {"guards", "context"} /\ i \in Handlers /\ said[i] = "running"

\* Past the deadline a script's output is thrown away; an exit code other than
\* 0 and 2, a signal or unparsable output counts for nothing.
ScriptEnds ==
  /\ ScriptRuns
  /\ \E a \in IF expired THEN {"empty"} ELSE Answers : Conclude(a)

\* The handler's own timeout, or the deadline, kills the script.
ScriptTimeout == ScriptRuns /\ Conclude("empty")

\* fireSideEffects: a goroutine each.
Fire ==
  /\ HasNext("effects")
  /\ phase[i] = "side_effect"
  /\ effect' = [effect EXCEPT ![i] = "running"]
  /\ i' = i + 1
  /\ UNCHANGED <<config, pc, expired, said, answer, analytics, waited>>

\* The contributions that mergeContext joins; a handler asked before the
\* deadline contributes even if the phase was cut short after it.
Contexts ==
  {h \in Handlers : \/ phase[h] = "guard" /\ said[h] = "warn"
                    \/ phase[h] = "context" /\ said[h] = "context"}

BuildResult ==
  /\ pc = "effects"
  /\ i \notin Handlers \/ expired
  /\ result' = IF Contexts # {} \/ (event = "PreToolUse" /\ rule = "warn")
                 THEN "context" ELSE "allow"
  /\ pc' = "budget"
  /\ UNCHANGED <<config, i, expired, said, panicked, tail>>

-----------------------------------------------------------------------------
(* The command layer.                                                      *)

\* enforceBudget opens the database itself, with a context of its own: neither
\* the dispatch deadline nor a timer of the program ends the call. Without
\* enforcement it is not opened; an error lets the tool call through.
OpenBudget ==
  /\ pc = "budget"
  /\ \/ event = "PreToolUse" /\ pc' = "read"
     \/ (event # "PreToolUse" \/ ~overBudget \/ DBFails) /\ pc' = "record"
  /\ UNCHANGED <<config, i, expired, said, answer, tail>>

\* The total is then read under the dispatch context: past the deadline, or on
\* any error, the tool call goes through.
EnforceBudget ==
  /\ pc = "read"
  /\ \/ overBudget /\ ~expired /\ result' = "deny"
     \/ (~overBudget \/ expired \/ DBFails) /\ UNCHANGED result
  /\ pc' = "record"
  /\ UNCHANGED <<config, i, expired, said, panicked, tail>>

\* The recording goroutine starts, or analytics are off for this session.
StartRecording ==
  /\ pc = "record"
  /\ pc' = "wait"
  /\ analytics' \in {"running", "done"}
  /\ UNCHANGED <<config, i, expired, said, answer, effect, waited>>

\* Fault: the recording goroutine is not waited for.
StopWaitingAtOnce ==
  /\ pc = "wait"
  /\ pc' = "exit"
  /\ UNCHANGED <<config, i, expired, said, answer, tail>>

\* Fault: the wait has no timeout.
StopWaitingWhenDone ==
  /\ pc = "wait"
  /\ analytics = "done"
  /\ pc' = "exit"
  /\ UNCHANGED <<config, i, expired, said, answer, tail>>

\* Either channel of the select.
StopWaiting ==
  /\ pc = "wait"
  /\ analytics = "done" \/ waited
  /\ pc' = "exit"
  /\ UNCHANGED <<config, i, expired, said, answer, tail>>

\* Output is printed and os.Exit(0) takes every goroutine with it.
Exit ==
  /\ pc = "exit"
  /\ pc' = "exited"
  /\ effect' = [h \in Handlers |->
                  IF effect[h] = "running" THEN "cut" ELSE effect[h]]
  /\ analytics' = IF analytics = "running" THEN "cut" ELSE analytics
  /\ UNCHANGED <<config, i, expired, said, answer, waited>>

-----------------------------------------------------------------------------
(* Concurrently: clocks and goroutines.                                    *)

Deadline ==
  /\ pc # "exited" /\ ~expired
  /\ expired' = TRUE
  /\ UNCHANGED <<config, pc, i, said, answer, tail>>

EffectEnds(h) ==
  /\ effect[h] = "running"
  /\ effect' = [effect EXCEPT ![h] = "done"]
  /\ UNCHANGED <<config, pc, i, expired, said, answer, analytics, waited>>

RecordingEnds ==
  /\ analytics = "running"
  /\ analytics' = "done"
  /\ UNCHANGED <<config, pc, i, expired, said, answer, effect, waited>>

RecordTimeout ==
  /\ pc = "wait" /\ ~waited
  /\ waited' = TRUE
  /\ UNCHANGED <<config, pc, i, expired, said, answer, effect, analytics>>

\* The steps of the dispatch's own goroutine, the open of the database aside.
Step ==
  \/ Start
  \/ NextPhase("guards", "context") \/ NextPhase("context", "effects")
  \/ Skip("guards", "guard") \/ Skip("context", "context")
  \/ Skip("effects", "side_effect")
  \/ AskStatic("guards", "guard") \/ AskStatic("context", "context")
  \/ StartScript("guards", "guard") \/ StartScript("context", "context")
  \/ Fire \/ BuildResult
  \/ EnforceBudget \/ StartRecording \/ StopWaiting \/ Exit

Finished == pc = "exited" /\ UNCHANGED vars

Next ==
  \/ Step \/ OpenBudget \/ Panic
  \/ ScriptEnds \/ ScriptTimeout \/ Deadline \/ RecordingEnds \/ RecordTimeout
  \/ \E h \in Handlers : EffectEnds(h)
  \/ Finished

Spec == Init /\ [][Next]_vars

\* The process runs and its timers fire. No script, side effect or write of the
\* recording is assumed ever to finish; the open of the budget's database is:
\* SQLite gives up on a lock after its busy_timeout of five seconds.
FairSpec ==
  /\ Spec /\ WF_vars(Step) /\ WF_vars(OpenBudget)
  /\ WF_vars(ScriptTimeout) /\ WF_vars(RecordTimeout)

-----------------------------------------------------------------------------
TypeOK ==
  /\ event \in {"PreToolUse", "Stop"}
  /\ rule \in {"allow", "warn"} \cup Terminal
  /\ overBudget \in BOOLEAN
  /\ phase \in [Handlers -> Phases]
  /\ static \in [Handlers -> Answers \cup {"script"}]
  /\ pc \in {"start", "guards", "context", "effects", "budget", "read",
             "record", "wait", "exit", "exited"}
  /\ i \in 1..(N + 1)
  /\ expired \in BOOLEAN
  /\ said \in [Handlers -> Answers \cup {"nothing", "running"}]
  /\ result \in {"allow", "deny", "ask", "context"}
  /\ panicked \in BOOLEAN
  /\ effect \in [Handlers -> {"off", "running", "done", "cut"}]
  /\ analytics \in {"off", "running", "done", "cut"}
  /\ waited \in BOOLEAN

\* The handler guards that answered block or confirm.
Deciders == {h \in Handlers : phase[h] = "guard" /\ said[h] \in Terminal}
RuleDecides == event = "PreToolUse" /\ rule \in Terminal
BudgetDenies == event = "PreToolUse" /\ overBudget

\* Fail-open: a tool call is denied or held for confirmation only when a guard
\* said so, or the budget is spent; no timeout, error or panic does it.
OnlyGuardsDecide ==
  /\ result = "deny" => \/ BudgetDenies
                        \/ RuleDecides /\ rule = "block"
                        \/ \E h \in Deciders : said[h] = "block"
  /\ result = "ask" => \/ RuleDecides /\ rule = "confirm"
                       \/ \E h \in Deciders : said[h] = "confirm"

\* A guard's decision reaches the output, whatever the deadline does after it:
\* only a budget deny or a panic takes its place.
DecisionStands ==
  pc = "exited" /\ ~panicked =>
    \A h \in Deciders :
      result = Verdict(said[h]) \/ (result = "deny" /\ BudgetDenies)

\* One guard decides, no guard after it is asked, nothing is injected and no
\* side effect is fired.
DecisionEndsEngine ==
  /\ \A h, k \in Deciders : h = k
  /\ Deciders # {} =>
       \A h \in Handlers :
         /\ effect[h] = "off"
         /\ phase[h] # "guard" => said[h] = "nothing"
         /\ phase[h] = "guard" /\ (\E k \in Deciders : k < h) => said[h] = "nothing"

\* A guard, a context handler or a side effect is passed over only because of a
\* decision, the deadline or a panic.
NothingSkipped ==
  pc = "exited" /\ ~expired /\ ~panicked /\ Deciders = {} /\ ~RuleDecides =>
    \A h \in Handlers :
      /\ phase[h] \in {"guard", "context"} => said[h] \in Answers
      /\ phase[h] = "side_effect" => effect[h] # "off"

\* "A block/confirm decision is terminal", and nothing else is: the handlers
\* are asked in their order up to the decision and all of them without one.
AskedUntilDecided == DecisionEndsEngine /\ NothingSkipped

\* "This MUST complete before the process exits": the analytics write is cut
\* off by os.Exit only after the two-second wait.
RecordingAwaited == analytics = "cut" => waited

\* From the start of the engine a hook never hangs, whatever its scripts, its
\* goroutines and the recording's database do.
Terminates == <>(pc = "exited")
=============================================================================
