------------------------------- MODULE Guards -------------------------------
(***************************************************************************)
(* One declarative guard rule: when it fires for a tool call               *)
(* (internal/core/guards.go) and what ValidateConfig says of it            *)
(* (internal/core/config.go). A pattern is the set of tools it is meant to *)
(* match and a condition the set of tool calls it is meant to be true of,  *)
(* so that field paths, operators and letter case need no strings; their   *)
(* kind says whether they are what they are meant to be.                   *)
(***************************************************************************)
EXTENDS Naturals, Sequences

CONSTANTS
  Tools,       \* tool names
  NoTool,      \* the empty one, of a payload that names no tool
  Calls,       \* tool calls: a tool with a payload
  ToolOf,      \* the tool of each call
  EmptyField,  \* the calls whose field in question is the empty string
  Env          \* what the environment says ${VAR} is

ASSUME GuardsAssumption ==
  /\ ToolOf \in [Calls -> Tools] /\ NoTool \in Tools
  /\ EmptyField \subseteq Calls
  /\ Env \in {"undefined", "empty", "plain", "quote", "noregex"}

\* "name" and "glob" patterns match some tools; a "badglob" does not compile,
\* and a "missing" one is the empty string.
MatchKinds == {"missing", "name", "glob", "badglob"}

\* "absent" is no condition and "blank" one of spaces only. "emptysub" is
\* `contains ""`. The value of a variable kind is "${VAR}", to be contained in
\* the field, equal to it or matched with it.
VariableKinds == {"containsvar", "equalsvar", "matchesvar"}
ConditionKinds ==
  {"absent", "blank", "malformed", "emptysub", "badregex", "test"} \cup VariableKinds

Conditions == [kind : ConditionKinds, calls : SUBSET Calls]
Patterns == [kind : MatchKinds, tools : SUBSET Tools]
Actions == {"block", "confirm", "warn", "unknown"}
Rules == [match : Patterns, when : Conditions, unless : Conditions, action : Actions]

-----------------------------------------------------------------------------
(* Loading: ${VAR} in a string is replaced unless VAR is undefined.        *)

\* What a test of ${VAR} then is. A quote in the value ends the quoted string, an
\* empty value makes a substring test void and the others genuine.
TestOf(kind, calls) == [kind |-> kind, calls |-> calls]
InterpolateCondition(c) ==
  IF c.kind \notin VariableKinds THEN c
  ELSE CASE Env = "undefined" -> TestOf("test", {})
         [] Env = "plain"     -> TestOf("test", c.calls)
         [] Env = "quote"     -> TestOf("malformed", c.calls)
         [] Env = "noregex"   -> TestOf(IF c.kind = "matchesvar" THEN "badregex" ELSE "test",
                                        c.calls)
         [] Env = "empty"     ->
              CASE c.kind = "containsvar" -> TestOf("emptysub", {})
                [] c.kind = "equalsvar"   -> TestOf("test", EmptyField)
                [] c.kind = "matchesvar"  -> TestOf("test", Calls)

Interpolate(r) ==
  [r EXCEPT !.when = InterpolateCondition(@), !.unless = InterpolateCondition(@)]

-----------------------------------------------------------------------------
(* Evaluation of one rule.                                                 *)

\* Fault: an empty substring is contained in everything.
EvaluateConditionEmptyTrue(c, call) ==
  CASE c.kind \in {"absent", "blank", "malformed"} -> "nil"
    [] c.kind = "emptysub" -> "true"
    [] c.kind = "badregex" -> "false"
    [] c.kind \in {"test"} \cup VariableKinds -> IF call \in c.calls THEN "true" ELSE "false"

\* EvaluateCondition: nil when the expression cannot be parsed, and false for
\* an empty substring and for a regular expression that does not compile.
EvaluateCondition(c, call) ==
  CASE c.kind \in {"absent", "blank", "malformed"} -> "nil"
    [] c.kind \in {"emptysub", "badregex"} -> "false"
    [] c.kind \in {"test"} \cup VariableKinds -> IF call \in c.calls THEN "true" ELSE "false"

\* matchToolName. A missing pattern equals an empty tool name.
MatchToolName(tool, match) ==
  \/ match.kind \in {"name", "glob"} /\ tool \in match.tools
  \/ match.kind = "missing" /\ tool = NoTool

\* The body of Evaluate's loop: is this the rule that decides?
Fires(r, call) ==
  /\ MatchToolName(ToolOf[call], r.match)
  /\ r.when.kind # "absent" => EvaluateCondition(r.when, call) = "true"
  /\ r.unless.kind # "absent" => EvaluateCondition(r.unless, call) # "true"

-----------------------------------------------------------------------------
(* ValidateConfig, on the rule as it stands in the file.                   *)

ReportedMatch(r) == r.match.kind \in {"missing", "badglob"}
ReportedCondition(c) == c.kind \in {"malformed", "emptysub", "badregex"}

\* The keys of a rule ValidateConfig reports.
Reported(r) ==
  (IF ReportedMatch(r) THEN {"match"} ELSE {})
    \cup (IF r.action = "unknown" THEN {"action"} ELSE {})
    \cup {key \in {"when", "unless"} : ReportedCondition(r[key])}
=============================================================================
