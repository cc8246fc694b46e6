--------------------------- MODULE MCSettingsEdit ---------------------------
(***************************************************************************)
(* Instances of SettingsEdit for TLC. The documents put duplicates, near   *)
(* duplicates, other matchers and mixed groups next to hookwise's own      *)
(* entries; one is mistyped, and writes that fail make torn ones. The      *)
(* sprawl thresholds are scaled down to one and two hooks.                 *)
(***************************************************************************)
EXTENDS SettingsEdit, TLC

Lint    == [command |-> <<"lint", "src">>, fields |-> "plain"]
Slow    == [command |-> <<"lint", "src">>, fields |-> "timeout"]
Own     == [command |-> Dispatch("PreToolUse"), fields |-> "plain"]
Group(matcher, hooks) == [matcher |-> matcher, hooks |-> hooks]

MCHooks == {Lint, Slow} \cup {[command |-> Dispatch(e), fields |-> "plain"] : e \in Events}
MCAddedGroup == Group("Bash", <<Lint>>)

Doc(groups) == [EmptyDoc EXCEPT !.hooks = [@ EXCEPT !["PreToolUse"] = groups]]
MCInitDocs ==
  {Doc(<<Group("Bash", <<Lint, Own, Lint, Lint>>)>>),
   Doc(<<Group("", <<Own, Lint>>), Group("Bash", <<Lint, Lint>>)>>),
   Doc(<<Group("Bash", <<Slow, Lint>>), Group("Bash", <<Slow>>)>>),
   [Doc(<<Group("Bash", <<Lint, Lint, Own>>)>>) EXCEPT !.form = "mistyped"]}
MCRequests ==
  {[unwire |-> FALSE, events |-> Events, statusLine |-> TRUE],
   [unwire |-> FALSE, events |-> {"PreToolUse"}, statusLine |-> FALSE],
   [unwire |-> TRUE, events |-> {}, statusLine |-> FALSE]}

Symmetry == Permutations(Procs)
=============================================================================
