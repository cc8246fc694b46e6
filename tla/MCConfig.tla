------------------------------ MODULE MCConfig ------------------------------
(***************************************************************************)
(* Instances of Config for TLC: rules of every kind of pattern, condition  *)
(* and action, files that override, switch off or break the guards, and    *)
(* includes that lead to different files from different directories.       *)
(***************************************************************************)
EXTENDS Config, TLC

MCToolOf == 
  ("rm" :> "Bash" @@ "ls" :> "Bash" @@ "edit" :> "Write" @@ "bare" :> "")

None == [kind |-> "absent", calls |-> {}]
Cond(kind) == [kind |-> kind, calls |-> {"rm"}]
Rule(kind, tools, when, unless, action) ==
  [match |-> [kind |-> kind, tools |-> tools], when |-> when, unless |-> unless,
   action |-> action]

BlockRm  == Rule("name", {"Bash"}, Cond("test"), None, "block")
WarnBash == Rule("glob", {"Bash"}, None, None, "warn")
AskOther == Rule("glob", Tools, None, Cond("test"), "confirm")
Variable == Rule("name", {"Bash"}, Cond("containsvar"), Cond("emptysub"), "block")
Equals   == Rule("name", {"Bash"}, Cond("equalsvar"), Cond("matchesvar"), "block")
Faulty ==
  <<Rule("badglob", {"Bash"}, None, None, "block"),
    Rule("missing", {"Bash"}, None, None, "block"),
    Rule("name", {"Bash"}, Cond("blank"), None, "block"),
    Rule("name", {"Bash"}, Cond("malformed"), None, "block"),
    Rule("name", {"Bash"}, Cond("emptysub"), None, "block"),
    Rule("name", {"Bash"}, Cond("badregex"), Cond("badregex"), "block"),
    Rule("name", {"Write"}, None, Cond("malformed"), "unknown")>>

Keep == [is |-> "absent", list |-> <<>>]
List(l) == [is |-> "list", list |-> l]
Yaml(g, i, t) == [is |-> "yaml", map |-> [guards |-> g, includes |-> i, timeout |-> t]]
No(is) == [is |-> is, map |-> EmptyMap]

MCGlobalFiles ==
  {No("broken"),
   Yaml(List(<<WarnBash, BlockRm>>), List(<<"r">>), "number")}
MCProjectFiles ==
  {No("missing"), No("broken"),
   Yaml(List(<<AskOther, Variable, Equals, BlockRm>>), Keep, "absent"),
   Yaml([Keep EXCEPT !.is = "null"], List(<<"s", "r">>), "text"),
   Yaml(List(Faulty), [Keep EXCEPT !.is = "scalar"], "absent"),
   Yaml(List(Faulty), List(<<>>), "absent")}
MCRecipeFiles ==
  {No("missing"),
   Yaml(List(<<BlockRm>>), List(<<"s">>), "number")}
=============================================================================
