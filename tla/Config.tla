------------------------------- MODULE Config -------------------------------
(***************************************************************************)
(* How a dispatch gets from the configuration files on disk to the verdict *)
(* of the declarative guards (internal/core/config.go, guards.go), while   *)
(* the user edits the files: the global file, the project's file and the   *)
(* files they include are read one after the other and merged, and the     *)
(* rules are tried one after the other. Loading errors fail open and leave *)
(* a warning in warnings.json (internal/core/warnings.go), which the       *)
(* dispatches of all sessions replace with theirs.                         *)
(*                                                                         *)
(* A file is "missing", "broken" (unreadable or no YAML) or "yaml" with    *)
(* four keys: guards and includes, which may be absent, null, of the wrong *)
(* type or a list; and settings.timeout and an analytics section as        *)
(* examples of a nested key and of one no guard depends on.                *)
(***************************************************************************)
EXTENDS Guards

CONSTANTS
  GlobalFiles, ProjectFiles, RecipeFiles,  \* what the user may write
  Names,                                   \* relative include paths
  NoCall                                   \* no tool call yet

Dirs == {"state", "project"}
Shapes == {"absent", "null", "scalar", "list"}

\* A key's value: its shape and, of a list, the elements.
Value(elements) ==
  {[is |-> s, list |-> <<>>] : s \in Shapes \ {"list"}}
    \cup [is : {"list"}, list : Seq(elements)]
Absent == [is |-> "absent", list |-> <<>>]

Maps == [guards : Value(Rules), includes : Value(Names),
         timeout : {"absent", "number", "text"}]
Files == [is : {"missing", "broken", "yaml"}, map : Maps]
EmptyMap == [guards |-> Absent, includes |-> Absent, timeout |-> "absent"]

ASSUME ConfigAssumption ==
  /\ GlobalFiles \subseteq Files
  /\ ProjectFiles \subseteq Files
  /\ RecipeFiles \subseteq Files
  /\ NoCall \notin Calls

VARIABLES
  global,    \* ~/.hookwise/config.yaml
  project,   \* <project>/hookwise.yaml
  recipe,    \* the files relative include paths lead to, per base directory
  pc,        \* where the dispatch is
  call,      \* its tool call
  merged,    \* the map read so far
  base,      \* the directory includes are resolved in
  next,      \* index of the include, and then of the rule, to look at
  rules,     \* the guards of the loaded configuration
  verdict,   \* what the dispatch decided: an action, "allow" or "none" so far
  edited,    \* history: was a file edited since the dispatch began?
  warnings,  \* warnings.json: unexpired warnings of source "config" or "other"
  shown      \* what the status line or doctor last showed of them

disk == <<global, project, recipe>>
load == <<merged, base, next, rules>>
notices == <<warnings, shown>>
vars == <<disk, pc, call, load, verdict, edited, notices>>

Labels == {"idle", "global", "project", "includes", "unmarshal", "guards", "flush"}

Init ==
  /\ global \in GlobalFiles /\ project \in ProjectFiles
  /\ recipe \in [Dirs -> [Names -> RecipeFiles]]
  /\ pc = "idle" /\ call = NoCall
  /\ merged = EmptyMap /\ base = "state" /\ next = 1 /\ rules = <<>>
  /\ verdict = "none" /\ edited = FALSE /\ warnings = "none" /\ shown = "none"

-----------------------------------------------------------------------------
(* LoadConfig.                                                             *)

\* Fault: lists are concatenated.
OverrideConcat(t, s) ==
  [is |-> IF s.is = "absent" THEN t.is ELSE s.is, list |-> t.list \o s.list]

\* A list, a scalar or null in the source replaces the target's value.
Override(t, s) == IF s.is = "absent" THEN t ELSE s

\* DeepMerge; the settings section is a map on both sides, so it recurses.
DeepMerge(t, s) ==
  [guards |-> Override(t.guards, s.guards),
   includes |-> Override(t.includes, s.includes),
   timeout |-> IF s.timeout = "absent" THEN t.timeout ELSE s.timeout]

\* readYAMLFile returns no map for a missing file.
MapOf(f) == IF f.is = "yaml" THEN f.map ELSE EmptyMap

\* A tool call arrives; the dispatch reads its payload first.
Begin(c) ==
  /\ pc = "idle"
  /\ pc' = "global" /\ call' = c
  /\ edited' = FALSE /\ verdict' = "none"
  /\ UNCHANGED <<disk, load, notices>>

Forget == merged' = EmptyMap /\ base' = "state" /\ next' = 1 /\ rules' = <<>>

\* The dispatch fails open: it allows the call and has a warning to write.
FailOpen ==
  /\ pc' = "flush"
  /\ verdict' = "allow"
  /\ Forget

\* The dispatch ends, and what it has read with it.
Decide(v) ==
  /\ pc' = "idle" /\ call' = NoCall
  /\ verdict' = v
  /\ Forget

ReadGlobal ==
  /\ pc = "global"
  /\ \/ global.is = "broken" /\ FailOpen
     \/ /\ global.is # "broken"
        /\ merged' = MapOf(global)
        /\ pc' = "project"
        /\ UNCHANGED <<base, next, rules, verdict>>
  /\ UNCHANGED <<disk, call, edited, notices>>

\* Includes, also those the global file lists, are looked for next to the
\* project's file if there is one.
ReadProject ==
  /\ pc = "project"
  /\ \/ project.is = "broken" /\ FailOpen
     \/ /\ project.is # "broken"
        /\ merged' = DeepMerge(merged, MapOf(project))
        /\ base' = IF project.is = "missing" THEN "state" ELSE "project"
        /\ next' = 1
        /\ pc' = "includes"
        /\ UNCHANGED <<rules, verdict>>
  /\ UNCHANGED <<disk, call, edited, notices>>

\* One turn of ResolveIncludes' loop. A file that is missing or broken is
\* skipped, and an included file's own includes are stripped.
ResolveInclude ==
  /\ pc = "includes"
  /\ next <= Len(merged.includes.list)
  /\ LET f == recipe[base][merged.includes.list[next]] IN
       merged' = IF f.is = "yaml"
                   THEN DeepMerge(merged, [f.map EXCEPT !.includes = Absent])
                   ELSE merged
  /\ next' = next + 1
  /\ UNCHANGED <<disk, pc, call, base, rules, verdict, edited, notices>>

IncludesResolved ==
  /\ pc = "includes"
  /\ next > Len(merged.includes.list)
  /\ pc' = "unmarshal"
  /\ UNCHANGED <<disk, call, load, verdict, edited, notices>>

\* Into HooksConfig: a value of the wrong type is an error, null is no list.
Unmarshals(m) ==
  /\ m.guards.is # "scalar" /\ m.includes.is # "scalar"
  /\ m.timeout # "text"

InterpolateAll(list) == [i \in DOMAIN list |-> Interpolate(list[i])]


\* finalizeConfig: interpolation and unmarshalling.
Unmarshal ==
  /\ pc = "unmarshal"
  /\ \/ ~Unmarshals(merged) /\ FailOpen
     \/ /\ Unmarshals(merged)
        /\ rules' = InterpolateAll(merged.guards.list)
        /\ merged' = EmptyMap /\ base' = "state" /\ next' = 1
        /\ pc' = "guards"
        /\ UNCHANGED verdict
  /\ UNCHANGED <<disk, call, edited, notices>>

-----------------------------------------------------------------------------
(* Evaluate's loop, and what Dispatch makes of its result.                 *)

\* Fault: a rule that only warns does not end the loop.
RuleFiresUnlessWarn ==
  /\ pc = "guards"
  /\ next <= Len(rules)
  /\ Fires(rules[next], call)
  /\ IF rules[next].action = "warn"
       THEN next' = next + 1 /\ UNCHANGED <<pc, call, merged, base, rules, verdict>>
       ELSE Decide(rules[next].action)
  /\ UNCHANGED <<disk, edited, notices>>

\* First match wins; an unknown action ends the loop too and allows the call.
RuleFires ==
  /\ pc = "guards"
  /\ next <= Len(rules)
  /\ Fires(rules[next], call)
  /\ Decide(rules[next].action)
  /\ UNCHANGED <<disk, edited, notices>>

RuleSkipped ==
  /\ pc = "guards"
  /\ next <= Len(rules)
  /\ ~Fires(rules[next], call)
  /\ next' = next + 1
  /\ UNCHANGED <<disk, pc, call, merged, base, rules, verdict, edited, notices>>

NoRuleFires ==
  /\ pc = "guards"
  /\ next > Len(rules)
  /\ Decide("allow")
  /\ UNCHANGED <<disk, edited, notices>>

-----------------------------------------------------------------------------
(* warnings.json.                                                          *)

\* Flush replaces the file; it is best effort.
Flush ==
  /\ pc = "flush"
  /\ warnings' = "config"
  /\ pc' = "idle" /\ call' = NoCall
  /\ UNCHANGED <<disk, load, verdict, edited, shown>>

FlushFails ==
  /\ pc = "flush"
  /\ pc' = "idle" /\ call' = NoCall
  /\ UNCHANGED <<disk, load, verdict, edited, notices>>

\* A dispatch of another session has a warning of its own.
OtherFlush ==
  /\ warnings' = "other"
  /\ UNCHANGED <<disk, pc, call, load, verdict, edited, shown>>

\* The 300 seconds ReadWarnings counts are over.
WarningsExpire ==
  /\ warnings' = "none"
  /\ UNCHANGED <<disk, pc, call, load, verdict, edited, shown>>

\* The status line is drawn, or doctor run: renderWarningSegment and doctor's
\* sixth check show what ReadWarnings returns.
ReadWarnings ==
  /\ shown' = warnings
  /\ UNCHANGED <<disk, pc, call, load, verdict, edited, warnings>>

\* The user saves a file, or removes it.
Edit ==
  /\ \/ global' \in GlobalFiles /\ UNCHANGED <<project, recipe>>
     \/ project' \in ProjectFiles /\ UNCHANGED <<global, recipe>>
     \/ /\ \E d \in Dirs, n \in Names, f \in RecipeFiles : recipe' = [recipe EXCEPT ![d][n] = f]
        /\ UNCHANGED <<global, project>>
  /\ edited' = TRUE
  /\ UNCHANGED <<pc, call, load, verdict, notices>>

-----------------------------------------------------------------------------
LoadStep == ReadGlobal \/ ReadProject \/ ResolveInclude \/ IncludesResolved \/ Unmarshal
GuardStep == RuleFires \/ RuleSkipped \/ NoRuleFires
DispatchStep == (\E c \in Calls : Begin(c)) \/ LoadStep \/ GuardStep \/ Flush \/ FlushFails

Next == DispatchStep \/ OtherFlush \/ WarningsExpire \/ ReadWarnings \/ Edit

\* Tool calls keep coming, the status line keeps being drawn, and a dispatch
\* that again and again gets to write its warnings does: the state directory is
\* writable often enough.
Fairness == WF_vars(DispatchStep) /\ SF_vars(Flush) /\ WF_vars(ReadWarnings)

Spec == Init /\ [][Next]_vars /\ Fairness

-----------------------------------------------------------------------------
TypeOK ==
  /\ global \in Files /\ project \in Files
  /\ recipe \in [Dirs -> [Names -> Files]]
  /\ pc \in Labels
  /\ call \in Calls \cup {NoCall}
  /\ merged \in Maps
  /\ base \in Dirs
  /\ next \in Nat \ {0}
  /\ rules \in Seq(Rules)
  /\ verdict \in Actions \cup {"allow", "none"}
  /\ edited \in BOOLEAN
  /\ warnings \in {"none", "config", "other"} /\ shown \in {"none", "config", "other"}

\* What the files on disk mean, layer by layer: the project's file over the
\* global one, and the includes, in their order, over both. The last layer
\* that mentions a key gives its value.
IncludesInForce ==
  IF MapOf(project).includes.is # "absent" THEN MapOf(project).includes
                                           ELSE MapOf(global).includes
IncludedFrom == recipe[IF project.is = "missing" THEN "state" ELSE "project"]
Layers ==
  <<MapOf(global), MapOf(project)>>
    \o [i \in DOMAIN IncludesInForce.list |-> MapOf(IncludedFrom[IncludesInForce.list[i]])]
LastLayer(Mentions(_)) ==
  LET ls == {i \in DOMAIN Layers : Mentions(Layers[i])}
  IN  IF ls = {} THEN EmptyMap ELSE Layers[CHOOSE i \in ls : \A j \in ls : j <= i]
MentionsGuards(m) == m.guards.is # "absent"
MentionsTimeout(m) == m.timeout # "absent"
GuardsInForce == LastLayer(MentionsGuards).guards
Broken ==
  \/ global.is = "broken" \/ project.is = "broken"
  \/ GuardsInForce.is = "scalar" \/ IncludesInForce.is = "scalar"
  \/ LastLayer(MentionsTimeout).timeout = "text"

\* A dispatch during which nobody edits a file loads exactly the guards that
\* are in force on disk, and fails open exactly when the files are broken.
LoadedIsInForce ==
  ~edited => /\ pc = "guards" => ~Broken /\ rules = InterpolateAll(GuardsInForce.list)
             /\ pc = "flush" => Broken

Matches == {i \in DOMAIN rules : Fires(rules[i], call)}

\* ARCH-5, "first match wins": the loop ends with the action of the first of
\* all the rules that fire, whatever that action is, and allows the call when
\* none does.
FirstMatchWins ==
  [][pc = "guards" /\ pc' = "idle"
       => \/ Matches = {} /\ verdict' = "allow"
          \/ \E i \in Matches : /\ \A j \in Matches : i <= j
                                 /\ verdict' = rules[i].action]_vars

\* doctor's warnings about the project's rules are true: what is reported is
\* never met (by a call that names its tool: a missing pattern equals an empty
\* name), and a rule whose `when` is reported never fires. And they are
\* complete: a pattern or condition that was meant to be met and never is has a
\* warning, spaces apart (they validate as "no condition", config.go:485, and
\* stop the rule from firing, guards.go:209) and unless a variable is involved.
ReportsAreTrue ==
  \A i \in DOMAIN MapOf(project).guards.list :
    LET r == MapOf(project).guards.list[i] IN
      /\ r.match.tools \ {NoTool} # {}
           => ("match" \in Reported(r)
                 <=> \A t \in Tools \ {NoTool} : ~MatchToolName(t, r.match))
      /\ \A key \in {"when", "unless"} :
           r[key].kind \notin {"absent", "blank"} \cup VariableKinds /\ r[key].calls # {}
             => (key \in Reported(r)
                   <=> \A c \in Calls : EvaluateCondition(r[key], c) # "true")
      /\ "when" \in Reported(r) => \A c \in Calls : ~Fires(Interpolate(r), c)

=============================================================================
