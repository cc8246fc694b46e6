---------------------------- MODULE ConfigProofs ----------------------------
(***************************************************************************)
(* Theorems about Config, for any configuration files: the types, first    *)
(* match wins, what ValidateConfig reports, and that a dispatch loads what *)
(* is in force on disk.                                                    *)
(***************************************************************************)
EXTENDS Config, TLAPS

-----------------------------------------------------------------------------
(* The helpers stay within their types.                                    *)

LEMMA InterpolateType ==
  ASSUME NEW r \in Rules PROVE Interpolate(r) \in Rules
<1>1. ASSUME NEW c \in Conditions PROVE InterpolateCondition(c) \in Conditions
  <2>1. CASE c.kind \notin VariableKinds
    BY <2>1 DEF InterpolateCondition
  <2>2. \A kind \in ConditionKinds : \A calls \in SUBSET Calls :
          TestOf(kind, calls) \in Conditions
    BY DEF TestOf, Conditions
  <2>3. CASE c.kind \in VariableKinds
    BY <2>2, <2>3, GuardsAssumption
       DEF InterpolateCondition, Conditions, ConditionKinds, VariableKinds
  <2> QED
    BY <2>1, <2>3
<1> QED
  BY <1>1 DEF Interpolate, Rules

LEMMA InterpolateAllType ==
  ASSUME NEW list \in Seq(Rules) PROVE InterpolateAll(list) \in Seq(Rules)
<1>1. \A i \in 1..Len(list) : Interpolate(list[i]) \in Rules
  BY InterpolateType
<1> QED
  BY <1>1 DEF InterpolateAll

LEMMA MapTypes ==
  /\ EmptyMap \in Maps
  /\ \A f \in Files : MapOf(f) \in Maps
  /\ \A t, s \in Maps : DeepMerge(t, s) \in Maps
  /\ \A m \in Maps : [m EXCEPT !.includes = Absent] \in Maps
<1>1. \A S : Absent \in Value(S)
  BY DEF Absent, Value, Shapes
<1>2. EmptyMap \in Maps
  BY <1>1 DEF EmptyMap, Maps
<1>3. \A f \in Files : MapOf(f) \in Maps
  BY <1>2 DEF MapOf, Files
<1>4. \A t, s \in Maps : DeepMerge(t, s) \in Maps
  BY DEF DeepMerge, Override, Maps
<1>5. \A m \in Maps : [m EXCEPT !.includes = Absent] \in Maps
  BY <1>1 DEF Maps
<1> QED
  BY <1>2, <1>3, <1>4, <1>5

LEMMA ListTypes ==
  ASSUME NEW m \in Maps
  PROVE  m.guards.list \in Seq(Rules) /\ m.includes.list \in Seq(Names)
<1>1. ASSUME NEW S, NEW v \in Value(S) PROVE v.list \in Seq(S)
  <2>1. CASE v \in {[is |-> s, list |-> <<>>] : s \in Shapes \ {"list"}}
    <3>1. v.list = <<>>
      BY <2>1
    <3>2. <<>> \in Seq(S)
      OBVIOUS
    <3> QED
      BY <3>1, <3>2
  <2>2. CASE v \in [is : {"list"}, list : Seq(S)]
    BY <2>2
  <2> QED
    BY <2>1, <2>2 DEF Value
<1> QED
  BY <1>1 DEF Maps

-----------------------------------------------------------------------------
(* Type correctness.                                                       *)

LEMMA TypeInitially == Init => TypeOK
<1> SUFFICES ASSUME Init PROVE TypeOK
  OBVIOUS
<1>1. global \in Files /\ project \in Files /\ recipe \in [Dirs -> [Names -> Files]]
  BY ConfigAssumption DEF Init
<1>2. merged \in Maps /\ base \in Dirs /\ next \in Nat \ {0} /\ rules \in Seq(Rules)
  BY MapTypes DEF Init, Dirs
<1> QED
  BY <1>1, <1>2 DEF Init, TypeOK, Labels

LEMMA ForgetType ==
  ASSUME Forget
  PROVE  merged' \in Maps /\ base' \in Dirs /\ next' \in Nat \ {0} /\ rules' \in Seq(Rules)
BY MapTypes DEF Forget, Dirs

LEMMA TypeInductive == TypeOK /\ [Next]_vars => TypeOK'
<1> SUFFICES ASSUME TypeOK, [Next]_vars PROVE TypeOK'
  OBVIOUS
<1> USE DEF disk, notices
<1>1. ASSUME NEW c \in Calls, Begin(c) PROVE TypeOK'
  BY <1>1 DEF TypeOK, Begin, load, Labels
<1>2. CASE ReadGlobal
  BY <1>2, MapTypes, ForgetType DEF TypeOK, ReadGlobal, FailOpen, Labels
<1>3. CASE ReadProject
  BY <1>3, MapTypes, ForgetType DEF TypeOK, ReadProject, FailOpen, Labels, Dirs
<1>4. CASE ResolveInclude
  <2>1. PICK f \in Files :
          merged' = IF f.is = "yaml"
                      THEN DeepMerge(merged, [f.map EXCEPT !.includes = Absent])
                      ELSE merged
    <3>1. merged.includes.list[next] \in Names
      BY <1>4, ListTypes DEF TypeOK, ResolveInclude
    <3>2. recipe[base][merged.includes.list[next]] \in Files
      BY <3>1 DEF TypeOK
    <3> QED
      BY <1>4, <3>2 DEF ResolveInclude
  <2>2. merged' \in Maps
    BY <2>1, MapTypes DEF TypeOK, Files
  <2> QED
    BY <1>4, <2>2 DEF TypeOK, ResolveInclude
<1>5. CASE IncludesResolved
  BY <1>5 DEF TypeOK, IncludesResolved, load, Labels
<1>6. CASE Unmarshal
  BY <1>6, MapTypes, ForgetType, ListTypes, InterpolateAllType
     DEF TypeOK, Unmarshal, FailOpen, Labels, Dirs
<1>7. CASE RuleFires
  <2>1. rules[next].action \in Actions
    <3>1. next \in 1..Len(rules) /\ rules \in Seq(Rules)
      BY <1>7 DEF TypeOK, RuleFires
    <3>2. rules[next] \in Rules
      BY <3>1
    <3> QED
      BY <3>2 DEF Rules
  <2> QED
    BY <1>7, <2>1, ForgetType DEF TypeOK, RuleFires, Decide, Labels
<1>8. CASE RuleSkipped
  BY <1>8 DEF TypeOK, RuleSkipped
<1>9. CASE NoRuleFires
  BY <1>9, ForgetType DEF TypeOK, NoRuleFires, Decide, Labels
<1>10. CASE Flush
  BY <1>10 DEF TypeOK, Flush, load, Labels
<1>11. CASE FlushFails
  BY <1>11 DEF TypeOK, FlushFails, load, Labels
<1>12. CASE OtherFlush
  BY <1>12 DEF TypeOK, OtherFlush, load
<1>13. CASE WarningsExpire \/ ReadWarnings
  BY <1>13 DEF TypeOK, WarningsExpire, ReadWarnings, load
<1>14. CASE Edit
  <2>1. global' \in Files /\ project' \in Files /\ recipe' \in [Dirs -> [Names -> Files]]
    BY <1>14, ConfigAssumption DEF TypeOK, Edit
  <2> QED
    BY <1>14, <2>1 DEF TypeOK, Edit, load
<1>15. CASE UNCHANGED vars
  BY <1>15 DEF TypeOK, vars, load
<1> QED
  BY <1>1, <1>2, <1>3, <1>4, <1>5, <1>6, <1>7, <1>8, <1>9, <1>10, <1>11, <1>12,
     <1>13, <1>14, <1>15 DEF Next, DispatchStep, LoadStep, GuardStep

\* Every variable keeps its type, whatever the files hold and whenever they
\* are edited: in particular the loaded guards are always a list of rules.
THEOREM TypeCorrect == Spec => []TypeOK
<1> QED
  BY TypeInitially, TypeInductive, PTL DEF Spec

-----------------------------------------------------------------------------
(* First match wins.                                                       *)

\* No rule before the one the loop looks at fires.
NoneBefore ==
  pc = "guards" => \A i \in DOMAIN rules : i < next => ~Fires(rules[i], call)

LEMMA NoneBeforeInitially == Init => NoneBefore
BY DEF Init, NoneBefore

LEMMA NoneBeforeInductive == TypeOK /\ NoneBefore /\ [Next]_vars => NoneBefore'
<1> SUFFICES ASSUME TypeOK, NoneBefore, [Next]_vars, pc' = "guards"
             PROVE  \A i \in DOMAIN rules' : i < next' => ~Fires(rules'[i], call')
  BY DEF NoneBefore
<1>1. CASE Unmarshal
  <2>1. next' = 1 /\ rules' \in Seq(Rules)
    BY <1>1, ListTypes, InterpolateAllType DEF TypeOK, Unmarshal, FailOpen
  <2> QED
    BY <2>1
<1>2. CASE RuleSkipped
  BY <1>2 DEF TypeOK, NoneBefore, RuleSkipped
<1>3. ASSUME UNCHANGED <<pc, rules, next, call>>
      PROVE  \A i \in DOMAIN rules' : i < next' => ~Fires(rules'[i], call')
  BY <1>3 DEF NoneBefore
<1>4. Unmarshal \/ RuleSkipped \/ UNCHANGED <<pc, rules, next, call>>
  BY DEF Next, DispatchStep, LoadStep, GuardStep, Begin, ReadGlobal, ReadProject,
         ResolveInclude, IncludesResolved, RuleFires, NoRuleFires, Decide, FailOpen,
         Flush, FlushFails, OtherFlush, WarningsExpire, ReadWarnings, Edit, vars, load
<1> QED
  BY <1>1, <1>2, <1>3, <1>4

LEMMA DecisionIsFirstMatch ==
  ASSUME TypeOK, NoneBefore, [Next]_vars, pc = "guards", pc' = "idle"
  PROVE  \/ Matches = {} /\ verdict' = "allow"
         \/ \E i \in Matches : /\ \A j \in Matches : i <= j
                                /\ verdict' = rules[i].action
<1>1. next \in Nat \ {0} /\ DOMAIN rules = 1..Len(rules) /\ Len(rules) \in Nat
  BY DEF TypeOK
<1>2. \A i \in Matches : i \in 1..Len(rules) /\ i >= next
  BY <1>1 DEF Matches, NoneBefore
<1>3. CASE RuleFires
  <2>1. next \in Matches /\ verdict' = rules[next].action
    BY <1>1, <1>3 DEF RuleFires, Decide, Matches
  <2>2. \A j \in Matches : next <= j
    BY <1>1, <1>2
  <2> QED
    BY <2>1, <2>2
<1>4. CASE NoRuleFires
  <2>1. next > Len(rules) /\ verdict' = "allow"
    BY <1>4 DEF NoRuleFires, Decide
  <2> QED
    BY <1>1, <1>2, <2>1
<1>5. RuleFires \/ NoRuleFires
  BY DEF Next, DispatchStep, LoadStep, GuardStep, Begin, ReadGlobal, ReadProject,
         ResolveInclude, IncludesResolved, Unmarshal, RuleSkipped, Flush, FlushFails,
         OtherFlush, WarningsExpire, ReadWarnings, Edit, vars
<1> QED
  BY <1>3, <1>4, <1>5

\* ARCH-5 for any list of rules and any tool call: the dispatch takes the
\* action of the first of all the rules that fire, and allows the call when
\* none does, however the files are edited meanwhile.
THEOREM FirstMatchDecides == Spec => FirstMatchWins
<1>1. TypeOK /\ NoneBefore /\ [Next]_vars
        => [pc = "guards" /\ pc' = "idle"
              => \/ Matches = {} /\ verdict' = "allow"
                 \/ \E i \in Matches : /\ \A j \in Matches : i <= j
                                        /\ verdict' = rules[i].action]_vars
  BY DecisionIsFirstMatch
<1> QED
  BY <1>1, TypeInitially, TypeInductive, NoneBeforeInitially, NoneBeforeInductive, PTL
     DEF Spec, FirstMatchWins

-----------------------------------------------------------------------------
(* What ValidateConfig reports.                                            *)

LEMMA ReportedRule ==
  ASSUME NEW r \in Rules
  PROVE  /\ r.match.tools \ {NoTool} # {}
              => ("match" \in Reported(r)
                    <=> \A t \in Tools \ {NoTool} : ~MatchToolName(t, r.match))
         /\ \A key \in {"when", "unless"} :
              r[key].kind \notin {"absent", "blank"} \cup VariableKinds /\ r[key].calls # {}
                => (key \in Reported(r)
                      <=> \A c \in Calls : EvaluateCondition(r[key], c) # "true")
         /\ "when" \in Reported(r) => \A c \in Calls : ~Fires(Interpolate(r), c)
<1> USE DEF Rules, Patterns, Conditions, MatchKinds, ConditionKinds, VariableKinds
<1>1. /\ "match" \in Reported(r) <=> r.match.kind \in {"missing", "badglob"}
      /\ \A key \in {"when", "unless"} :
           key \in Reported(r) <=> r[key].kind \in {"malformed", "emptysub", "badregex"}
  BY DEF Reported, ReportedMatch, ReportedCondition
<1>2. r.match.tools \ {NoTool} # {}
        => (r.match.kind \in {"missing", "badglob"}
              <=> \A t \in Tools \ {NoTool} : ~MatchToolName(t, r.match))
  BY DEF MatchToolName
<1>3. ASSUME NEW key \in {"when", "unless"}, r[key].calls # {},
             r[key].kind \notin {"absent", "blank"} \cup VariableKinds
      PROVE  r[key].kind \in {"malformed", "emptysub", "badregex"}
               <=> \A c \in Calls : EvaluateCondition(r[key], c) # "true"
  <2>1. r[key] \in Conditions
    OBVIOUS
  <2>2. PICK c \in Calls : c \in r[key].calls
    BY <1>3, <2>1
  <2>3. r[key].kind \in {"malformed", "emptysub", "badregex"}
          => \A d \in Calls : EvaluateCondition(r[key], d) # "true"
    BY DEF EvaluateCondition
  <2>4. r[key].kind = "test" => EvaluateCondition(r[key], c) = "true"
    BY <2>2 DEF EvaluateCondition
  <2> QED
    BY <1>3, <2>1, <2>2, <2>3, <2>4
<1>4. ASSUME r.when.kind \in {"malformed", "emptysub", "badregex"}, NEW c \in Calls
      PROVE  ~Fires(Interpolate(r), c)
  <2>1. Interpolate(r).when = r.when
    BY <1>4 DEF Interpolate, InterpolateCondition
  <2>2. EvaluateCondition(r.when, c) # "true" /\ r.when.kind # "absent"
    BY <1>4 DEF EvaluateCondition
  <2> QED
    BY <2>1, <2>2 DEF Fires
<1>5. r["when"] = r.when
  OBVIOUS
<1> QED
  BY <1>1, <1>2, <1>3, <1>4, <1>5

\* For any project file: what `hookwise doctor` says of a guard rule is true,
\* and it misses no pattern or condition that was meant to be met and never is.
THEOREM ReportsHold == Spec => []ReportsAreTrue
<1>1. TypeOK => ReportsAreTrue
  <2> SUFFICES ASSUME TypeOK, NEW i \in DOMAIN MapOf(project).guards.list
               PROVE  MapOf(project).guards.list[i] \in Rules
    BY ReportedRule DEF ReportsAreTrue
  <2>1. MapOf(project).guards.list \in Seq(Rules)
    BY MapTypes, ListTypes DEF TypeOK
  <2> QED
    BY <2>1
<1> QED
  BY <1>1, TypeCorrect, PTL

-----------------------------------------------------------------------------
(* The loaded configuration.                                               *)

N == Len(IncludesInForce.list)

\* g and t are the guards and the timeout of the last of the first k layers
\* that mention them.
LastGuards(k, g) ==
  \/ g = Absent /\ \A i \in 1..k : Layers[i].guards.is = "absent"
  \/ \E i \in 1..k : /\ Layers[i].guards.is # "absent" /\ g = Layers[i].guards
                     /\ \A j \in 1..k : j > i => Layers[j].guards.is = "absent"
LastTimeout(k, t) ==
  \/ t = "absent" /\ \A i \in 1..k : Layers[i].timeout = "absent"
  \/ \E i \in 1..k : /\ Layers[i].timeout # "absent" /\ t = Layers[i].timeout
                     /\ \A j \in 1..k : j > i => Layers[j].timeout = "absent"

\* What has been merged so far is what the layers read so far mean.
Merged ==
  /\ global.is # "broken" /\ project.is # "broken"
  /\ base = IF project.is = "missing" THEN "state" ELSE "project"
  /\ merged.includes = IncludesInForce
  /\ next \in 1..N + 1
  /\ LastGuards(next + 1, merged.guards) /\ LastTimeout(next + 1, merged.timeout)

Faithful ==
  /\ pc = "project" => global.is # "broken" /\ merged = MapOf(global)
  /\ pc = "includes" => Merged
  /\ pc = "unmarshal" => Merged /\ next = N + 1
  /\ pc = "guards" => ~Broken /\ rules = InterpolateAll(GuardsInForce.list)
  /\ pc = "flush" => Broken
LoadedFaithfully == ~edited => Faithful

LEMMA LayersAre ==
  ASSUME TypeOK
  PROVE  /\ N \in Nat /\ IncludesInForce \in Value(Names)
         /\ Layers \in Seq(Maps) /\ Len(Layers) = N + 2
         /\ Layers[1] = MapOf(global) /\ Layers[2] = MapOf(project)
         /\ \A i \in 1..N : Layers[i + 2] = MapOf(IncludedFrom[IncludesInForce.list[i]])
<1> DEFINE included == [i \in 1..N |-> MapOf(IncludedFrom[IncludesInForce.list[i]])]
<1>1. MapOf(global) \in Maps /\ MapOf(project) \in Maps
  BY MapTypes DEF TypeOK
<1>2. IncludesInForce \in Value(Names) /\ IncludesInForce.list \in Seq(Names)
  BY <1>1, ListTypes DEF IncludesInForce, Maps
<1>3. N \in Nat /\ DOMAIN IncludesInForce.list = 1..N
  BY <1>2 DEF N
<1>4. \A i \in 1..N : IncludesInForce.list[i] \in Names
  BY <1>2 DEF N
<1>5. IncludedFrom \in [Names -> Files]
  BY DEF IncludedFrom, TypeOK, Dirs
<1>6. \A i \in 1..N : included[i] \in Maps
  BY <1>4, <1>5, MapTypes
<1>7. included \in Seq(Maps) /\ Len(included) = N
  BY <1>3, <1>6
<1>8. <<MapOf(global), MapOf(project)>> \in Seq(Maps)
  BY <1>1
<1>9. Layers = <<MapOf(global), MapOf(project)>> \o included
  BY <1>3 DEF Layers
<1> HIDE DEF included
<1>10. Layers \in Seq(Maps) /\ Len(Layers) = N + 2
  BY <1>3, <1>7, <1>8, <1>9
<1>11. Layers[1] = MapOf(global) /\ Layers[2] = MapOf(project)
  BY <1>3, <1>7, <1>8, <1>9
<1>12. \A i \in 1..N : Layers[i + 2] = included[i]
  BY <1>3, <1>7, <1>8, <1>9
<1> QED
  BY <1>2, <1>3, <1>10, <1>11, <1>12 DEF included

\* A value that is absent is the absent value.
LEMMA AbsentValue == \A S : \A v \in Value(S) : v.is = "absent" => v = Absent
BY DEF Value, Absent

\* Merging one more layer keeps the last mention the last.
LEMMA MergeOneMore ==
  ASSUME TypeOK, NEW k \in Nat, k + 1 <= Len(Layers), NEW m \in Maps,
         NEW s \in Maps, s.guards = Layers[k + 1].guards, s.timeout = Layers[k + 1].timeout,
         LastGuards(k, m.guards), LastTimeout(k, m.timeout)
  PROVE  /\ LastGuards(k + 1, DeepMerge(m, s).guards)
         /\ LastTimeout(k + 1, DeepMerge(m, s).timeout)
<1>1. \A i \in 1..(k + 1) : i \in 1..k \/ i = k + 1
  OBVIOUS
<1>2. DeepMerge(m, s).guards = IF s.guards.is = "absent" THEN m.guards ELSE s.guards
  BY DEF DeepMerge, Override
<1>3. DeepMerge(m, s).timeout = IF s.timeout = "absent" THEN m.timeout ELSE s.timeout
  BY DEF DeepMerge
<1>4. LastGuards(k + 1, DeepMerge(m, s).guards)
  <2>1. CASE s.guards.is = "absent"
    BY <1>1, <1>2, <2>1 DEF LastGuards
  <2>2. CASE s.guards.is # "absent"
    <3>1. k + 1 \in 1..(k + 1) /\ \A j \in 1..(k + 1) : ~(j > k + 1)
      OBVIOUS
    <3> QED
      BY <1>2, <2>2, <3>1 DEF LastGuards
  <2> QED
    BY <2>1, <2>2
<1>5. LastTimeout(k + 1, DeepMerge(m, s).timeout)
  <2>1. CASE s.timeout = "absent"
    <3>1. LastTimeout(k, DeepMerge(m, s).timeout) /\ Layers[k + 1].timeout = "absent"
      BY <1>3, <2>1
    <3>2. CASE DeepMerge(m, s).timeout = "absent"
               /\ \A i \in 1..k : Layers[i].timeout = "absent"
      BY <1>1, <3>1, <3>2 DEF LastTimeout
    <3>3. ASSUME NEW i \in 1..k, Layers[i].timeout # "absent",
                 DeepMerge(m, s).timeout = Layers[i].timeout,
                 \A j \in 1..k : j > i => Layers[j].timeout = "absent"
          PROVE  LastTimeout(k + 1, DeepMerge(m, s).timeout)
      <4>1. i \in 1..(k + 1) /\ \A j \in 1..(k + 1) : j > i => Layers[j].timeout = "absent"
        BY <1>1, <3>1, <3>3
      <4> QED
        BY <3>3, <4>1 DEF LastTimeout
    <3> QED
      BY <3>1, <3>2, <3>3 DEF LastTimeout
  <2>2. CASE s.timeout # "absent"
    <3>1. k + 1 \in 1..(k + 1) /\ \A j \in 1..(k + 1) : ~(j > k + 1)
      OBVIOUS
    <3> QED
      BY <1>3, <2>2, <3>1 DEF LastTimeout
  <2> QED
    BY <2>1, <2>2
<1> QED
  BY <1>4, <1>5

\* With all layers merged, the last mention is the one in force.
LEMMA LastIsInForce ==
  ASSUME TypeOK, NEW g, NEW t, LastGuards(N + 2, g), LastTimeout(N + 2, t)
  PROVE  g = GuardsInForce /\ t = LastLayer(MentionsTimeout).timeout
<1>1. DOMAIN Layers = 1..(N + 2) /\ N \in Nat
  BY LayersAre
<1>2. g = GuardsInForce
  <2> DEFINE ls == {i \in DOMAIN Layers : Layers[i].guards.is # "absent"}
  <2>1. GuardsInForce = (IF ls = {} THEN EmptyMap
                         ELSE Layers[CHOOSE i \in ls : \A j \in ls : j <= i]).guards
    BY DEF GuardsInForce, LastLayer, MentionsGuards
  <2>2. CASE ls = {}
    BY <1>1, <2>1, <2>2 DEF LastGuards, EmptyMap
  <2>3. CASE ls # {}
    <3>1. PICK i \in ls : g = Layers[i].guards /\ \A j \in ls : j <= i
      BY <1>1, <2>3 DEF LastGuards
    <3>2. (CHOOSE x \in ls : \A j \in ls : j <= x) = i
      <4>1. \A x \in ls : (\A j \in ls : j <= x) => x = i
        BY <1>1, <3>1
      <4> QED
        BY <3>1, <4>1
    <3> QED
      BY <2>1, <2>3, <3>1, <3>2
  <2> QED
    BY <2>2, <2>3
<1>3. t = LastLayer(MentionsTimeout).timeout
  <2> DEFINE ls == {i \in DOMAIN Layers : Layers[i].timeout # "absent"}
  <2>1. LastLayer(MentionsTimeout)
          = IF ls = {} THEN EmptyMap
            ELSE Layers[CHOOSE i \in ls : \A j \in ls : j <= i]
    BY DEF LastLayer, MentionsTimeout
  <2>2. CASE ls = {}
    BY <1>1, <2>1, <2>2 DEF LastTimeout, EmptyMap
  <2>3. CASE ls # {}
    <3>1. PICK i \in ls : t = Layers[i].timeout /\ \A j \in ls : j <= i
      BY <1>1, <2>3 DEF LastTimeout
    <3>2. (CHOOSE x \in ls : \A j \in ls : j <= x) = i
      <4>1. \A x \in ls : (\A j \in ls : j <= x) => x = i
        BY <1>1, <3>1
      <4> QED
        BY <3>1, <4>1
    <3> QED
      BY <2>1, <2>3, <3>1, <3>2
  <2> QED
    BY <2>2, <2>3
<1> QED
  BY <1>2, <1>3

LEMMA FaithfulInitially == Init => LoadedFaithfully
BY DEF Init, LoadedFaithfully, Faithful

\* Nothing but the user changes what the files mean.
LEMMA DiskDecides ==
  ASSUME UNCHANGED disk
  PROVE  /\ N' = N /\ Broken' = Broken /\ GuardsInForce' = GuardsInForce
         /\ IncludesInForce' = IncludesInForce /\ IncludedFrom' = IncludedFrom
         /\ Layers' = Layers
         /\ \A k, g : LastGuards(k, g)' = LastGuards(k, g)
         /\ \A k, t : LastTimeout(k, t)' = LastTimeout(k, t)
<1>1. global' = global /\ project' = project /\ recipe' = recipe
  BY DEF disk
<1>2. IncludesInForce' = IncludesInForce /\ IncludedFrom' = IncludedFrom
  BY <1>1 DEF IncludesInForce, IncludedFrom, MapOf
<1>3. Layers' = Layers
  BY <1>1, <1>2 DEF Layers, MapOf
<1>4. N' = N
  BY <1>2 DEF N
<1>5. GuardsInForce' = GuardsInForce
  BY <1>3 DEF GuardsInForce, LastLayer, MentionsGuards
<1>6. Broken' = Broken
  BY <1>1, <1>2, <1>3, <1>5 DEF Broken, LastLayer, MentionsTimeout
<1> QED
  BY <1>2, <1>3, <1>4, <1>5, <1>6 DEF LastGuards, LastTimeout

LEMMA FaithfulInductive == TypeOK /\ LoadedFaithfully /\ [Next]_vars => LoadedFaithfully'
<1> SUFFICES ASSUME TypeOK, LoadedFaithfully, [Next]_vars, ~edited'
             PROVE  Faithful'
  BY DEF LoadedFaithfully
<1>a. UNCHANGED disk /\ (~edited \/ \E c \in Calls : Begin(c))
  BY DEF Next, DispatchStep, LoadStep, GuardStep, Begin, ReadGlobal, ReadProject,
         ResolveInclude, IncludesResolved, Unmarshal, RuleFires, RuleSkipped, NoRuleFires,
         Flush, FlushFails, OtherFlush, WarningsExpire, ReadWarnings, Edit, vars
<1>b. global' = global /\ project' = project /\ recipe' = recipe
  BY <1>a DEF disk
<1>1. ASSUME NEW c \in Calls, Begin(c) PROVE Faithful'
  BY <1>1 DEF Begin, Faithful
<1>c. ~(\E c \in Calls : Begin(c)) => Faithful
  BY <1>a DEF LoadedFaithfully
<1>d. pc # "idle" => Faithful
  BY <1>c DEF Begin
<1>2. CASE ReadGlobal
  <2>1. pc = "global"
    BY <1>2 DEF ReadGlobal
  <2>2. CASE global.is = "broken"
    <3>1. Broken' /\ pc' = "flush"
      BY <1>2, <1>a, <2>2, DiskDecides DEF ReadGlobal, FailOpen, Broken
    <3> QED
      BY <3>1 DEF Faithful
  <2>3. CASE global.is # "broken"
    BY <1>2, <1>b, <2>3 DEF ReadGlobal, Faithful, MapOf
  <2> QED
    BY <2>2, <2>3
<1>3. CASE ReadProject
  <2>1. pc = "project" /\ global.is # "broken" /\ merged = MapOf(global)
    BY <1>3, <1>d DEF ReadProject, Faithful
  <2>2. CASE project.is = "broken"
    <3>1. Broken' /\ pc' = "flush"
      BY <1>3, <1>a, <2>2, DiskDecides DEF ReadProject, FailOpen, Broken
    <3> QED
      BY <3>1 DEF Faithful
  <2>3. CASE project.is # "broken"
    <3>1. /\ pc' = "includes" /\ next' = 1
          /\ merged' = DeepMerge(MapOf(global), MapOf(project))
          /\ base' = IF project.is = "missing" THEN "state" ELSE "project"
      BY <1>3, <2>1, <2>3 DEF ReadProject
    <3>2. merged'.includes = IncludesInForce
      BY <3>1 DEF DeepMerge, Override, IncludesInForce
    <3>3. MapOf(global) \in Maps /\ MapOf(project) \in Maps
      BY MapTypes DEF TypeOK
    <3>4. LastGuards(1, MapOf(global).guards) /\ LastTimeout(1, MapOf(global).timeout)
      BY LayersAre, AbsentValue, <3>3 DEF LastGuards, LastTimeout, Maps
    <3>5. LastGuards(2, merged'.guards) /\ LastTimeout(2, merged'.timeout)
      <4>1. 1 + 1 <= Len(Layers) /\ Layers[1 + 1] = MapOf(project)
        BY LayersAre
      <4> QED
        BY <3>1, <3>3, <3>4, <4>1, MergeOneMore
    <3>6. Merged'
      BY <1>a, <1>b, <2>1, <2>3, <3>1, <3>2, <3>5, DiskDecides, LayersAre DEF Merged
    <3> QED
      BY <3>1, <3>6 DEF Faithful
  <2> QED
    BY <2>2, <2>3
<1>4. CASE ResolveInclude
  <2>1. pc = "includes" /\ Merged /\ pc' = "includes" /\ next' = next + 1 /\ base' = base
    BY <1>4, <1>d DEF ResolveInclude, Faithful
  <2>2. next \in 1..N /\ merged \in Maps /\ N \in Nat
    BY <1>4, <2>1, LayersAre DEF ResolveInclude, Merged, TypeOK, N
  <2> DEFINE f == IncludedFrom[IncludesInForce.list[next]]
  <2>3. merged' = IF f.is = "yaml"
                    THEN DeepMerge(merged, [f.map EXCEPT !.includes = Absent])
                    ELSE merged
    BY <1>4, <2>1 DEF ResolveInclude, Merged, IncludedFrom
  <2>4. f \in Files
    <3>1. IncludesInForce.list[next] \in Names
      BY <2>1, <2>2, ListTypes DEF Merged, N
    <3> QED
      BY <3>1 DEF TypeOK, IncludedFrom, Dirs
  <2>5. Layers[next + 2] = MapOf(f)
    BY <2>2, LayersAre
  <2> HIDE DEF f
  <2>6. MapOf(f) \in Maps
    BY <2>4, MapTypes
  <2>7. LET s == [MapOf(f) EXCEPT !.includes = Absent]
        IN  /\ merged'.guards = DeepMerge(merged, s).guards
            /\ merged'.timeout = DeepMerge(merged, s).timeout
            /\ merged'.includes = merged.includes
            /\ s \in Maps /\ s.guards = MapOf(f).guards /\ s.timeout = MapOf(f).timeout
    <3>1. CASE f.is = "yaml"
      BY <2>3, <2>6, <3>1, MapTypes DEF MapOf, DeepMerge, Override, Absent, Maps
    <3>2. CASE f.is # "yaml"
      BY <2>3, <2>6, <3>2, MapTypes DEF MapOf, DeepMerge, Override, EmptyMap, Absent, Maps
    <3> QED
      BY <3>1, <3>2
  <2>8. /\ LastGuards(next + 2, merged'.guards)
        /\ LastTimeout(next + 2, merged'.timeout)
    <3>1. next + 1 \in Nat /\ (next + 1) + 1 = next + 2 /\ next + 2 <= Len(Layers)
      BY <2>2, LayersAre
    <3>2. LastGuards(next + 1, merged.guards) /\ LastTimeout(next + 1, merged.timeout)
      BY <2>1 DEF Merged
    <3>3. LET s == [MapOf(f) EXCEPT !.includes = Absent]
          IN  /\ LastGuards((next + 1) + 1, DeepMerge(merged, s).guards)
              /\ LastTimeout((next + 1) + 1, DeepMerge(merged, s).timeout)
      BY <2>2, <2>5, <2>7, <3>1, <3>2, MergeOneMore
    <3> QED
      BY <2>7, <3>1, <3>3
  <2>9. Merged'
    <3>1. next' \in 1..N + 1 /\ next' + 1 = next + 2
      BY <2>1, <2>2
    <3> QED
      BY <1>a, <1>b, <2>1, <2>7, <2>8, <3>1, DiskDecides DEF Merged
  <2> QED
    BY <2>1, <2>9 DEF Faithful
<1>5. CASE IncludesResolved
  <2>1. Merged /\ pc' = "unmarshal" /\ UNCHANGED load
    BY <1>5, <1>d DEF IncludesResolved, Faithful
  <2>2. next = N + 1
    BY <1>5, <2>1, LayersAre DEF IncludesResolved, Merged, N
  <2>3. Merged'
    BY <1>a, <1>b, <2>1, DiskDecides DEF Merged, load
  <2> QED
    BY <1>a, <2>1, <2>2, <2>3, DiskDecides DEF Faithful, load
<1>6. CASE Unmarshal
  <2>1. Merged /\ next = N + 1
    BY <1>6, <1>d DEF Unmarshal, Faithful
  <2>2. LastGuards(N + 2, merged.guards) /\ LastTimeout(N + 2, merged.timeout)
    <3>1. next + 1 = N + 2
      BY <2>1, LayersAre
    <3> QED
      BY <2>1, <3>1 DEF Merged
  <2>3. /\ merged.guards = GuardsInForce
        /\ merged.timeout = LastLayer(MentionsTimeout).timeout
    BY <2>2, LastIsInForce
  <2>4. Unmarshals(merged) <=> ~Broken
    BY <2>1, <2>3 DEF Unmarshals, Broken, Merged
  <2>5. CASE Unmarshals(merged)
    BY <1>6, <1>a, <2>3, <2>4, <2>5, DiskDecides DEF Unmarshal, Faithful, InterpolateAll
  <2>6. CASE ~Unmarshals(merged)
    BY <1>6, <1>a, <2>4, <2>6, DiskDecides DEF Unmarshal, FailOpen, Faithful
  <2> QED
    BY <2>5, <2>6
<1>7. CASE RuleFires \/ NoRuleFires
  BY <1>7 DEF RuleFires, NoRuleFires, Decide, Faithful
<1>8. CASE RuleSkipped
  BY <1>8, <1>a, <1>d, DiskDecides DEF RuleSkipped, Faithful, InterpolateAll
<1>9. CASE Flush \/ FlushFails
  BY <1>9 DEF Flush, FlushFails, Faithful
<1>10. CASE OtherFlush \/ WarningsExpire \/ ReadWarnings \/ UNCHANGED vars
  <2>1. UNCHANGED <<pc, merged, base, next, rules>>
    BY <1>10 DEF OtherFlush, WarningsExpire, ReadWarnings, load, vars
  <2>2. Merged' = Merged
    BY <1>a, <1>b, <2>1, DiskDecides DEF Merged
  <2>3. CASE pc = "idle"
    BY <2>1, <2>3 DEF Faithful
  <2>4. CASE pc # "idle"
    BY <1>a, <1>b, <1>d, <2>1, <2>2, <2>4, DiskDecides DEF Faithful, MapOf, InterpolateAll
  <2> QED
    BY <2>3, <2>4
<1>11. ~Edit
  BY DEF Edit
<1> QED
  BY <1>1, <1>2, <1>3, <1>4, <1>5, <1>6, <1>7, <1>8, <1>9, <1>10, <1>11
     DEF Next, DispatchStep, LoadStep, GuardStep

\* For any global, project and included files: a dispatch during which nobody
\* edits them loads exactly the guards that are in force on disk, and fails
\* open exactly when the files are broken.
THEOREM LoadsWhatIsInForce == Spec => []LoadedIsInForce
<1>1. LoadedFaithfully => LoadedIsInForce
  BY DEF LoadedFaithfully, Faithful, LoadedIsInForce
<1> QED
  BY <1>1, TypeInitially, TypeInductive, FaithfulInitially, FaithfulInductive, PTL DEF Spec
=============================================================================
