---------------------------- MODULE HookSettings ----------------------------
(***************************************************************************)
(* What internal/hooks computes on the hooks of a Claude Code              *)
(* settings.json, without touching a file: the duplicate-removal plan and  *)
(* its byte-range splice (fix.go), the wiring and unwiring of hookwise's   *)
(* own entries (wire.go), and the audit's findings (scan.go, analyze.go).  *)
(*                                                                         *)
(* A document maps each event to its matcher groups, in document order. A  *)
(* hook is a command and the rest of its object (type, timeout, ...). A    *)
(* command is a program and its argument. An event without groups is an    *)
(* event that is not there. No key of the text occurs twice.               *)
(*                                                                         *)
(* Three readers take a text differently. walkSettings reads tokens as far *)
(* as there are more, never the last brace or what follows it, and skips   *)
(* what has another shape; readSettingsMap wants JSON; Scan wants JSON of  *)
(* the shape of settingsFile. The form of a document is "sound" for all    *)
(* three, "mistyped" (a group that is no object, say, which a wire keeps)  *)
(* for the first two, "torn" (no last brace, or bytes behind it) for the   *)
(* first alone.                                                            *)
(***************************************************************************)
EXTENDS Naturals, FiniteSets, SequencesExt

CONSTANTS
  Events,       \* hook events of the model, "PreToolUse" among them
  Matchers,     \* matchers of the model, "" (unconditional) among them
  Hooks,        \* hook objects of the model, hookwise's own among them
  HotWarn, HotFail,    \* sprawlThreshold: always-on hooks beyond which a hot-path
  ColdWarn, ColdFail,  \* event (5, 10 in the code) or another (3, 8) is reported
  OffPath,      \* programs exec.LookPath does not find
  OnNetwork,    \* programs that match a networkPattern
  OtherGuards   \* the known guard systems besides hookwise's own

ASSUME HooksAssumption ==
  /\ IsFiniteSet(Events) /\ "PreToolUse" \in Events /\ "" \in Matchers
  /\ \A e \in Events :
       [command |-> <<"hookwise dispatch", e>>, fields |-> "plain"] \in Hooks
  /\ {HotWarn, HotFail, ColdWarn, ColdFail} \subseteq Nat

Groups == [matcher : Matchers, hooks : Seq(Hooks)]
Docs == [hooks : [Events -> Seq(Groups)], statusLine : {"none", "own", "other"}, rest : Nat,
         form : {"sound", "mistyped", "torn"}]

HotPath == {"PreToolUse", "PostToolUse"} \cap Events

Dispatch(e) == <<"hookwise dispatch", e>>
\* strings.HasPrefix(cmd, DispatchCommand).
IsOwn(hook) == hook.command[1] = "hookwise dispatch"

EmptyDoc ==
  [hooks |-> [e \in Events |-> <<>>], statusLine |-> "none", rest |-> 0,
   form |-> "sound"]

-----------------------------------------------------------------------------
(* fix.go: hook sites, the plan and the splice.                            *)

\* walkSettings: a site is an event, a group and a hook in it.
Sites(doc) ==
  UNION {UNION {{<<e, g, h>> : h \in DOMAIN doc.hooks[e][g].hooks} :
                  g \in DOMAIN doc.hooks[e]} : e \in Events}

HookAt(doc, s) == doc.hooks[s[1]][s[2]].hooks[s[3]]
MatcherAt(doc, s) == doc.hooks[s[1]][s[2]].matcher

Precedes(s, t) ==
  /\ s[1] = t[1]
  /\ s[2] < t[2] \/ (s[2] = t[2] /\ s[3] < t[3])

\* Fault: the matcher is not part of what makes a duplicate.
KeyAnyMatcher(doc, s) == <<s[1], "", HookAt(doc, s)>>

\* dupKey: event, matcher and the canonical JSON of the whole hook object.
Key(doc, s) == <<s[1], MatcherAt(doc, s), HookAt(doc, s)>>
Keys(doc) == {Key(doc, s) : s \in Sites(doc)}

\* Fault: the first occurrence is a candidate like the others.
RemovableAll(doc) ==
  {t \in Sites(doc) : \E s \in Sites(doc) : s # t /\ Key(doc, s) = Key(doc, t)}

\* planFile: every later occurrence may be removed, the first one is kept.
Removable(doc) ==
  {t \in Sites(doc) :
     \E s \in Sites(doc) : Precedes(s, t) /\ Key(doc, s) = Key(doc, t)}

\* An array of n elements in bytes: element i is token 2i - 1, the comma after
\* it token 2i. spliceRemovals cuts one range per maximal run a..b of removed
\* elements.
Runs(n, removed) ==
  {r \in (1..n) \X (1..n) :
     /\ r[1] <= r[2] /\ r[1]..r[2] \subseteq removed
     /\ r[1] - 1 \notin removed /\ r[2] + 1 \notin removed}

\* The cut extends to the next kept element, or swallows the comma before it
\* when the run reaches the tail.
Cut(n, a, b) ==
  CASE b < n           -> (2 * a - 1)..(2 * b)
    [] b = n /\ a > 1  -> (2 * a - 2)..(2 * b - 1)
    [] OTHER           -> (2 * a - 1)..(2 * b - 1)

Left(n, removed) ==
  (1..(2 * n - 1)) \ UNION {Cut(n, r[1], r[2]) : r \in Runs(n, removed)}

Rank(t, tokens) == Cardinality({u \in tokens : u <= t})

\* The bytes left parse: elements and commas alternate, an element at each end.
Balanced(tokens) ==
  /\ \A t \in tokens : t % 2 = Rank(t, tokens) % 2
  /\ tokens = {} \/ Cardinality(tokens) % 2 = 1

RemovedIn(remove, e, g) == {s[3] : s \in {x \in remove : x[1] = e /\ x[2] = g}}

SpliceParses(doc, remove) ==
  \A e \in Events : \A g \in DOMAIN doc.hooks[e] :
    Balanced(Left(Len(doc.hooks[e][g].hooks), RemovedIn(remove, e, g)))

\* The elements of a sequence at the indices kept, in their order.
Keep(seq, kept) ==
  [n \in 1..Cardinality(kept) |-> seq[CHOOSE i \in kept : Rank(i, kept) = n]]

\* The document the spliced bytes hold. A group may be left without hooks.
Splice(doc, remove) ==
  LET left(e, g) ==
        {i \in DOMAIN doc.hooks[e][g].hooks :
           2 * i - 1 \in Left(Len(doc.hooks[e][g].hooks), RemovedIn(remove, e, g))}
  IN  [doc EXCEPT !.hooks =
         [e \in Events |->
            [g \in DOMAIN doc.hooks[e] |->
               [doc.hooks[e][g] EXCEPT !.hooks = Keep(@, left(e, g))]]]]

\* entryCountAndEvents.
EntryCount(doc) == Cardinality(Sites(doc))
LiveEvents(doc) == {s[1] : s \in Sites(doc)}

-----------------------------------------------------------------------------
(* wire.go.                                                                *)

\* hasDispatchEntry: an unconditional group with exactly this command.
HasDispatch(doc, e) ==
  \E s \in Sites(doc) : /\ s[1] = e /\ MatcherAt(doc, s) = ""
                        /\ HookAt(doc, s).command = Dispatch(e)

DispatchGroup(e) ==
  [matcher |-> "", hooks |-> <<[command |-> Dispatch(e), fields |-> "plain"]>>]

\* Fault: entries that are there already are not looked for.
WireBlindly(doc, events, statusLine) ==
  [doc EXCEPT !.hooks = [e \in Events |->
     IF e \in events THEN Append(doc.hooks[e], DispatchGroup(e)) ELSE doc.hooks[e]]]

\* applyWire.
Wire(doc, events, statusLine) ==
  [doc EXCEPT
     !.hooks = [e \in Events |->
        IF e \in events /\ ~HasDispatch(doc, e)
          THEN Append(doc.hooks[e], DispatchGroup(e))
          ELSE doc.hooks[e]],
     !.statusLine = IF statusLine THEN "own" ELSE @]

HasOwn(group) == \E h \in Range(group.hooks) : IsOwn(h)

\* applyUnwire drops every group that holds one of hookwise's hooks.
Unwire(doc) ==
  LET foreign(e) == {g \in DOMAIN doc.hooks[e] : ~HasOwn(doc.hooks[e][g])}
  IN  [doc EXCEPT
         !.hooks = [e \in Events |-> Keep(doc.hooks[e], foreign(e))],
         !.statusLine = IF @ = "own" THEN "none" ELSE @]

-----------------------------------------------------------------------------
(* scan.go and analyze.go: Findings over the combined inventory.           *)

\* The entries Scan lists, with the file each came from.
Entries(docs) ==
  UNION {{[file |-> i, site |-> s, event |-> s[1],
           matcher |-> MatcherAt(docs[i], s),
           command |-> HookAt(docs[i], s).command] : s \in Sites(docs[i])} :
           i \in DOMAIN docs}

WarnOver(e) == IF e \in HotPath THEN HotWarn ELSE ColdWarn
FailOver(e) == IF e \in HotPath THEN HotFail ELSE ColdFail

\* alwaysFireByEvent: the hooks that run on every call of the event.
AlwaysOn(docs, e) ==
  Cardinality({x \in Entries(docs) : x.event = e /\ x.matcher \in {"", "*"}})

\* DuplicateFindings: the same matcher and command more than once on an event.
Duplicates(docs) ==
  {k \in {<<x.event, x.matcher, x.command>> : x \in Entries(docs)} :
     Cardinality({x \in Entries(docs) : <<x.event, x.matcher, x.command>> = k}) > 1}

Finding(level, code, on) == [level |-> level, code |-> code, on |-> on]

\* Events on which more than one known guard system runs.
Overlaps(docs) ==
  {e \in Events : Cardinality({x.command[1] : x \in {y \in Entries(docs) :
     y.event = e /\ y.command[1] \in OtherGuards \cup {"hookwise dispatch"}}}) > 1}

\* AllFindings, without the inventory line.
Findings(docs) ==
       {Finding(IF AlwaysOn(docs, e) > FailOver(e) THEN "FAIL" ELSE "WARN",
                "hook-sprawl", <<e>>) : e \in {x \in Events : AlwaysOn(docs, x) > WarnOver(x)}}
  \cup {Finding("FAIL", "hook-binary", <<x.command[1]>>) :
          x \in {y \in Entries(docs) : y.command[1] \in OffPath}}
  \cup {Finding("WARN", "hook-network", <<x.event, x.command>>) :
          x \in {y \in Entries(docs) :
                   y.event \in HotPath /\ y.command[1] \in OnNetwork}}
  \cup {Finding("WARN", "hook-duplicate", k) : k \in Duplicates(docs)}
  \cup {Finding("INFO", "hook-overlap", <<e>>) : e \in Overlaps(docs)}

\* preflight refuses on these two codes at the FAIL level.
Refused(docs) ==
  \E f \in Findings(docs) :
    f.level = "FAIL" /\ f.code \in {"hook-sprawl", "hook-duplicate"}
=============================================================================
