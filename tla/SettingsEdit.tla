---------------------------- MODULE SettingsEdit ----------------------------
(***************************************************************************)
(* settings.json and the processes that edit it: `hookwise audit --fix`    *)
(* (PlanDuplicateRemovals, ApplyRemovals), `hookwise init --wire` and      *)
(* `--unwire` (Wire), and a live Claude Code session. Nothing locks the    *)
(* file. A fix replaces it by a rename; a wire truncates it and writes it  *)
(* in place. Any hookwise process may be killed between two steps.         *)
(***************************************************************************)
EXTENDS HookSettings

CONSTANTS
  Procs,       \* hookwise processes
  Requests,    \* the flags a wire or unwire may be started with
  InitDocs,    \* what settings.json may hold at first
  AddedGroup,  \* a matcher group Claude Code may add to PreToolUse
  MaxEdits,    \* bound on Claude Code's edits
  MaxRuns,     \* bound on how often a process starts
  MaxClock     \* bound on the seconds that backup names tell apart

Nothing == 99  \* no process, no second, no settings

ASSUME ConstantsAssumption ==
  /\ Nothing \notin Procs
  /\ Requests \subseteq [unwire : BOOLEAN, events : SUBSET Events, statusLine : BOOLEAN]
  /\ InitDocs \subseteq Docs /\ AddedGroup \in Groups
  /\ MaxEdits \in Nat /\ MaxRuns \in Nat /\ MaxClock \in Nat

VARIABLES
  file,      \* settings.json: its document and how it reads, "good" (JSON), "torn"
             \* (walkSettings alone takes it), "broken" or "missing"
  good,      \* history: the last document the file held that was JSON
  edits,     \* Claude Code's edits so far; also kept in the document
  clock,     \* the second
  backups,   \* what the .bak files of fixes hold (names never collide)
  stamped,   \* the .bak file of wires per second, a set of at most one content
  pc, runs,  \* of each process, as are the following
  seen,      \* the document it planned from, or read first (oldBytes)
  work,      \* the document it is about to write
  chosen,    \* the removals accepted in a fix
  flags,     \* the flags of a wire or unwire
  stale,     \* what it knows of the file and is out of date: the "stat" of its
             \* fingerprint, the "contents" it read last, the "inode" it opened
  saved      \* the second of the backup it made, or Nothing

shared == <<file, good>>
stores == <<backups, stamped>>
locals == <<seen, work, chosen, flags, saved>>
vars   == <<shared, edits, clock, stores, pc, runs, locals, stale>>

\* A file that is not there reads as the empty map, without even the hooks key
\* that every wire and unwire sets.
NoDoc   == [EmptyDoc EXCEPT !.rest = Nothing]
Absent  == [state |-> "missing", doc |-> NoDoc]
Broken  == [state |-> "broken", doc |-> EmptyDoc]
Good(doc) == [state |-> "good", doc |-> doc]
Text(doc) == [state |-> IF doc.form = "torn" THEN "torn" ELSE "good", doc |-> doc]
\* The text of a document that lost its end, or got a tail.
Torn(doc) == [state |-> "torn", doc |-> [doc EXCEPT !.form = "torn"]]

\* What json.Unmarshal refuses, and what Scan takes.
NoJSON(content) == content.state \in {"broken", "torn"}
Scans(content) == content.state = "good" /\ content.doc.form = "sound"

NoFlags == [unwire |-> FALSE, events |-> {}, statusLine |-> FALSE]

\* Ends whose outcome no property looks at again, and the ends it looks at.
Done == {"start", "stopped", "unchanged", "wired", "invalid"}
Idle == Done \cup {"applied", "restored", "unrestored", "failed", "killed"}
Goto(p, label) == pc' = [pc EXCEPT ![p] = label]

Init ==
  /\ file \in {Text(d) : d \in InitDocs} \cup {Absent}
  /\ good = IF file.state = "good" THEN file.doc ELSE EmptyDoc
  /\ edits = 0
  /\ clock = 0
  /\ backups = {}
  /\ stamped = [t \in 0..MaxClock |-> {}]
  /\ pc = [p \in Procs |-> "start"]
  /\ runs = [p \in Procs |-> 0]
  /\ seen = [p \in Procs |-> EmptyDoc]
  /\ work = [p \in Procs |-> EmptyDoc]
  /\ chosen = [p \in Procs |-> {}]
  /\ flags = [p \in Procs |-> NoFlags]
  /\ saved = [p \in Procs |-> Nothing]
  /\ stale = [p \in Procs |-> {}]

\* The file is written by one process (or Claude Code): the fingerprints and
\* contents the others hold are out of date. A rename gives the path another
\* inode, which a process that has the old one open does not notice.
Becomes(content, writer, byRename) ==
  /\ file' = content
  /\ good' = IF content.state = "good" THEN content.doc ELSE good
  /\ stale' = [p \in Procs |->
       IF p = writer THEN stale[p] \ {"inode"} ELSE IF pc[p] \in Done THEN stale[p]
       ELSE stale[p] \cup {"stat", "contents"} \cup (IF byRename THEN {"inode"} ELSE {})]

Untouched == UNCHANGED <<shared, stale>>
Refresh(p, what) == stale' = [stale EXCEPT ![p] = @ \ {what}]

-----------------------------------------------------------------------------
(* Claude Code and the clock.                                              *)

\* The session rewrites the settings it has read, with a change of its own.
Edit ==
  /\ edits < MaxEdits /\ file.state = "good"
  /\ edits' = edits + 1
  /\ \E add \in BOOLEAN :
       Becomes(Good([file.doc EXCEPT
                 !.rest = edits + 1,
                 !.hooks["PreToolUse"] = IF add THEN Append(@, AddedGroup) ELSE @]),
               Nothing, TRUE)
  /\ UNCHANGED <<clock, stores, pc, runs, locals>>

Tick ==
  /\ clock < MaxClock
  /\ clock' = clock + 1
  /\ Untouched /\ UNCHANGED <<edits, stores, pc, runs, locals>>

\* A process starts: a fix, or a wire or unwire with its flags.
Start(p) ==
  /\ pc[p] \in Idle \ {"killed"}
  /\ runs[p] < MaxRuns
  /\ runs' = [runs EXCEPT ![p] = @ + 1]
  /\ seen' = [seen EXCEPT ![p] = EmptyDoc]
  /\ work' = [work EXCEPT ![p] = EmptyDoc]
  /\ saved' = [saved EXCEPT ![p] = Nothing]
  /\ chosen' = [chosen EXCEPT ![p] = {}]
  /\ stale' = [stale EXCEPT ![p] = {}]
  /\ \/ /\ Goto(p, "plan")
        /\ flags' = [flags EXCEPT ![p] = NoFlags]
     \/ \E request \in Requests, force \in BOOLEAN :
          /\ Goto(p, IF force \/ request.unwire THEN "read" ELSE "preflight")
          /\ flags' = [flags EXCEPT ![p] = request]
  /\ UNCHANGED <<shared, edits, clock, stores>>

\* What the process held is gone; that it saved a backup remains known.
Forget(p) ==
  /\ seen' = [seen EXCEPT ![p] = EmptyDoc]
  /\ work' = [work EXCEPT ![p] = EmptyDoc]
  /\ chosen' = [chosen EXCEPT ![p] = {}]
  /\ flags' = [flags EXCEPT ![p] = NoFlags]
  /\ UNCHANGED saved

Kill(p) ==
  /\ pc[p] \notin Idle
  /\ Goto(p, "killed")
  /\ Forget(p)
  /\ Untouched /\ UNCHANGED <<edits, clock, stores, runs>>

\* An error return, a file nobody can read or there is nothing to do with.
Stop(p) == Goto(p, "stopped") /\ Forget(p)

-----------------------------------------------------------------------------
(* audit --fix: PlanDuplicateRemovals.                                     *)

\* The plan is made from walkSettings' tokens: a text that is torn at its end,
\* or mistyped, is planned like a sound one.
PlanRead(p) ==
  /\ pc[p] = "plan"
  /\ IF file.state \in {"broken", "missing"} \/ Removable(file.doc) = {}
       THEN Stop(p)
       ELSE /\ seen' = [seen EXCEPT ![p] = file.doc]
            /\ Goto(p, "fingerprint")
            /\ UNCHANGED <<work, chosen, flags, saved>>
  /\ Untouched /\ UNCHANGED <<edits, clock, stores, runs>>

\* captureGuard: the stat comes after the read.
Fingerprint(p) ==
  /\ pc[p] = "fingerprint"
  /\ Refresh(p, "stat")
  /\ Goto(p, "ask")
  /\ UNCHANGED <<shared, edits, clock, stores, runs, locals>>

\* runAuditFix: y/N for every candidate.
Confirm(p) ==
  /\ pc[p] = "ask"
  /\ \E accepted \in SUBSET Removable(seen[p]) :
       IF accepted = {}
         THEN Stop(p)
         ELSE /\ chosen' = [chosen EXCEPT ![p] = accepted]
              /\ Goto(p, "stat")
              /\ UNCHANGED <<seen, work, flags, saved>>
  /\ Untouched /\ UNCHANGED <<edits, clock, stores, runs>>

(* ApplyRemovals.                                                          *)

CheckStat(p) ==
  /\ pc[p] = "stat"
  /\ IF "stat" \in stale[p] THEN Stop(p) ELSE Goto(p, "verify") /\ UNCHANGED locals
  /\ Untouched /\ UNCHANGED <<edits, clock, stores, runs>>

\* Fault: the content is not compared with the plan's.
VerifyUnhashed(p) ==
  /\ pc[p] = "verify"
  /\ IF file = Text(file.doc) /\ chosen[p] \subseteq Removable(file.doc)
       THEN /\ work' = [work EXCEPT ![p] = file.doc]
            /\ Refresh(p, "contents")
            /\ Goto(p, "backup") /\ UNCHANGED <<seen, chosen, flags, saved>>
       ELSE Stop(p) /\ UNCHANGED stale
  /\ UNCHANGED <<shared, edits, clock, stores, runs>>

\* The SHA-256 of what is read now must be the plan's; the plan is derived
\* again from these bytes, and every accepted ID must be in it.
Verify(p) ==
  /\ pc[p] = "verify"
  /\ IF file = Text(seen[p]) /\ chosen[p] \subseteq Removable(file.doc)
       THEN /\ work' = [work EXCEPT ![p] = file.doc]
            /\ Refresh(p, "contents")
            /\ Goto(p, "backup") /\ UNCHANGED <<seen, chosen, flags, saved>>
       ELSE Stop(p) /\ UNCHANGED stale
  /\ UNCHANGED <<shared, edits, clock, stores, runs>>

\* writeBackup creates a file of its own (O_EXCL, suffixed on collision).
WriteBackup(p) ==
  /\ pc[p] = "backup"
  /\ \/ /\ backups' = backups \cup {work[p]}
        /\ Goto(p, "rename") /\ UNCHANGED locals
     \/ Stop(p) /\ UNCHANGED backups
  /\ Untouched /\ UNCHANGED <<edits, clock, stamped, runs>>

\* atomicWriteFile of the spliced bytes; on an error nothing is replaced.
Rename(p) ==
  /\ pc[p] = "rename"
  /\ \/ /\ Becomes(IF SpliceParses(work[p], chosen[p])
                     THEN Text(Splice(work[p], chosen[p])) ELSE Broken, p, TRUE)
        /\ Goto(p, "scan") /\ UNCHANGED locals
     \/ Stop(p) /\ Untouched
  /\ UNCHANGED <<edits, clock, stores, runs>>

\* validateAfterWrite scans the file, with json.Unmarshal into settingsFile: it
\* rejects what the planner took, a torn or a mistyped text ...
GateScan(p) ==
  /\ pc[p] = "scan"
  /\ Goto(p, IF Scans(file) THEN "count" ELSE "restore")
  /\ Untouched /\ UNCHANGED <<edits, clock, stores, runs, locals>>

\* ... and reads it again, and the old bytes, to count the entries and events.
GateCount(p) ==
  /\ pc[p] = "count"
  /\ Goto(p, IF /\ Scans(file) /\ Scans(Text(work[p]))
                /\ EntryCount(file.doc) + Cardinality(chosen[p]) = EntryCount(work[p])
                /\ LiveEvents(work[p]) \subseteq LiveEvents(file.doc)
               THEN "applied" ELSE "restore")
  /\ Untouched /\ UNCHANGED <<edits, clock, stores, runs, locals>>

\* The bytes read before the splice are put back, whatever is there now; the
\* restore may fail as well.
Restore(p) ==
  /\ pc[p] = "restore"
  /\ \/ Becomes(Text(work[p]), p, TRUE) /\ Goto(p, "restored")
     \/ Untouched /\ Goto(p, "unrestored")
  /\ UNCHANGED <<edits, clock, stores, runs, locals>>

-----------------------------------------------------------------------------
(* init --wire and --unwire: Wire.                                         *)

\* A file that Scan cannot take has no findings.
Preflight(p) ==
  /\ pc[p] = "preflight"
  /\ IF Scans(file) /\ Refused(<<file.doc>>)
       THEN Stop(p) ELSE Goto(p, "read") /\ UNCHANGED locals
  /\ Untouched /\ UNCHANGED <<edits, clock, stores, runs>>

\* The settings are read twice: for the old bytes ...
ReadOld(p) ==
  /\ pc[p] = "read"
  /\ IF NoJSON(file)
       THEN Stop(p)
       ELSE /\ seen' = [seen EXCEPT ![p] = file.doc]
            /\ Goto(p, "reread")
            /\ UNCHANGED <<work, chosen, flags, saved>>
  /\ Untouched /\ UNCHANGED <<edits, clock, stores, runs>>

Changed(p) ==
  LET doc == IF file = Absent THEN EmptyDoc ELSE file.doc
  IN  IF flags[p].unwire THEN Unwire(doc)
                         ELSE Wire(doc, flags[p].events, flags[p].statusLine)

\* ... and for the working copy. An unwire writes a file that was missing.
ReadNew(p) ==
  /\ pc[p] = "reread"
  /\ CASE NoJSON(file) -> Stop(p) /\ UNCHANGED stale
       [] ~NoJSON(file) /\ Changed(p) = seen[p] ->
            Goto(p, "unchanged") /\ Forget(p) /\ UNCHANGED stale
       [] OTHER ->
            /\ work' = [work EXCEPT ![p] = Changed(p)]
            /\ Refresh(p, "contents")
            /\ Goto(p, "save")
            /\ UNCHANGED <<seen, chosen, flags, saved>>
  /\ UNCHANGED <<shared, edits, clock, stores, runs>>

\* Fault: a backup of the same second is kept, and the error ignored.
SaveStampedOnce(p) ==
  /\ pc[p] = "save"
  /\ saved' = [saved EXCEPT ![p] = clock]
  /\ stamped' = IF stamped[clock] # {} THEN stamped
                ELSE [stamped EXCEPT ![clock] = {file}]
  /\ Goto(p, "truncate") /\ UNCHANGED <<seen, work, chosen, flags>>
  /\ Untouched /\ UNCHANGED <<edits, clock, backups, runs>>

\* backup: reads the file once more and writes over a .bak of the same second.
SaveStamped(p) ==
  /\ pc[p] = "save"
  /\ \/ /\ IF file = Absent
             THEN UNCHANGED <<saved, stamped>>
             ELSE /\ saved' = [saved EXCEPT ![p] = clock]
                  /\ stamped' = [stamped EXCEPT ![clock] = {file}]
        /\ Goto(p, "truncate") /\ UNCHANGED <<seen, work, chosen, flags>>
     \/ Stop(p) /\ UNCHANGED stamped
  /\ Untouched /\ UNCHANGED <<edits, clock, backups, runs>>

\* os.WriteFile: open with O_TRUNC ...
Truncate(p) ==
  /\ pc[p] = "truncate"
  /\ Becomes(Broken, p, FALSE)
  /\ Goto(p, "write")
  /\ UNCHANGED <<edits, clock, stores, runs, locals>>

\* ... and write. Over what another process wrote in place meanwhile, shorter
\* bytes leave a tail; an inode the path has lost takes the bytes with it. A
\* write that fails may have written some, in the worst case all but the last
\* brace; then nothing is validated and nothing put back.
Write(p) ==
  /\ pc[p] = "write"
  /\ \/ /\ IF "inode" \in stale[p]
             THEN Untouched
             ELSE \/ Becomes(Good(work[p]), p, FALSE)
                  \/ /\ file.state \in {"good", "torn"} /\ file.doc # work[p]
                     /\ Becomes(Torn(work[p]), p, FALSE)
        /\ Goto(p, "validate") /\ UNCHANGED locals
     \/ /\ Untouched \/ ("inode" \notin stale[p] /\ Becomes(Torn(work[p]), p, FALSE))
        /\ Goto(p, "failed") /\ Forget(p)
  /\ UNCHANGED <<edits, clock, stores, runs>>

\* validateWritten; the rollback note names the backup.
Validate(p) ==
  /\ pc[p] = "validate"
  /\ CASE ~NoJSON(file) -> Goto(p, "wired") /\ Forget(p)
       [] NoJSON(file) /\ saved[p] # Nothing ->
            Goto(p, "putback") /\ UNCHANGED locals
       [] OTHER -> Goto(p, "invalid") /\ Forget(p)
  /\ Untouched /\ UNCHANGED <<edits, clock, stores, runs>>

\* The backup is read now, and written in place; one step here.
PutBack(p) ==
  /\ pc[p] = "putback"
  /\ \E old \in stamped[saved[p]] : Becomes(old, p, FALSE)
  /\ Goto(p, "invalid") /\ Forget(p)
  /\ UNCHANGED <<edits, clock, stores, runs>>

-----------------------------------------------------------------------------
Fix(p) ==
  \/ PlanRead(p) \/ Fingerprint(p) \/ Confirm(p) \/ CheckStat(p) \/ Verify(p)
  \/ WriteBackup(p) \/ Rename(p) \/ GateScan(p) \/ GateCount(p) \/ Restore(p)

WireOrUnwire(p) ==
  \/ Preflight(p) \/ ReadOld(p) \/ ReadNew(p) \/ SaveStamped(p) \/ Truncate(p)
  \/ Write(p) \/ Validate(p) \/ PutBack(p)

Next ==
  \/ Edit \/ Tick
  \/ \E p \in Procs : Start(p) \/ Kill(p) \/ Fix(p) \/ WireOrUnwire(p)

Spec == Init /\ [][Next]_vars

-----------------------------------------------------------------------------
\* Every variable has its type. A file whose tokens make no sense is only ever
\* left by a wire that truncates it: the splice of a fix keeps them balanced.
TypeOK ==
  /\ file.state \in {"good", "torn", "broken", "missing"} /\ file.doc \in Docs /\ good \in Docs
  /\ file.state = "good" => file.doc = good
  /\ backups \subseteq Docs
  /\ \A t \in 0..MaxClock : Cardinality(stamped[t]) <= 1
  /\ \A p \in Procs :
       /\ seen[p] \in Docs /\ work[p] \in Docs
       /\ chosen[p] \subseteq Sites(seen[p])
       /\ saved[p] \in 0..MaxClock \cup {Nothing}
       /\ SpliceParses(seen[p], chosen[p])

\* "Skip any entry already present (no duplicates on re-run)": however often
\* and however many at once, wires leave an event with one unconditional
\* dispatch entry.
WireIdempotent ==
  \A e \in Events :
    Cardinality({s \in Sites(good) : /\ s[1] = e /\ MatcherAt(good, s) = ""
                                     /\ HookAt(good, s).command = Dispatch(e)}) <= 1

\* A hook as the user sees it: its event, its matcher and its whole object.
HookOf(doc, s) == <<s[1], MatcherAt(doc, s), HookAt(doc, s)>>
HooksOf(doc) == {HookOf(doc, s) : s \in Sites(doc)}

\* "Removes exactly the accepted duplicate candidates": an applied fix that
\* nobody raced leaves every hook that was there, offers exactly the declined
\* candidates next time, and makes no finding of the audit appear.
FixDoesWhatWasConfirmed ==
  \A p \in Procs :
    pc[p] = "applied" /\ "contents" \notin stale[p] =>
      /\ HooksOf(good) = HooksOf(seen[p]) /\ good.rest = seen[p].rest
      /\ Cardinality(Removable(good)) + Cardinality(chosen[p])
           = Cardinality(Removable(seen[p]))
      /\ \A f \in Findings(<<good>>) :
           \E old \in Findings(<<seen[p]>>) : f.code = old.code /\ f.on = old.on

\* The gate tells exactly: when nobody else wrote the file since it was read, a
\* fix of a text that Scan takes passes, and a fix of one that only the planner
\* takes (torn or mistyped) is rejected.
GateTellsSound ==
  \A p \in Procs :
    "contents" \notin stale[p] =>
      /\ pc[p] = "applied" => Scans(Text(seen[p]))
      /\ pc[p] \in {"restore", "restored", "unrestored"} => ~Scans(Text(seen[p]))

\* "Any post-write gate failure restores the backup": after a rejected fix that
\* nobody raced the file is, torn or mistyped, the one that was planned from.
RestoreUndoes ==
  \A p \in Procs :
    pc[p] = "restored" /\ "contents" \notin stale[p] => file = Text(seen[p])

\* A fix that nobody raced does what was confirmed to a sound file, and nothing
\* to one that its own planner reads and its own gate does not.
FixIsFaithful == FixDoesWhatWasConfirmed /\ GateTellsSound /\ RestoreUndoes

\* When a wire is killed, or its write fails, between the truncation and the
\* last byte, its backup still holds what was there, unless somebody else wrote
\* the file since it was read, or wired in the same second and so overwrote the
\* backup.
WreckRecoverable ==
  \A p \in Procs :
    /\ pc[p] \in {"killed", "failed"} /\ NoJSON(file)
    /\ "contents" \notin stale[p]
    /\ \A q \in Procs \ {p} : saved[q] = Nothing \/ saved[q] # saved[p]
    => saved[p] = Nothing \/ stamped[saved[p]] = {Good(good)}

\* No hook disappears and no edit of Claude Code is undone except by a process
\* whose contents somebody else has overtaken since it read them (nothing
\* closes the window from the check to the write), or by an unwire, with the
\* group it drops.
HooksSurvive ==
  [][\A p \in Procs :
       pc'[p] # pc[p] /\ "contents" \notin stale[p] =>
         /\ good'.rest = good.rest
         /\ \A s \in Sites(good) :
              \/ HookOf(good, s) \in HooksOf(good')
              \/ flags[p].unwire /\ HasOwn(good.hooks[s[1]][s[2]])]_vars
=============================================================================
