---------------------------- MODULE FeedPolling ----------------------------
(***************************************************************************)
(* The feed loops of the daemon (polling.go), what their producers return  *)
(* when the source fails (producer_*.go, custom.go), the calendar's        *)
(* credential, the merged cache every poll regenerates (bridge.go), and    *)
(* the clients that start a daemon when they find none (client.go).        *)
(*                                                                         *)
(* A daemon that was told to stop no longer answers its socket but still   *)
(* drains its loops, so the loops of two daemons can run at once. Time is  *)
(* the age of an envelope, which is fresh until its age reaches TTL; a     *)
(* loop polls any number of times between two ticks.                       *)
(***************************************************************************)
EXTENDS Naturals, FiniteSets

CONSTANTS
  Daemons,    \* daemon processes there may be at once
  Feeds,
  Instances,  \* what each feed may be, and the daemons that may run
  Contents,   \* what a source may say, from one read to the next
  TTL,        \* ticks until an envelope expires
  Tokens      \* credentials the user can obtain

\* "local" are the feeds without a remote source; "disabled" has no loop.
Kinds == {"calendar", "weather", "news", "custom", "local", "disabled"}

ASSUME FeedsAssumption ==
  /\ Instances \subseteq [Feeds -> Kinds] \X (SUBSET Daemons) /\ TTL \in Nat \ {0}
  /\ 0 \notin Tokens /\ Tokens \subseteq Nat
  /\ 0 \notin Contents /\ Contents \subseteq Nat

VARIABLES
  kind,       \* what each feed is
  absent,     \* daemons that never run in this instance
  down,       \* feeds whose source fails at the moment
  file,       \* the cache file of each feed: no envelope, or one
  merged,     \* status-line-cache.json: the same for each feed
  fetched,    \* history: the age of the last fetch that succeeded
  status,     \* of each daemon: off, starting, up, stopping
  pc,         \* of each loop: where it is
  held,       \* the envelope Produce returned
  view,       \* what CollectFeedCache read
  last,       \* the producer's lastResult
  tokenFile,  \* the credential on disk, or 0
  live,       \* credentials that have not been revoked
  svc,        \* the credential of each daemon's cached service, or 0
  authDead

env    == <<kind, absent, down>>
caches == <<file, merged, fetched>>
loops  == <<pc, held, view, last>>
auth   == <<tokenFile, live, svc, authDead>>
vars   == <<env, caches, status, loops, auth>>

\* An envelope holds what was fetched, or is one of the placeholders for nothing.
None == 0
Now(data) == {[data |-> data, age |-> 0]}
Older(envelopes) ==
  {[e EXCEPT !.age = IF @ < TTL THEN @ + 1 ELSE TTL] : e \in envelopes}

\* IsEnvelopeFresh.
Fresh(envelopes) == \E e \in envelopes : e.age < TTL

Up(d)     == status[d] = "up"
SomeoneUp == \E d \in Daemons : Up(d)
NoView    == [f \in Feeds |-> {}]

Init ==
  /\ \E i \in Instances : kind = i[1] /\ absent = Daemons \ i[2]
  /\ down = {}
  /\ file = NoView /\ merged = NoView
  /\ fetched = [f \in Feeds |-> TTL]
  /\ status = [d \in Daemons |-> "off"]
  /\ pc = [d \in Daemons |-> [f \in Feeds |-> "off"]]
  /\ held = [d \in Daemons |-> NoView]
  /\ view = [d \in Daemons |-> [f \in Feeds |-> NoView]]
  /\ last = [d \in Daemons |-> NoView]
  /\ live = IF \E f \in Feeds : kind[f] = "calendar" THEN {CHOOSE t \in Tokens : TRUE} ELSE {}
  /\ tokenFile \in live \cup {0}
  /\ svc = [d \in Daemons |-> 0]
  /\ authDead = [d \in Daemons |-> FALSE]

Goto(d, f, label) == pc' = [pc EXCEPT ![d][f] = label]
Return(d, f, envelopes) == held' = [held EXCEPT ![d][f] = envelopes] /\ Goto(d, f, "write")

-----------------------------------------------------------------------------
(* The world.                                                              *)

Tick ==
  /\ file' = [f \in Feeds |-> Older(file[f])]
  /\ merged' = [f \in Feeds |-> Older(merged[f])]
  /\ fetched' = [f \in Feeds |-> IF fetched[f] < TTL THEN fetched[f] + 1 ELSE TTL]
  /\ held' = [d \in Daemons |-> [f \in Feeds |-> Older(held[d][f])]]
  /\ last' = [d \in Daemons |-> [f \in Feeds |-> Older(last[d][f])]]
  /\ view' = [d \in Daemons |-> [f \in Feeds |-> [g \in Feeds |-> Older(view[d][f][g])]]]
  /\ UNCHANGED <<env, status, pc, auth>>

Outage(f) ==
  /\ kind[f] \notin {"local", "disabled"}
  /\ down' = IF f \in down THEN down \ {f} ELSE down \cup {f}
  /\ UNCHANGED <<kind, absent, caches, status, loops, auth>>

\* The credential is revoked or its refresh token expires.
Revoke ==
  /\ \E t \in live : live' = live \ {t}
  /\ UNCHANGED <<env, caches, status, loops, tokenFile, svc, authDead>>

\* The user authorises again; the script writes a new token file.
Reauth ==
  /\ \E f \in Feeds : kind[f] = "calendar"
  /\ \E t \in Tokens \ {svc[d] : d \in Daemons} :
       tokenFile' = t /\ live' = live \cup {t}
  /\ UNCHANGED <<env, caches, status, loops, svc, authDead>>

-----------------------------------------------------------------------------
(* client.go: a status line or `daemon start` dials, waits a moment, dials  *)
(* again and only then spawns a daemon, for whose socket it waits; its own *)
(* progress changes nothing else. (Nor does daemon-alive.marker: whether   *)
(* it is fresh or not, the socket is dialled.)                             *)

EnsureDaemon ==
  /\ ~SomeoneUp
  /\ \E d \in Daemons \ absent :
       status[d] = "off" /\ status' = [status EXCEPT ![d] = "starting"]
  /\ UNCHANGED <<env, caches, loops, auth>>

\* Daemon.Start: the socket decides who runs.
Bind(d) ==
  /\ status[d] = "starting"
  /\ status' = [status EXCEPT ![d] = IF SomeoneUp THEN "off" ELSE "up"]
  /\ UNCHANGED <<env, caches, loops, auth>>

\* POST /shutdown or a signal: triggerShutdown and SocketServer.Shutdown. From
\* here on clients see no daemon.
StopRequested(d) ==
  /\ Up(d)
  /\ status' = [status EXCEPT ![d] = "stopping"]
  /\ UNCHANGED <<env, caches, loops, auth>>

\* The loops, the producers' memory and the cached service are gone.
Gone(d) ==
  /\ status' = [status EXCEPT ![d] = "off"]
  /\ pc' = [pc EXCEPT ![d] = [f \in Feeds |-> "off"]]
  /\ held' = [held EXCEPT ![d] = NoView]
  /\ view' = [view EXCEPT ![d] = [f \in Feeds |-> NoView]]
  /\ last' = [last EXCEPT ![d] = NoView]
  /\ svc' = [svc EXCEPT ![d] = 0]
  /\ authDead' = [authDead EXCEPT ![d] = FALSE]
  /\ UNCHANGED <<env, caches, tokenFile, live>>

\* Stop waits for the loops, ten seconds at most; then the process exits.
Exit(d) == status[d] = "stopping" /\ Gone(d)

Crash(d) == Up(d) /\ Gone(d)

-----------------------------------------------------------------------------
(* polling.go: one loop per enabled feed.                                  *)

\* runAllFeeds starts the loops one after the other; pollFeed polls at once.
StartLoop(d, f) ==
  /\ Up(d) /\ kind[f] # "disabled" /\ pc[d][f] = "off"
  /\ Goto(d, f, "produce")
  /\ UNCHANGED <<env, caches, status, held, view, last, auth>>

\* The ticker fires.
Poll(d, f) ==
  /\ pc[d][f] = "wait" /\ Up(d)
  /\ Goto(d, f, "produce")
  /\ UNCHANGED <<env, caches, status, held, view, last, auth>>

\* stopCh is closed: the loop ends.
EndLoop(d, f) ==
  /\ pc[d][f] = "wait" /\ status[d] = "stopping"
  /\ Goto(d, f, "off")
  /\ UNCHANGED <<env, caches, status, held, view, last, auth>>

\* A fetch fails when the source does, and may fail when the context is
\* cancelled under it.
Fails(d, f)    == f \in down \/ status[d] = "stopping"
Succeeds(d, f) == f \notin down

Remember(d, f, envelopes) == last' = [last EXCEPT ![d][f] = envelopes]

\* Fault: the fallback is stamped with the time of the failed poll.
LastResultRestamped(d, f) ==
  IF last[d][f] = {} THEN Now(None) ELSE {[e EXCEPT !.age = 0] : e \in last[d][f]}

\* The last result as it was stamped, else an empty envelope stamped now.
LastResult(d, f) == IF last[d][f] # {} THEN last[d][f] ELSE Now(None)

\* Fault: the calendar's empty envelope is built anew every time.
CalendarFallbackUnfrozen(d, f) ==
  /\ Return(d, f, LastResult(d, f))
  /\ UNCHANGED <<caches, last>>

\* The calendar keeps its empty envelope, ...
CalendarFallback(d, f) ==
  /\ Return(d, f, LastResult(d, f))
  /\ Remember(d, f, LastResult(d, f))
  /\ UNCHANGED caches

\* ... the weather does not.
WeatherFallback(d, f) ==
  /\ Return(d, f, LastResult(d, f))
  /\ UNCHANGED <<caches, last>>

\* The news have no memory: one failure replaces the stories.
NewsFallback(d, f) ==
  /\ Return(d, f, Now(None))
  /\ UNCHANGED <<caches, last>>

\* A command that fails, times out or prints no JSON is an error, and runProducer
\* leaves the cache alone.
CommandFails(d, f) ==
  /\ Goto(d, f, "wait")
  /\ UNCHANGED <<caches, held, last>>

\* An envelope stamped now, from what was just read.
Fetched(d, f, content) ==
  /\ held' = [held EXCEPT ![d][f] = Now(content)]
  /\ fetched' = [fetched EXCEPT ![f] = 0]
  /\ UNCHANGED <<file, merged>>

Producing(d, f, what) == kind[f] = what /\ pc[d][f] = "produce"

ProduceWeather(d, f) ==
  /\ Producing(d, f, "weather")
  /\ \/ /\ Succeeds(d, f) /\ Goto(d, f, "write")
        /\ \E c \in Contents : Fetched(d, f, c) /\ Remember(d, f, Now(c))
     \/ Fails(d, f) /\ WeatherFallback(d, f)
  /\ UNCHANGED <<env, status, view, auth>>

ProduceNews(d, f) ==
  /\ Producing(d, f, "news")
  /\ \/ /\ Succeeds(d, f) /\ Goto(d, f, "write")
        /\ \E c \in Contents : Fetched(d, f, c)
        /\ UNCHANGED last
     \/ Fails(d, f) /\ NewsFallback(d, f)
  /\ UNCHANGED <<env, status, view, auth>>

ProduceCustom(d, f) ==
  /\ Producing(d, f, "custom")
  /\ \/ /\ Succeeds(d, f) /\ Goto(d, f, "write")
        /\ \E c \in Contents : Fetched(d, f, c)
        /\ UNCHANGED last
     \/ Fails(d, f) /\ CommandFails(d, f)
  /\ UNCHANGED <<env, status, view, auth>>

\* The project, the memories and the insights: a git that fails or is cancelled,
\* or files that are not there, make an envelope without content, stamped now
\* like the others.
ProduceLocal(d, f) ==
  /\ Producing(d, f, "local")
  /\ \/ (\E c \in Contents : Fetched(d, f, c)) /\ Goto(d, f, "write")
     \/ Return(d, f, Now(None)) /\ UNCHANGED caches
  /\ UNCHANGED <<env, status, view, last, auth>>

\* ensureClient: the token file is read unless there is a cached service.
EnsureClient(d, f) ==
  /\ Producing(d, f, "calendar")
  /\ IF svc[d] = 0 /\ tokenFile = 0
       THEN CalendarFallback(d, f) /\ UNCHANGED svc
       ELSE /\ svc' = [svc EXCEPT ![d] = IF @ = 0 THEN tokenFile ELSE @]
            /\ Goto(d, f, "fetch")
            /\ UNCHANGED <<caches, held, last>>
  /\ UNCHANGED <<env, status, view, tokenFile, live, authDead>>

\* Fault: the service built from the dead token stays cached.
RejectedKeepsService(d, f) ==
  /\ kind[f] = "calendar" /\ pc[d][f] = "fetch" /\ svc[d] \notin live /\ f \notin down
  /\ authDead' = [authDead EXCEPT ![d] = TRUE]
  /\ CalendarFallback(d, f)
  /\ UNCHANGED <<env, status, view, tokenFile, live, svc>>

\* A 401 or invalid_grant: markAuthDead drops the service, so that the next
\* poll reads the token file again.
Rejected(d, f) ==
  /\ kind[f] = "calendar" /\ pc[d][f] = "fetch" /\ svc[d] \notin live /\ f \notin down
  /\ authDead' = [authDead EXCEPT ![d] = TRUE]
  /\ svc' = [svc EXCEPT ![d] = 0]
  /\ CalendarFallback(d, f)
  /\ UNCHANGED <<env, status, view, tokenFile, live>>

\* Other failures are transient: the service is kept.
Unreachable(d, f) ==
  /\ kind[f] = "calendar" /\ pc[d][f] = "fetch" /\ Fails(d, f)
  /\ CalendarFallback(d, f)
  /\ UNCHANGED <<env, status, view, auth>>

\* The events arrive. If the access token was refreshed on the way, the token
\* file is written next.
Listed(d, f) ==
  /\ kind[f] = "calendar" /\ pc[d][f] = "fetch" /\ svc[d] \in live /\ Succeeds(d, f)
  /\ authDead' = [authDead EXCEPT ![d] = FALSE]
  /\ \E c \in Contents : Fetched(d, f, c) /\ Remember(d, f, Now(c))
  /\ Goto(d, f, "write") \/ Goto(d, f, "writeback")
  /\ UNCHANGED <<env, status, view, tokenFile, live, svc>>

\* writeBackToken replaces whatever token the file holds by now; errors are
\* only logged.
WriteBack(d, f) ==
  /\ kind[f] = "calendar" /\ pc[d][f] = "writeback"
  /\ tokenFile' \in {svc[d], tokenFile}
  /\ Goto(d, f, "write")
  /\ UNCHANGED <<env, caches, status, held, view, last, live, svc, authDead>>

\* AtomicWriteJSON of the feed's own file. An error is logged and the merged
\* cache regenerated all the same.
WriteFile(d, f) ==
  /\ pc[d][f] = "write"
  /\ file' = [file EXCEPT ![f] = held[d][f]]
  /\ held' = [held EXCEPT ![d][f] = {}]
  /\ Goto(d, f, "collect")
  /\ UNCHANGED <<env, merged, fetched, status, view, last, auth>>

WriteFileFails(d, f) ==
  /\ pc[d][f] = "write"
  /\ held' = [held EXCEPT ![d][f] = {}]
  /\ Goto(d, f, "collect")
  /\ UNCHANGED <<env, caches, status, view, last, auth>>

\* Fault: a loop only reads its own feed and keeps the rest of the merge.
CollectOwn(d, f) ==
  /\ pc[d][f] = "collect"
  /\ view' = [view EXCEPT ![d][f] = [merged EXCEPT ![f] = file[f]]]
  /\ Goto(d, f, "publish")
  /\ UNCHANGED <<env, caches, status, held, last, auth>>

\* CollectFeedCache reads the files of all feeds (in one step here) ...
Collect(d, f) ==
  /\ pc[d][f] = "collect"
  /\ view' = [view EXCEPT ![d][f] = file]
  /\ Goto(d, f, "publish")
  /\ UNCHANGED <<env, caches, status, held, last, auth>>

\* ... and WriteTUICacheTo renames the merge into place.
Publish(d, f) ==
  /\ pc[d][f] = "publish"
  /\ merged' = view[d][f]
  /\ view' = [view EXCEPT ![d][f] = NoView]
  /\ Goto(d, f, "wait")
  /\ UNCHANGED <<env, file, fetched, status, held, last, auth>>

PublishFails(d, f) ==
  /\ pc[d][f] = "publish"
  /\ view' = [view EXCEPT ![d][f] = NoView]
  /\ Goto(d, f, "wait")
  /\ UNCHANGED <<env, caches, status, held, last, auth>>

-----------------------------------------------------------------------------
CalendarStep(d, f) ==
  EnsureClient(d, f) \/ Rejected(d, f) \/ Unreachable(d, f) \/ Listed(d, f) \/ WriteBack(d, f)

LoopStep(d, f) ==
  \/ StartLoop(d, f) \/ Poll(d, f) \/ EndLoop(d, f)
  \/ ProduceWeather(d, f) \/ ProduceNews(d, f) \/ ProduceCustom(d, f)
  \/ ProduceLocal(d, f) \/ WriteFile(d, f) \/ WriteFileFails(d, f)
  \/ CalendarStep(d, f) \/ Collect(d, f) \/ Publish(d, f) \/ PublishFails(d, f)

Next ==
  \/ Tick \/ Revoke \/ Reauth \/ \E f \in Feeds : Outage(f)
  \/ EnsureDaemon
  \/ \E d \in Daemons :
       \/ Bind(d) \/ StopRequested(d) \/ Exit(d) \/ Crash(d)
       \/ \E f \in Feeds : LoopStep(d, f)

\* Time passes, the loops of a running daemon go on, and a write of the
\* merged cache that is tried again and again succeeds again and again.
Fairness ==
  /\ WF_vars(Tick)
  /\ \A d \in Daemons :
       \A f \in Feeds : WF_vars(LoopStep(d, f)) /\ SF_vars(Publish(d, f))

Spec == Init /\ [][Next]_vars /\ Fairness

-----------------------------------------------------------------------------
Envelopes == [data : Contents \cup {None}, age : 0..TTL]
Optional(envelopes) == envelopes \subseteq Envelopes /\ Cardinality(envelopes) <= 1

\* Every variable has its type. A poll that is under way holds exactly the
\* envelope it is about to write.
TypeOK ==
  /\ <<kind, Daemons \ absent>> \in Instances /\ down \subseteq Feeds
  /\ \A f \in Feeds : Optional(file[f]) /\ Optional(merged[f]) /\ fetched[f] \in 0..TTL
  /\ live \subseteq Tokens /\ tokenFile \in Tokens \cup {0}
  /\ \A d \in Daemons :
       /\ status[d] \in {"off", "starting", "up", "stopping"}
       /\ svc[d] \in Tokens \cup {0}
       /\ \A f \in Feeds :
            /\ Optional(held[d][f]) /\ Optional(last[d][f])
            /\ held[d][f] # {} <=> pc[d][f] \in {"write", "writeback"}

\* "The returned envelope's timestamp is NEVER re-stamped on failure": whatever
\* fails, restarts or overtakes, no cache shows data as younger than the last
\* time its source was really read.
FreshMeansFetched ==
  \A f \in Feeds : \A e \in file[f] \cup merged[f] : e.data # None => e.age >= fetched[f]

\* "Expiry eventually hides the segment instead of a broken producer looking
\* fresh forever": while a daemon keeps running and the calendar's source keeps
\* failing, or no credential is any good, its envelope expires. (A restart stamps
\* a new empty one.)
NoCredential(d) == svc[d] \notin live /\ tokenFile \notin live
BrokenFeedExpires ==
  \A d \in Daemons, f \in Feeds :
    <>[](Up(d) /\ kind[f] = "calendar" /\ (f \in down \/ NoCredential(d)))
      => <>[]~Fresh(file[f])

\* "This is what lets a re-auth take effect without a daemon restart": with a
\* good token in the file and the source up, the credential does not stay dead.
\* (Unless writeBackToken replaces the new token by a refresh of the old one.)
AuthRecovers ==
  \A d \in Daemons, t \in Tokens :
    <>[](Up(d) /\ tokenFile = t /\ t \in live /\ down = {}) => <>[]~authDead[d]

\* A loop that collected early can rename an older merge over a newer one, and
\* after a loop whose producer errs (runProducer returns before the hook) nobody
\* may merge again. But as long as loops keep publishing, of whatever feed, what
\* a feed's file says for good the merged cache says at last for good.
Says(envelopes) == {e.data : e \in envelopes}
MergedSettles ==
  \A f \in Feeds :
    /\ []<><<\E d \in Daemons, g \in Feeds : Publish(d, g)>>_vars
    /\ <>[][Says(file'[f]) = Says(file[f])]_vars
    => <>[](Says(merged[f]) = Says(file[f]))
=============================================================================
