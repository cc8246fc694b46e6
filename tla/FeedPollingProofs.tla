------------------------- MODULE FeedPollingProofs -------------------------
(***************************************************************************)
(* Theorems about FeedPolling: what the envelopes in the caches, in the    *)
(* loops and in the producers' memories say of their own age.              *)
(***************************************************************************)
EXTENDS FeedPolling, TLAPS

-----------------------------------------------------------------------------
(* The inductive invariant.                                                *)

Slots == SUBSET Envelopes
Views == [Feeds -> Slots]

\* The envelopes in s that hold data are no younger than the last fetch.
Honest(s, age) == \A e \in s : e.data # None => e.age >= age
HonestView(v) == \A f \in Feeds : Honest(v[f], fetched[f])

Ages ==
  /\ file \in Views /\ merged \in Views /\ fetched \in [Feeds -> 0..TTL]
  /\ held \in [Daemons -> Views] /\ last \in [Daemons -> Views]
  /\ view \in [Daemons -> [Feeds -> Views]]

\* It is not enough that the caches are honest: what a loop is about to write,
\* what a producer falls back on and what a merge was collected from must be.
AllHonest ==
  /\ HonestView(file) /\ HonestView(merged)
  /\ \A d \in Daemons : HonestView(held[d]) /\ HonestView(last[d])
  /\ \A d \in Daemons : \A f \in Feeds : HonestView(view[d][f])

IInv == Ages /\ AllHonest

LEMMA Slot ==
  /\ {} \in Slots /\ \A data \in Contents \cup {None} : Now(data) \in Slots
  /\ \A s \in Slots : Older(s) \in Slots
BY FeedsAssumption DEF Now, Older, Slots, Envelopes

LEMMA NoViewType == NoView \in Views /\ HonestView(NoView)
BY Slot DEF NoView, Views, HonestView, Honest

LEMMA HonestSlots ==
  /\ \A age : Honest({}, age) /\ Honest(Now(None), age)
  /\ \A s \in Slots : Honest(s, 0)
  /\ \A s \in Slots : \A age \in 0..TTL :
       Honest(s, age) => Honest(Older(s), IF age < TTL THEN age + 1 ELSE TTL)
BY FeedsAssumption DEF Honest, Now, Older, Slots, Envelopes, None

\* One loop's slot is replaced.
LEMMA Put ==
  ASSUME NEW S, NEW h \in [Daemons -> [Feeds -> S]], NEW d \in Daemons, NEW f \in Feeds,
         NEW x \in S, NEW i, i = [h EXCEPT ![d][f] = x]
  PROVE  /\ i \in [Daemons -> [Feeds -> S]]
         /\ \A c \in Daemons : \A g \in Feeds :
              i[c][g] = IF c = d /\ g = f THEN x ELSE h[c][g]
<1>1. i = [h EXCEPT ![d] = [h[d] EXCEPT ![f] = x]]
  OBVIOUS
<1>2. [h[d] EXCEPT ![f] = x] \in [Feeds -> S]
  OBVIOUS
<1>3. i \in [Daemons -> [Feeds -> S]]
  BY <1>1, <1>2
<1>4. i[d] = [h[d] EXCEPT ![f] = x] /\ \A c \in Daemons \ {d} : i[c] = h[c]
  BY <1>1
<1>5. \A g \in Feeds : i[d][g] = IF g = f THEN x ELSE h[d][g]
  BY <1>4
<1> QED
  BY <1>3, <1>4, <1>5

LEMMA LastResultHonest ==
  ASSUME IInv, NEW d \in Daemons, NEW f \in Feeds
  PROVE  LastResult(d, f) \in Slots /\ Honest(LastResult(d, f), fetched[f])
BY Slot, HonestSlots DEF IInv, Ages, AllHonest, Views, HonestView, LastResult

-----------------------------------------------------------------------------
(* The ways a step changes the envelopes.                                  *)

LEMMA Initially == Init => IInv
<1> SUFFICES ASSUME Init PROVE IInv
  OBVIOUS
<1>1. \A d \in Daemons : held[d] = NoView /\ last[d] = NoView
  BY DEF Init
<1>2. \A d \in Daemons : \A f \in Feeds : view[d][f] = NoView
  BY DEF Init
<1>3. Ages
  BY NoViewType, FeedsAssumption DEF Init, Ages
<1>4. AllHonest
  BY <1>1, <1>2, NoViewType DEF Init, AllHonest
<1> QED
  BY <1>3, <1>4 DEF IInv

LEMMA Untouched ==
  ASSUME IInv, UNCHANGED <<caches, held, view, last>> PROVE IInv'
BY DEF IInv, Ages, AllHonest, HonestView, caches

LEMMA TickStep == ASSUME IInv, Tick PROVE IInv'
<1> USE DEF Tick, IInv, Ages, AllHonest, Views
<1>1. \A f \in Feeds : fetched'[f] = IF fetched[f] < TTL THEN fetched[f] + 1 ELSE TTL
  OBVIOUS
<1>2. fetched' \in [Feeds -> 0..TTL]
  BY FeedsAssumption
<1>3. ASSUME NEW v \in Views, HonestView(v), NEW w, w = [f \in Feeds |-> Older(v[f])]
      PROVE  w \in Views /\ \A f \in Feeds : Honest(w[f], fetched'[f])
  <2>1. \A f \in Feeds : v[f] \in Slots /\ w[f] = Older(v[f])
    BY <1>3
  <2>2. \A f \in Feeds : Honest(v[f], fetched[f]) /\ fetched[f] \in 0..TTL
    BY <1>3 DEF HonestView
  <2> QED
    BY <1>1, <1>3, <2>1, <2>2, Slot, HonestSlots
<1>4. /\ file' \in Views /\ HonestView(file)'
      /\ merged' \in Views /\ HonestView(merged)'
  BY <1>3 DEF HonestView
<1>5. \A d \in Daemons : /\ held'[d] \in Views /\ HonestView(held[d])'
                         /\ last'[d] \in Views /\ HonestView(last[d])'
  <2> SUFFICES ASSUME NEW d \in Daemons
               PROVE  /\ held'[d] \in Views /\ HonestView(held[d])'
                      /\ last'[d] \in Views /\ HonestView(last[d])'
    OBVIOUS
  <2>1. /\ held'[d] = [f \in Feeds |-> Older(held[d][f])]
        /\ last'[d] = [f \in Feeds |-> Older(last[d][f])]
    OBVIOUS
  <2>2. held[d] \in Views /\ HonestView(held[d]) /\ last[d] \in Views /\ HonestView(last[d])
    OBVIOUS
  <2> HIDE DEF Tick, IInv, Ages, AllHonest, Views
  <2> QED
    BY <1>3, <2>1, <2>2 DEF HonestView
<1>6. \A d \in Daemons : \A f \in Feeds :
        view'[d][f] \in Views /\ HonestView(view[d][f])'
  <2> SUFFICES ASSUME NEW d \in Daemons, NEW f \in Feeds
               PROVE  view'[d][f] \in Views /\ HonestView(view[d][f])'
    OBVIOUS
  <2>1. view'[d][f] = [g \in Feeds |-> Older(view[d][f][g])]
    OBVIOUS
  <2>2. view[d][f] \in Views /\ HonestView(view[d][f])
    OBVIOUS
  <2> HIDE DEF Tick, IInv, Ages, AllHonest, Views
  <2> QED
    BY <1>3, <2>1, <2>2 DEF HonestView
<1>7. Ages'
  <2>1. /\ held' = [d \in Daemons |-> [f \in Feeds |-> Older(held[d][f])]]
        /\ last' = [d \in Daemons |-> [f \in Feeds |-> Older(last[d][f])]]
        /\ view' = [d \in Daemons |->
                      [f \in Feeds |-> [g \in Feeds |-> Older(view[d][f][g])]]]
    OBVIOUS
  <2> HIDE DEF Tick, Views
  <2> QED
    BY <1>2, <1>4, <1>5, <1>6, <2>1
<1> QED
  BY <1>4, <1>5, <1>6, <1>7

\* The process is gone, and what it held with it.
LEMMA GoneStep == ASSUME IInv, NEW d \in Daemons, Gone(d) PROVE IInv'
<1>1. Ages'
  BY NoViewType DEF IInv, Ages, Gone, caches
<1>2. fetched' = fetched /\ file' = file /\ merged' = merged
  BY DEF Gone, caches
<1>3. \A c \in Daemons : /\ held'[c] \in {held[c], NoView} /\ last'[c] \in {last[c], NoView}
                         /\ \A f \in Feeds : view'[c][f] \in {view[c][f], NoView}
  BY DEF Gone, IInv, Ages
<1>4. HonestView(NoView)' /\ \A v : HonestView(v) => \A f \in Feeds : Honest(v[f], fetched'[f])
  BY <1>2, NoViewType DEF HonestView, NoView
<1>5. AllHonest'
  BY <1>2, <1>3, <1>4 DEF IInv, AllHonest, HonestView
<1> QED
  BY <1>1, <1>5 DEF IInv

\* A fetch succeeds: nothing is younger than that.
LEMMA FetchStep ==
  ASSUME IInv, NEW d \in Daemons, NEW f \in Feeds, NEW c \in Contents, Fetched(d, f, c),
         last' = last \/ Remember(d, f, Now(c)), view' = view
  PROVE  IInv'
<1>1. Now(c) \in Slots /\ Ages /\ AllHonest
  BY Slot DEF IInv
<1>2. /\ held' \in [Daemons -> Views]
      /\ \A b \in Daemons : \A g \in Feeds : g # f => held'[b][g] = held[b][g]
  <2>1. held' = [held EXCEPT ![d][f] = Now(c)]
    BY DEF Fetched
  <2> QED
    BY <1>1, <2>1, Put DEF Ages, Views
<1>3. /\ last' \in [Daemons -> Views]
      /\ \A b \in Daemons : \A g \in Feeds : g # f => last'[b][g] = last[b][g]
  <2>1. CASE last' = last
    BY <1>1, <2>1 DEF Ages
  <2>2. CASE last' = [last EXCEPT ![d][f] = Now(c)]
    BY <1>1, <2>2, Put DEF Ages, Views
  <2> QED
    BY <2>1, <2>2 DEF Remember
<1>4. /\ fetched' \in [Feeds -> 0..TTL] /\ file' = file /\ merged' = merged
      /\ \A g \in Feeds : fetched'[g] = IF g = f THEN 0 ELSE fetched[g]
  BY <1>1, FeedsAssumption DEF Fetched, Ages
<1>5. Ages'
  BY <1>1, <1>2, <1>3, <1>4 DEF Ages
<1>6. ASSUME NEW v \in Views, NEW w \in Views, HonestView(v),
             \A g \in Feeds : g # f => w[g] = v[g]
      PROVE  \A g \in Feeds : Honest(w[g], fetched'[g])
  BY <1>4, <1>6, HonestSlots DEF Views, HonestView
<1>7. HonestView(file)' /\ HonestView(merged)'
  BY <1>1, <1>4, <1>6 DEF Ages, AllHonest, HonestView
<1>8. \A b \in Daemons : HonestView(held[b])' /\ HonestView(last[b])'
  <2> SUFFICES ASSUME NEW b \in Daemons PROVE HonestView(held[b])' /\ HonestView(last[b])'
    OBVIOUS
  <2>1. /\ held[b] \in Views /\ held'[b] \in Views /\ HonestView(held[b])
        /\ last[b] \in Views /\ last'[b] \in Views /\ HonestView(last[b])
    BY <1>1, <1>2, <1>3 DEF Ages, AllHonest
  <2> QED
    BY <1>2, <1>3, <1>6, <2>1 DEF HonestView
<1>9. \A b \in Daemons : \A h \in Feeds : HonestView(view[b][h])'
  <2> SUFFICES ASSUME NEW b \in Daemons, NEW h \in Feeds PROVE HonestView(view[b][h])'
    OBVIOUS
  <2>1. view[b][h] \in Views /\ view'[b][h] = view[b][h] /\ HonestView(view[b][h])
    BY <1>1 DEF Ages, AllHonest
  <2> QED
    BY <1>6, <2>1 DEF HonestView
<1> QED
  BY <1>5, <1>7, <1>8, <1>9 DEF IInv, AllHonest

\* A producer falls back on something honest, and may remember it.
LEMMA FallbackStep ==
  ASSUME IInv, NEW d \in Daemons, NEW f \in Feeds, NEW s \in Slots,
         Honest(s, fetched[f]), Return(d, f, s),
         last' = last \/ Remember(d, f, s), UNCHANGED <<caches, view>>
  PROVE  IInv'
<1>1. Ages /\ AllHonest /\ fetched' = fetched /\ file' = file /\ merged' = merged
  BY DEF IInv, caches
<1>2. /\ held' \in [Daemons -> Views]
      /\ \A c \in Daemons : \A g \in Feeds :
           held'[c][g] = IF c = d /\ g = f THEN s ELSE held[c][g]
  <2>1. held' = [held EXCEPT ![d][f] = s]
    BY DEF Return
  <2> QED
    BY <1>1, <2>1, Put DEF Ages, Views
<1>3. /\ last' \in [Daemons -> Views]
      /\ \A c \in Daemons : \A g \in Feeds :
           last'[c][g] = last[c][g] \/ (g = f /\ last'[c][g] = s)
  <2>1. CASE last' = last
    BY <1>1, <2>1 DEF Ages
  <2>2. CASE last' = [last EXCEPT ![d][f] = s]
    <3>1. /\ last' \in [Daemons -> Views]
          /\ \A c \in Daemons : \A g \in Feeds :
               last'[c][g] = IF c = d /\ g = f THEN s ELSE last[c][g]
      BY <1>1, <2>2, Put DEF Ages, Views
    <3> QED
      BY <3>1
  <2> QED
    BY <2>1, <2>2 DEF Remember
<1>4. Ages'
  BY <1>1, <1>2, <1>3 DEF Ages
<1>5. \A c \in Daemons : HonestView(held[c])' /\ HonestView(last[c])'
  BY <1>1, <1>2, <1>3 DEF AllHonest, HonestView
<1>6. /\ HonestView(file)' /\ HonestView(merged)'
      /\ \A c \in Daemons : \A h \in Feeds : HonestView(view[c][h])'
  BY <1>1 DEF AllHonest, HonestView
<1> QED
  BY <1>4, <1>5, <1>6 DEF IInv, AllHonest

\* A feed's file is replaced by what the loop holds, or the write fails.
LEMMA WriteStep ==
  ASSUME IInv, NEW d \in Daemons, NEW f \in Feeds,
         WriteFile(d, f) \/ WriteFileFails(d, f)
  PROVE  IInv'
<1>1. /\ Ages /\ AllHonest /\ fetched' = fetched /\ merged' = merged
      /\ view' = view /\ last' = last
  BY DEF IInv, WriteFile, WriteFileFails, caches
<1>2. file' = file \/ file' = [file EXCEPT ![f] = held[d][f]]
  BY DEF WriteFile, WriteFileFails, caches
<1>3. held[d][f] \in Slots /\ Honest(held[d][f], fetched[f])
  BY <1>1 DEF Ages, AllHonest, Views, HonestView
<1>4. file' \in Views /\ HonestView(file)'
  BY <1>1, <1>2, <1>3 DEF Ages, AllHonest, Views, HonestView
<1>5. /\ held' \in [Daemons -> Views]
      /\ \A c \in Daemons : \A g \in Feeds :
           held'[c][g] = IF c = d /\ g = f THEN {} ELSE held[c][g]
  <2>1. held' = [held EXCEPT ![d][f] = {}]
    BY DEF WriteFile, WriteFileFails
  <2> QED
    BY <1>1, <2>1, Put, Slot DEF Ages, Views
<1>6. Ages'
  BY <1>1, <1>4, <1>5 DEF Ages
<1>7. \A c \in Daemons : HonestView(held[c])' /\ HonestView(last[c])'
  BY <1>1, <1>5, HonestSlots DEF AllHonest, HonestView
<1>8. /\ HonestView(merged)'
      /\ \A c \in Daemons : \A h \in Feeds : HonestView(view[c][h])'
  BY <1>1 DEF AllHonest, HonestView
<1> QED
  BY <1>4, <1>6, <1>7, <1>8 DEF IInv, AllHonest

\* A merge is collected from the files, published or dropped.
LEMMA MergeStep ==
  ASSUME IInv, NEW d \in Daemons, NEW f \in Feeds,
         Collect(d, f) \/ Publish(d, f) \/ PublishFails(d, f)
  PROVE  IInv'
<1>1. /\ Ages /\ AllHonest /\ fetched' = fetched /\ file' = file
      /\ held' = held /\ last' = last
  BY DEF IInv, Collect, Publish, PublishFails, caches
<1>2. PICK v \in {file, NoView} : view' = [view EXCEPT ![d][f] = v]
  BY DEF Collect, Publish, PublishFails
<1>3. v \in Views /\ HonestView(v)
  BY <1>1, <1>2, NoViewType DEF Ages, AllHonest
<1>4. /\ view' \in [Daemons -> [Feeds -> Views]]
      /\ \A c \in Daemons : \A g \in Feeds :
           view'[c][g] = IF c = d /\ g = f THEN v ELSE view[c][g]
  BY <1>1, <1>2, <1>3, Put DEF Ages
<1>5. merged' = merged \/ merged' = view[d][f]
  BY DEF Collect, Publish, PublishFails, caches
<1>6. merged' \in Views /\ HonestView(merged)'
  BY <1>1, <1>5 DEF Ages, AllHonest, HonestView
<1>7. Ages'
  BY <1>1, <1>4, <1>6 DEF Ages
<1>8. \A c \in Daemons : \A h \in Feeds : HonestView(view[c][h])'
  BY <1>1, <1>3, <1>4 DEF AllHonest, HonestView
<1>9. /\ HonestView(file)'
      /\ \A c \in Daemons : HonestView(held[c])' /\ HonestView(last[c])'
  BY <1>1 DEF AllHonest, HonestView
<1> QED
  BY <1>6, <1>7, <1>8, <1>9 DEF IInv, AllHonest

-----------------------------------------------------------------------------
LEMMA LoopStepHonest ==
  ASSUME IInv, NEW d \in Daemons, NEW f \in Feeds, LoopStep(d, f)
  PROVE  IInv'
<1> DEFINE s == LastResult(d, f)
<1>1. s \in Slots /\ Honest(s, fetched[f])
  BY LastResultHonest
<1>2. Now(None) \in Slots /\ Honest(Now(None), fetched[f])
  BY Slot, HonestSlots
<1>3. CASE StartLoop(d, f) \/ Poll(d, f) \/ EndLoop(d, f) \/ WriteBack(d, f)
  BY <1>3, Untouched DEF StartLoop, Poll, EndLoop, WriteBack
<1>4. CASE ProduceWeather(d, f)
  BY <1>1, <1>4, FetchStep, FallbackStep DEF ProduceWeather, WeatherFallback
<1>5. CASE ProduceNews(d, f)
  BY <1>2, <1>5, FetchStep, FallbackStep DEF ProduceNews, NewsFallback
<1>6. CASE ProduceCustom(d, f)
  BY <1>6, FetchStep, Untouched DEF ProduceCustom, CommandFails
<1>7. CASE ProduceLocal(d, f)
  <2>1. ASSUME NEW c \in Contents, Fetched(d, f, c) PROVE IInv'
    BY <1>7, <2>1, FetchStep DEF ProduceLocal
  <2>2. CASE Return(d, f, Now(None)) /\ UNCHANGED caches
    BY <1>2, <1>7, <2>2, FallbackStep DEF ProduceLocal
  <2> QED
    BY <1>7, <2>1, <2>2 DEF ProduceLocal
<1>8. CASE EnsureClient(d, f)
  BY <1>1, <1>8, FallbackStep, Untouched DEF EnsureClient, CalendarFallback
<1>9. CASE Rejected(d, f) \/ Unreachable(d, f)
  BY <1>1, <1>9, FallbackStep DEF Rejected, Unreachable, CalendarFallback
<1>10. CASE Listed(d, f)
  BY <1>10, FetchStep DEF Listed
<1>11. CASE WriteFile(d, f) \/ WriteFileFails(d, f)
  BY <1>11, WriteStep
<1>12. CASE Collect(d, f) \/ Publish(d, f) \/ PublishFails(d, f)
  BY <1>12, MergeStep
<1> QED
  BY <1>3, <1>4, <1>5, <1>6, <1>7, <1>8, <1>9, <1>10, <1>11, <1>12
     DEF LoopStep, CalendarStep

LEMMA Inductive == IInv /\ [Next]_vars => IInv'
<1> SUFFICES ASSUME IInv, [Next]_vars PROVE IInv'
  OBVIOUS
<1>1. CASE Tick
  BY <1>1, TickStep
<1>2. CASE Revoke \/ Reauth \/ EnsureDaemon \/ UNCHANGED vars
  BY <1>2, Untouched DEF Revoke, Reauth, EnsureDaemon, vars, loops, caches
<1>3. ASSUME NEW f \in Feeds, Outage(f) PROVE IInv'
  BY <1>3, Untouched DEF Outage, loops, caches
<1>4. ASSUME NEW d \in Daemons, Bind(d) \/ StopRequested(d) PROVE IInv'
  BY <1>4, Untouched DEF Bind, StopRequested, loops, caches
<1>5. ASSUME NEW d \in Daemons, Exit(d) \/ Crash(d) PROVE IInv'
  BY <1>5, GoneStep DEF Exit, Crash
<1>6. ASSUME NEW d \in Daemons, NEW f \in Feeds, LoopStep(d, f) PROVE IInv'
  BY <1>6, LoopStepHonest
<1> QED
  BY <1>1, <1>2, <1>3, <1>4, <1>5, <1>6 DEF Next

\* For any feeds and any number of daemons that poll them at once: whatever
\* fails, restarts or overtakes, neither a feed's file nor the merged cache
\* shows data as younger than the last time its source was really read.
THEOREM NothingRestamped == Spec => []FreshMeansFetched
<1>1. IInv => FreshMeansFetched
  BY DEF IInv, AllHonest, HonestView, Honest, FreshMeansFetched
<1> QED
  BY <1>1, Initially, Inductive, PTL DEF Spec
=============================================================================
