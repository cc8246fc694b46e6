---------------------------- MODULE LedgerProofs ----------------------------
(***************************************************************************)
(* Proofs about the cost ledger (CostState) and the budget notification    *)
(* (BudgetNotifications), for any sessions, number of processes, costs and *)
(* days: of the ledger its types, its write lock, that updates survive,    *)
(* that the two views of the day's total agree and that every cost is      *)
(* charged once, with transcripts that grow, shrink or are priced anew; of *)
(* the notification how many a day can have, that an overrun has one, and  *)
(* that a surfaced one was shown.                                          *)
(***************************************************************************)
EXTENDS CostState, BudgetNotifications, FiniteSetTheorems, TLAPS

LEMMA FloorType == ASSUME NEW n \in Int PROVE AtLeastZero(n) \in Nat
BY DEF AtLeastZero

LEMMA MutateType ==
  ASSUME NEW r \in Rows, NEW s \in Sessions, NEW c \in Costs, NEW date \in Days
  PROVE  Mutate(r, s, c, date) \in Rows
<1>1. /\ r.daily \in [Days -> Nat] /\ r.session \in [Sessions -> Costs]
      /\ r.total \in Nat
  BY DEF Rows
<1>2. c - r.session[s] \in Int
  BY <1>1, ConstantsAssumption DEF Costs
<1> DEFINE delta == c - r.session[s]
<1>3. AtLeastZero(r.total + delta) \in Nat /\ AtLeastZero(r.daily[date] + delta) \in Nat
  BY <1>1, <1>2, FloorType
<1>4. [r.daily EXCEPT ![date] = AtLeastZero(@ + delta)] \in [Days -> Nat]
  BY <1>1, <1>3
<1>5. [r.session EXCEPT ![s] = c] \in [Sessions -> Costs]
  BY <1>1
<1>6. date \in 0..MaxDay
  BY ConstantsAssumption DEF Days
<1> QED BY <1>3, <1>4, <1>5, <1>6 DEF Mutate, Rows

LEMMA ScanType == ASSUME TypeOK PROVE Scan(row) \in Rows
<1>1. day \in 0..MaxDay /\ 0 \in Nat /\ row \in Rows
  BY ConstantsAssumption DEF TypeOK, Days
<1>2. [row EXCEPT !.today = day, !.total = 0] \in Rows
  BY <1>1 DEF Rows
<1> QED BY <1>1, <1>2 DEF Scan

LEMMA EmptyRowType == EmptyRow \in Rows
BY ConstantsAssumption DEF EmptyRow, Rows, Costs, Days

LEMMA LocalTypes == 1 \in Days /\ 0 \in Costs /\ Absent \in Costs \cup {Absent}
BY ConstantsAssumption DEF Days, Costs

\* The write lock is held by a process that is inside its transaction.
WriterInTransaction == \A p \in Procs : pc[p] = "commit" <=> writer = p

\* A dispatch under way knows its session.
SessionInv == \A p \in Procs : InFlight(p) => session[p] \in Sessions

\* Every variable keeps its type; in particular no total of the ledger ever
\* goes below zero, whatever the transcripts do.
THEOREM TypeCorrect == Spec => [](TypeOK /\ SessionInv)
<1> USE DEF TypeOK, SessionInv, InFlight, Goto
<1>1. Init => TypeOK /\ SessionInv
  BY LocalTypes, EmptyRowType DEF Init
<1>2. TypeOK /\ SessionInv /\ [Next]_vars => (TypeOK /\ SessionInv)'
  <2> SUFFICES ASSUME TypeOK, SessionInv, [Next]_vars
               PROVE  (TypeOK /\ SessionInv)'
    OBVIOUS
  <2>1. CASE Midnight
    BY <2>1, ConstantsAssumption DEF Midnight, Days
  <2>2. ASSUME NEW s \in Sessions, Work(s) \/ StartSession(s)
        PROVE  (TypeOK /\ SessionInv)'
    BY <2>2, LocalTypes DEF Work, StartSession
  <2>3. ASSUME NEW p \in Procs, NEW s \in Sessions, Stop(p, s)
        PROVE  (TypeOK /\ SessionInv)'
    BY <2>3, LocalTypes DEF Stop
  <2>4. ASSUME NEW p \in Procs, SumTranscript(p) \/ SkipCost(p) \/ TxRollback(p)
        PROVE  (TypeOK /\ SessionInv)'
    BY <2>4 DEF SumTranscript, SkipCost, TxRollback
  <2>5. ASSUME NEW p \in Procs, TxBegin(p) PROVE (TypeOK /\ SessionInv)'
    BY <2>5, ScanType DEF TxBegin
  <2>6. ASSUME NEW p \in Procs, TxCommit(p) PROVE (TypeOK /\ SessionInv)'
    <3>1. session[p] \in Sessions
      BY <2>6 DEF TxCommit
    <3>2. row' \in Rows
      BY <2>6, <3>1, MutateType DEF TxCommit
    <3> QED BY <2>6, <3>2 DEF TxCommit
  <2>7. ASSUME NEW p \in Procs, EndSession(p) \/ Exit(p)
        PROVE  (TypeOK /\ SessionInv)'
    BY <2>7, LocalTypes, EmptyRowType DEF EndSession, Exit, ProcessEnds
  <2>8. CASE UNCHANGED vars
    BY <2>8 DEF vars
  <2> QED BY <2>1, <2>2, <2>3, <2>4, <2>5, <2>6, <2>7, <2>8 DEF Next, Step
<1> QED BY <1>1, <1>2, PTL DEF Spec

\* The write lock of BEGIN IMMEDIATE: one transaction at a time, and a process
\* that ends in the middle of one leaves it free.
THEOREM WriterCorrect == Spec => []WriterInTransaction
<1> USE DEF WriterInTransaction, TypeOK, Goto
<1>1. Init => WriterInTransaction
  BY ConstantsAssumption DEF Init
<1>2. TypeOK /\ WriterInTransaction /\ [Next]_vars => WriterInTransaction'
  <2> SUFFICES ASSUME TypeOK, WriterInTransaction, [Next]_vars
               PROVE  WriterInTransaction'
    OBVIOUS
  <2> USE ConstantsAssumption
  <2>1. ASSUME NEW p \in Procs, NEW s \in Sessions, Stop(p, s)
        PROVE  WriterInTransaction'
    BY <2>1 DEF Stop
  <2>2. ASSUME NEW p \in Procs, Step(p) PROVE WriterInTransaction'
    BY <2>2 DEF Step, SumTranscript, SkipCost, TxBegin, TxCommit, TxRollback,
         EndSession, ProcessEnds
  <2>3. ASSUME NEW p \in Procs, Exit(p) PROVE WriterInTransaction'
    BY <2>3 DEF Exit, ProcessEnds, InFlight
  <2>4. ASSUME NEW s \in Sessions, Midnight \/ Work(s) \/ StartSession(s)
        PROVE  WriterInTransaction'
    BY <2>4 DEF Midnight, Work, StartSession
  <2>5. CASE Midnight \/ UNCHANGED vars
    BY <2>5 DEF vars, Midnight
  <2> QED BY <2>1, <2>2, <2>3, <2>4, <2>5 DEF Next
<1> QED BY <1>1, <1>2, TypeCorrect, PTL DEF Spec

-----------------------------------------------------------------------------
(* What a transaction read is still what the row holds when it writes.     *)

FreshScan ==
  \A p \in Procs : pc[p] = "commit" =>
    scanned[p].daily = row.daily /\ scanned[p].session = row.session

\* Holding the write lock from the read on is what keeps the copy fresh.
THEOREM ScansStayFresh == Spec => []FreshScan
<1> USE DEF FreshScan, TypeOK, Goto
<1>1. Init => FreshScan
  BY DEF Init
<1>2. TypeOK /\ WriterInTransaction /\ FreshScan /\ [Next]_vars => FreshScan'
  <2> SUFFICES ASSUME TypeOK, WriterInTransaction, FreshScan, [Next]_vars
               PROVE  FreshScan'
    OBVIOUS
  <2>1. ASSUME NEW p \in Procs, TxBegin(p) PROVE FreshScan'
    <3>1. Scan(row).daily = row.daily /\ Scan(row).session = row.session
      BY DEF Scan, Rows
    <3> QED BY <2>1, <3>1 DEF TxBegin
  <2>2. ASSUME NEW p \in Procs, TxCommit(p) PROVE FreshScan'
    <3>1. \A q \in Procs : pc'[q] # "commit"
      BY <2>2 DEF TxCommit, WriterInTransaction
    <3> QED BY <3>1
  <2>3. ASSUME NEW p \in Procs,
               \/ SumTranscript(p) \/ SkipCost(p) \/ TxRollback(p)
               \/ EndSession(p) \/ Exit(p) \/ \E s \in Sessions : Stop(p, s)
        PROVE  FreshScan'
    BY <2>3 DEF SumTranscript, SkipCost, TxRollback, EndSession, Exit,
         ProcessEnds, Stop
  <2>4. ASSUME NEW s \in Sessions, Midnight \/ Work(s) \/ StartSession(s)
        PROVE  FreshScan'
    BY <2>4 DEF Midnight, Work, StartSession
  <2>5. CASE Midnight \/ UNCHANGED vars
    BY <2>5 DEF Midnight, vars
  <2> QED BY <2>1, <2>2, <2>3, <2>4, <2>5 DEF Next, Step
<1> QED BY <1>1, <1>2, TypeCorrect, WriterCorrect, PTL DEF Spec

\* No dispatch undoes what another one recorded, however their transactions,
\* rollbacks and deaths are interleaved and whenever midnight falls.
THEOREM UpdatesSurvive == Spec => NoUpdateLost
<1> DEFINE Kept ==
      row' # row =>
        \E p \in Procs :
          /\ pc[p] = "commit"
          /\ \A s \in Sessions \ {session[p]} : row'.session[s] = row.session[s]
          /\ \A d \in Days \ {now[p]} : row'.daily[d] = row.daily[d]
<1>1. TypeOK /\ FreshScan /\ [Next]_vars => Kept
  <2> SUFFICES ASSUME TypeOK, FreshScan, [Next]_vars, row' # row
               PROVE  \E p \in Procs :
                        /\ pc[p] = "commit"
                        /\ \A s \in Sessions \ {session[p]} :
                             row'.session[s] = row.session[s]
                        /\ \A d \in Days \ {now[p]} : row'.daily[d] = row.daily[d]
    OBVIOUS
  <2>1. PICK p \in Procs : TxCommit(p)
    BY DEF Next, Step, Midnight, Work, StartSession, Stop, SumTranscript,
       SkipCost, TxBegin, TxRollback, EndSession, Exit, vars
  <2>2. pc[p] = "commit" /\ row' = Mutate(scanned[p], session[p], cost[p], now[p])
    BY <2>1 DEF TxCommit
  <2>3. /\ row.daily \in [Days -> Nat] /\ row.session \in [Sessions -> Costs]
        /\ scanned[p].daily = row.daily /\ scanned[p].session = row.session
    BY <2>2 DEF TypeOK, Rows, FreshScan
  <2>4. /\ \A s \in Sessions \ {session[p]} : row'.session[s] = row.session[s]
        /\ \A d \in Days \ {now[p]} : row'.daily[d] = row.daily[d]
    BY <2>2, <2>3 DEF Mutate
  <2> QED BY <2>2, <2>4
<1> QED BY <1>1, TypeCorrect, ScansStayFresh, PTL DEF Spec, NoUpdateLost

-----------------------------------------------------------------------------
(* The two views of the day's total. The row may be of an earlier day, and *)
(* a transaction works on its own copy of it: the invariant speaks of both *)
(* copies and of the days that have not come yet.                          *)

\* r is a row whose total is that of its date, with nothing charged later.
Consistent(r) ==
  /\ r.today <= day
  /\ r.today # 0 => r.total = r.daily[r.today]
  /\ \A d \in Days : d > r.today => r.daily[d] = 0

ViewsInv ==
  /\ Consistent(row)
  /\ \A p \in Procs : InFlight(p) => now[p] = day
  /\ \A p \in Procs : pc[p] = "commit" => scanned[p] = Scan(row)

LEMMA ScanConsistent ==
  ASSUME TypeOK, Consistent(row)
  PROVE  Consistent(Scan(row)) /\ Scan(row).today = day
BY ConstantsAssumption DEF TypeOK, Consistent, Scan, Rows, Days

LEMMA MutateConsistent ==
  ASSUME day \in Days, NEW r \in Rows, Consistent(r), r.today = day,
         NEW s \in Sessions, NEW c \in Costs
  PROVE  Consistent(Mutate(r, s, c, day))
BY ConstantsAssumption DEF Consistent, Mutate, Rows, Days, Costs

\* No transaction, whenever it read the row, spoils the views of the day, as long
\* as no dispatch is under way at midnight.
THEOREM ViewsCorrect == ASSUME ~CrossMidnight PROVE Spec => []ViewsInv
<1> USE DEF ViewsInv, InFlight, Goto
<1>1. Init => ViewsInv
  BY ConstantsAssumption DEF Init, EmptyRow, Consistent, Days
<1>2. TypeOK /\ SessionInv /\ WriterInTransaction /\ ViewsInv /\ [Next]_vars => ViewsInv'
  <2> SUFFICES ASSUME TypeOK, SessionInv, WriterInTransaction, ViewsInv, [Next]_vars
               PROVE  ViewsInv'
    OBVIOUS
  <2> USE DEF TypeOK
  <2>1. CASE Midnight
    BY <2>1, ConstantsAssumption DEF Midnight, Consistent, Rows, Days
  <2>2. ASSUME NEW s \in Sessions, Work(s) \/ StartSession(s) PROVE ViewsInv'
    BY <2>2 DEF Work, StartSession, Consistent, Scan
  <2>3. ASSUME NEW p \in Procs, NEW s \in Sessions, Stop(p, s) PROVE ViewsInv'
    BY <2>3 DEF Stop, Consistent, Scan
  <2>4. ASSUME NEW p \in Procs, SumTranscript(p) \/ SkipCost(p) \/ TxRollback(p)
        PROVE  ViewsInv'
    BY <2>4 DEF SumTranscript, SkipCost, TxRollback, Consistent, Scan
  <2>5. ASSUME NEW p \in Procs, TxBegin(p) PROVE ViewsInv'
    BY <2>5 DEF TxBegin, Consistent, Scan
  <2>6. ASSUME NEW p \in Procs, TxCommit(p) PROVE ViewsInv'
    <3>1. scanned[p] = Scan(row) /\ now[p] = day /\ session[p] \in Sessions
      BY <2>6 DEF TxCommit, SessionInv
    <3>2. Consistent(row')
      <4>1. row' = Mutate(Scan(row), session[p], cost[p], day)
        BY <2>6, <3>1 DEF TxCommit
      <4> QED BY <3>1, <4>1, ScanType, ScanConsistent, MutateConsistent
    <3>3. \A q \in Procs : pc'[q] # "commit"
      BY <2>6 DEF TxCommit, WriterInTransaction
    <3> QED BY <2>6, <3>2, <3>3 DEF TxCommit, Consistent
  <2>7. ASSUME NEW p \in Procs, EndSession(p) \/ Exit(p) PROVE ViewsInv'
    BY <2>7 DEF EndSession, Exit, ProcessEnds, Consistent, Scan
  <2>8. CASE UNCHANGED vars
    BY <2>8 DEF vars, Consistent, Scan
  <2> QED BY <2>1, <2>2, <2>3, <2>4, <2>5, <2>6, <2>7, <2>8 DEF Next, Step
<1> QED BY <1>1, <1>2, TypeCorrect, WriterCorrect, PTL DEF Spec

\* What budget enforcement reads as today's spend is what the ledger charged
\* to today, as long as no dispatch is under way at midnight.
THEOREM DailyViewsStayEqual ==
  ASSUME ~CrossMidnight PROVE Spec => []DailyViewsAgree
<1>1. TypeOK /\ ViewsInv => DailyViewsAgree
  BY ConstantsAssumption
     DEF TypeOK, ViewsInv, Consistent, DailyViewsAgree, Scan, Rows, Days
<1> QED BY <1>1, TypeCorrect, ViewsCorrect, PTL

-----------------------------------------------------------------------------
(* Sums of integer functions over a finite set. FoldFunction adds up by a  *)
(* recursive function on the subsets of the domain, which first has to be  *)
(* shown to exist; what it computes is then found by looking at a smallest *)
(* subset on which a claim fails.                                          *)

Pick(s) == CHOOSE x \in s : TRUE
Total(f) == FoldFunction(+, 0, f)

\* it adds up f over every set of A.
Adds(it, f, A) ==
  it = [s \in A |-> IF s = {} THEN 0 ELSE f[Pick(s)] + it[s \ {Pick(s)}]]

LEMMA TotalIs ==
  ASSUME NEW D, NEW f \in [D -> Int]
  PROVE  Total(f) = (CHOOSE it : Adds(it, f, SUBSET D))[D]
<1>1. DOMAIN f = D OBVIOUS
<1> QED BY <1>1 DEF Total, FoldFunction, FoldFunctionOnSet, MapThenFoldSet, Adds, Pick

UpTo(D, n) == {s \in SUBSET D : Cardinality(s) <= n}

LEMMA AdderUpTo ==
  ASSUME NEW D, IsFiniteSet(D), NEW f \in [D -> Int]
  PROVE  \A n \in Nat : \E it \in [UpTo(D, n) -> Int] : Adds(it, f, UpTo(D, n))
<1> DEFINE Bad == {n \in Nat : ~\E it \in [UpTo(D, n) -> Int] : Adds(it, f, UpTo(D, n))}
<1> SUFFICES ASSUME Bad # {} PROVE FALSE
  OBVIOUS
<1>1. PICK n \in Bad : \A m \in Bad : ~(m < n)
  <2>1. PICK n \in Bad : \A m \in Bad : <<m, n>> \notin OpToRel(<, Nat)
    BY NatLessThanWellFounded, WFMin
  <2> QED BY <2>1 DEF OpToRel
<1>2. n # 0
  <2> SUFFICES ASSUME n = 0 PROVE FALSE
    OBVIOUS
  <2>1. \A s \in UpTo(D, 0) : s = {}
    <3> SUFFICES ASSUME NEW s \in UpTo(D, 0) PROVE s = {}
      OBVIOUS
    <3>1. IsFiniteSet(s) /\ Cardinality(s) <= 0 /\ Cardinality(s) \in Nat
      BY FS_Subset, FS_CardinalityType DEF UpTo
    <3> QED BY <3>1, FS_EmptySet
  <2> DEFINE it == [s \in UpTo(D, 0) |-> 0]
  <2>2. Adds(it, f, UpTo(D, 0))
    BY <2>1 DEF Adds
  <2> QED BY <2>2
<1>3. PICK old \in [UpTo(D, n - 1) -> Int] : Adds(old, f, UpTo(D, n - 1))
  BY <1>1, <1>2
<1> DEFINE it == [s \in UpTo(D, n) |->
                    IF s = {} THEN 0 ELSE f[Pick(s)] + old[s \ {Pick(s)}]]
<1>4. \A s \in UpTo(D, n) : s # {} =>
        Pick(s) \in D /\ s \ {Pick(s)} \in UpTo(D, n - 1) /\ s \ {Pick(s)} \in UpTo(D, n)
  <2> SUFFICES ASSUME NEW s \in UpTo(D, n), s # {}
               PROVE  Pick(s) \in D /\ s \ {Pick(s)} \in UpTo(D, n - 1)
                      /\ s \ {Pick(s)} \in UpTo(D, n)
    OBVIOUS
  <2>1. Pick(s) \in s /\ s \in SUBSET D
    BY DEF Pick, UpTo
  <2>2. IsFiniteSet(s) /\ Cardinality(s) <= n /\ Cardinality(s) \in Nat
    BY FS_Subset, FS_CardinalityType DEF UpTo
  <2>3. Cardinality(s \ {Pick(s)}) = Cardinality(s) - 1
    BY <2>1, <2>2, FS_RemoveElement
  <2> QED BY <2>1, <2>2, <2>3 DEF UpTo
<1>5. it \in [UpTo(D, n) -> Int]
  BY <1>4
<1>6. \A s \in UpTo(D, n - 1) : it[s] = old[s]
  <2>1. UpTo(D, n - 1) \subseteq UpTo(D, n)
    BY FS_Subset, FS_CardinalityType DEF UpTo
  <2> QED BY <1>3, <2>1 DEF Adds
<1>7. Adds(it, f, UpTo(D, n))
  <2>1. \A s \in UpTo(D, n) : s # {} => it[s \ {Pick(s)}] = old[s \ {Pick(s)}]
    BY <1>4, <1>6
  <2>2. it = [s \in UpTo(D, n) |->
                IF s = {} THEN 0 ELSE f[Pick(s)] + it[s \ {Pick(s)}]]
    BY <2>1
  <2> HIDE DEF it
  <2> QED BY <2>2 DEF Adds
<1> QED BY <1>5, <1>7

\* it gives the sum of f over each subset of D.
Sums(it, f, D) ==
  /\ it \in [SUBSET D -> Int]
  /\ it[{}] = 0
  /\ \A s \in SUBSET D : s # {} =>
       Pick(s) \in s /\ it[s] = f[Pick(s)] + it[s \ {Pick(s)}]

\* The sum is well defined.
LEMMA TotalAdds ==
  ASSUME NEW D, IsFiniteSet(D), NEW f \in [D -> Int]
  PROVE  \E it : Sums(it, f, D) /\ Total(f) = it[D]
<1>1. UpTo(D, Cardinality(D)) = SUBSET D
  BY FS_Subset DEF UpTo
<1>2. PICK any \in [SUBSET D -> Int] : Adds(any, f, SUBSET D)
  <2>1. Cardinality(D) \in Nat
    BY FS_CardinalityType
  <2>2. \E it \in [UpTo(D, Cardinality(D)) -> Int] : Adds(it, f, UpTo(D, Cardinality(D)))
    BY <2>1, AdderUpTo
  <2> QED BY <1>1, <2>2
<1> DEFINE it == CHOOSE it : Adds(it, f, SUBSET D)
<1>3. Adds(it, f, SUBSET D)
  BY <1>2
<1>4. \A s \in SUBSET D : it[s] = any[s]
  <2> HIDE DEF it
  <2> DEFINE Bad == {s \in SUBSET D : it[s] # any[s]}
  <2> SUFFICES ASSUME Bad # {} PROVE FALSE
    OBVIOUS
  <2>1. PICK s \in Bad : \A t \in Bad : <<t, s>> \notin StrictSubsetOrdering(D)
    <3>1. IsWellFoundedOn(StrictSubsetOrdering(D), SUBSET D) /\ Bad \subseteq SUBSET D
      BY FS_StrictSubsetOrderingWellFounded, FS_FiniteSubsetsOfFinite
    <3> HIDE DEF Bad
    <3> QED BY <3>1, WFMin
  <2>2. s # {}
    BY <1>2, <1>3 DEF Adds
  <2>3. Pick(s) \in s
    BY <2>2 DEF Pick
  <2>4. it[s \ {Pick(s)}] = any[s \ {Pick(s)}]
    <3>1. <<s \ {Pick(s)}, s>> \in StrictSubsetOrdering(D)
      BY <2>3 DEF StrictSubsetOrdering
    <3>2. s \ {Pick(s)} \in SUBSET D
      OBVIOUS
    <3> QED BY <2>1, <3>1, <3>2
  <2> QED BY <1>2, <1>3, <2>2, <2>4 DEF Adds
<1>5. it = any
  BY <1>2, <1>3, <1>4 DEF Adds
<1>6. Total(f) = it[D]
  BY TotalIs
<1>7. \A s \in SUBSET D : s # {} => Pick(s) \in s
  BY DEF Pick
<1>8. /\ any[{}] = 0
      /\ \A s \in SUBSET D : s # {} => any[s] = f[Pick(s)] + any[s \ {Pick(s)}]
  BY <1>2 DEF Adds
<1> HIDE DEF it
<1>9. Sums(any, f, D)
  BY <1>2, <1>7, <1>8 DEF Sums
<1> QED BY <1>5, <1>6, <1>9

LEMMA TotalType ==
  ASSUME NEW D, IsFiniteSet(D), NEW f \in [D -> Int] PROVE Total(f) \in Int
<1>1. PICK it : Sums(it, f, D) /\ Total(f) = it[D]
  BY TotalAdds
<1> QED BY <1>1 DEF Sums

LEMMA TotalUpdate ==
  ASSUME NEW D, IsFiniteSet(D), NEW f \in [D -> Int], NEW d \in D, NEW c \in Int
  PROVE  Total([f EXCEPT ![d] = c]) = Total(f) + c - f[d]
<1> DEFINE g == [f EXCEPT ![d] = c]
<1>1. g \in [D -> Int] /\ g[d] = c /\ \A x \in D \ {d} : g[x] = f[x]
  OBVIOUS
<1> HIDE DEF g
<1>2. PICK F : Sums(F, f, D) /\ Total(f) = F[D]
  BY TotalAdds
<1>3. PICK G : Sums(G, g, D) /\ Total(g) = G[D]
  BY <1>1, TotalAdds
<1> DEFINE Claim(s) == G[s] = F[s] + IF d \in s THEN c - f[d] ELSE 0
           Bad == {s \in SUBSET D : ~Claim(s)}
<1>4. SUFFICES ASSUME Bad # {} PROVE FALSE
  <2>1. Claim(D)
    BY <1>4
  <2> QED BY <1>2, <1>3, <2>1 DEF g
<1>5. PICK s \in Bad : \A t \in Bad : <<t, s>> \notin StrictSubsetOrdering(D)
  <2>1. IsWellFoundedOn(StrictSubsetOrdering(D), SUBSET D)
    BY FS_StrictSubsetOrderingWellFounded, FS_FiniteSubsetsOfFinite
  <2>2. Bad \subseteq SUBSET D
    OBVIOUS
  <2> HIDE DEF Bad
  <2> QED BY <1>4, <2>1, <2>2, WFMin
<1>6. s # {} /\ Pick(s) \in s /\ s \in SUBSET D
  <2>1. s \in SUBSET D /\ ~Claim(s)
    BY <1>5
  <2>2. F[{}] = 0 /\ G[{}] = 0
    BY <1>2, <1>3 DEF Sums
  <2>3. s # {}
    BY <2>1, <2>2
  <2> QED BY <1>2, <2>1, <2>3 DEF Sums
<1>7. Claim(s \ {Pick(s)})
  <2>1. <<s \ {Pick(s)}, s>> \in StrictSubsetOrdering(D)
    BY <1>6 DEF StrictSubsetOrdering
  <2> QED BY <1>5, <1>6, <2>1
<1> DEFINE x == Pick(s)
           rest == s \ {x}
<1>8. /\ x \in D /\ rest \in SUBSET D /\ x \notin rest
      /\ d \in s <=> d \in rest \/ d = x
      /\ F[s] = f[x] + F[rest] /\ G[s] = g[x] + G[rest]
      /\ F[rest] \in Int /\ G[rest] \in Int /\ f[x] \in Int /\ g[x] \in Int
  <2>1. Pick(s) \in D /\ s \ {Pick(s)} \in SUBSET D
    BY <1>6
  <2>2. F[s] = f[Pick(s)] + F[s \ {Pick(s)}] /\ F[s \ {Pick(s)}] \in Int
    BY <1>2, <1>6, <2>1 DEF Sums
  <2>3. G[s] = g[Pick(s)] + G[s \ {Pick(s)}] /\ G[s \ {Pick(s)}] \in Int
    BY <1>3, <1>6, <2>1 DEF Sums
  <2> QED BY <1>1, <1>6, <2>1, <2>2, <2>3
<1> HIDE DEF x, rest
<1>9. Claim(s)
  BY <1>7, <1>8, <1>1 DEF x, rest
<1> QED BY <1>5, <1>9

LEMMA TotalGap ==
  ASSUME NEW D, IsFiniteSet(D), NEW f \in [D -> Int], NEW g \in [D -> Int],
         \A x \in D : f[x] <= g[x], NEW d \in D
  PROVE  Total(g) - Total(f) >= g[d] - f[d]
<1>2. PICK F : Sums(F, f, D) /\ Total(f) = F[D]
  BY TotalAdds
<1>3. PICK G : Sums(G, g, D) /\ Total(g) = G[D]
  BY TotalAdds
<1> DEFINE Claim(s) == G[s] - F[s] >= IF d \in s THEN g[d] - f[d] ELSE 0
           Bad == {s \in SUBSET D : ~Claim(s)}
<1>4. SUFFICES ASSUME Bad # {} PROVE FALSE
  <2>1. Claim(D)
    BY <1>4
  <2> QED BY <1>2, <1>3, <2>1
<1>5. PICK s \in Bad : \A t \in Bad : <<t, s>> \notin StrictSubsetOrdering(D)
  <2>1. IsWellFoundedOn(StrictSubsetOrdering(D), SUBSET D)
    BY FS_StrictSubsetOrderingWellFounded, FS_FiniteSubsetsOfFinite
  <2>2. Bad \subseteq SUBSET D
    OBVIOUS
  <2> HIDE DEF Bad
  <2> QED BY <1>4, <2>1, <2>2, WFMin
<1>6. s # {} /\ Pick(s) \in s /\ s \in SUBSET D
  <2>1. s \in SUBSET D /\ ~Claim(s)
    BY <1>5
  <2>2. F[{}] = 0 /\ G[{}] = 0
    BY <1>2, <1>3 DEF Sums
  <2>3. s # {}
    BY <2>1, <2>2
  <2> QED BY <1>2, <2>1, <2>3 DEF Sums
<1>7. Claim(s \ {Pick(s)})
  <2>1. <<s \ {Pick(s)}, s>> \in StrictSubsetOrdering(D)
    BY <1>6 DEF StrictSubsetOrdering
  <2> QED BY <1>5, <1>6, <2>1
<1> DEFINE x == Pick(s)
           rest == s \ {x}
<1>8. /\ x \in D /\ rest \in SUBSET D /\ x \notin rest
      /\ d \in s <=> d \in rest \/ d = x
      /\ F[s] = f[x] + F[rest] /\ G[s] = g[x] + G[rest]
      /\ F[rest] \in Int /\ G[rest] \in Int /\ f[x] \in Int /\ g[x] \in Int
  <2>1. Pick(s) \in D /\ s \ {Pick(s)} \in SUBSET D
    BY <1>6
  <2>2. F[s] = f[Pick(s)] + F[s \ {Pick(s)}] /\ F[s \ {Pick(s)}] \in Int
    BY <1>2, <1>6, <2>1 DEF Sums
  <2>3. G[s] = g[Pick(s)] + G[s \ {Pick(s)}] /\ G[s \ {Pick(s)}] \in Int
    BY <1>3, <1>6, <2>1 DEF Sums
  <2> QED BY <1>6, <2>1, <2>2, <2>3
<1> HIDE DEF x, rest
<1>9. Claim(s)
  BY <1>7, <1>8 DEF x, rest
<1> QED BY <1>5, <1>9

LEMMA TotalZero ==
  ASSUME NEW D, IsFiniteSet(D), NEW f \in [D -> Int], \A x \in D : f[x] = 0
  PROVE  Total(f) = 0
<1>1. PICK F : Sums(F, f, D) /\ Total(f) = F[D]
  BY TotalAdds
<1> DEFINE Bad == {s \in SUBSET D : F[s] # 0}
<1> SUFFICES ASSUME Bad # {} PROVE FALSE
  BY <1>1
<1>2. PICK s \in Bad : \A t \in Bad : <<t, s>> \notin StrictSubsetOrdering(D)
  <2>1. IsWellFoundedOn(StrictSubsetOrdering(D), SUBSET D)
    BY FS_StrictSubsetOrderingWellFounded, FS_FiniteSubsetsOfFinite
  <2>2. Bad \subseteq SUBSET D
    OBVIOUS
  <2> HIDE DEF Bad
  <2> QED BY <2>1, <2>2, WFMin
<1>3. s # {} /\ Pick(s) \in s /\ s \in SUBSET D
  BY <1>1, <1>2 DEF Sums
<1>4. F[s \ {Pick(s)}] = 0
  <2>1. <<s \ {Pick(s)}, s>> \in StrictSubsetOrdering(D)
    BY <1>3 DEF StrictSubsetOrdering
  <2> QED BY <1>2, <1>3, <2>1
<1> QED BY <1>1, <1>2, <1>3, <1>4 DEF Sums

-----------------------------------------------------------------------------
(* Every cost is charged once.                                             *)

LEMMA LedgerSums ==
  ASSUME NEW r \in Rows
  PROVE  /\ r.daily \in [Days -> Int] /\ r.session \in [Sessions -> Int]
         /\ IsFiniteSet(Days) /\ IsFiniteSet(Sessions)
         /\ Total(r.daily) \in Int /\ Total(r.session) \in Int
<1>1. r.daily \in [Days -> Int] /\ r.session \in [Sessions -> Int]
  BY ConstantsAssumption DEF Rows, Costs
<1>2. IsFiniteSet(Days) /\ IsFiniteSet(Sessions)
  BY ConstantsAssumption, FS_Interval DEF Days
<1> QED BY <1>1, <1>2, TotalType

\* What one Stop adds to the two sums.
LEMMA MutateSums ==
  ASSUME NEW r \in Rows, NEW s \in Sessions, NEW c \in Costs, NEW date \in Days
  PROVE  LET m == Mutate(r, s, c, date)
             delta == c - r.session[s]
         IN  /\ delta \in Int /\ r.daily[date] \in Nat
             /\ Total(m.session) = Total(r.session) + delta
             /\ r.daily[date] + delta >= 0 =>
                  /\ Total(m.daily) = Total(r.daily) + delta
                  /\ m.daily[date] = r.daily[date] + delta
             /\ r.daily[date] + delta < 0 =>
                  Total(m.daily) = Total(r.daily) - r.daily[date]
<1> DEFINE delta == c - r.session[s]
           charge == AtLeastZero(r.daily[date] + delta)
<1>1. /\ r.daily[date] \in Nat /\ r.session[s] \in Int /\ c \in Int /\ delta \in Int
      /\ charge \in Int
  BY ConstantsAssumption DEF Rows, Costs, AtLeastZero
<1>2. /\ Mutate(r, s, c, date).daily = [r.daily EXCEPT ![date] = charge]
      /\ Mutate(r, s, c, date).session = [r.session EXCEPT ![s] = c]
  BY DEF Mutate, Rows
<1>3. Total([r.session EXCEPT ![s] = c]) = Total(r.session) + c - r.session[s]
  BY <1>1, LedgerSums, TotalUpdate
<1>4. Total([r.daily EXCEPT ![date] = charge]) = Total(r.daily) + charge - r.daily[date]
  BY <1>1, LedgerSums, TotalUpdate
<1>5. [r.daily EXCEPT ![date] = charge][date] = charge
  BY DEF Rows
<1>6. charge = IF r.daily[date] + delta < 0 THEN 0 ELSE r.daily[date] + delta
  BY DEF AtLeastZero
<1> HIDE DEF charge
<1> QED BY <1>1, <1>2, <1>3, <1>4, <1>5, <1>6, LedgerSums

NeverTooLittle == Total(row.daily) >= Total(row.session)

\* base: what the sessions had cost at midnight. Today's charge is what they
\* have cost since, and nobody is about to commit less than that.
ChargedSince(base) ==
  /\ row.daily[day] = Total(row.session) - Total(base)
  /\ \A s \in Sessions : base[s] <= row.session[s] /\ row.session[s] <= transcript[s]
  /\ \A p \in Procs : pc[p] \in {"begin", "commit"} =>
       base[session[p]] <= cost[p] /\ cost[p] <= transcript[session[p]]

ChargedInv ==
  ~shrunk => /\ Total(row.daily) = Total(row.session)
             /\ \E base \in [Sessions -> Costs] : ChargedSince(base)

\* Whatever happens at midnight, and however the transcripts shrink, the days
\* together are never charged less than what the sessions cost.
THEOREM NothingIsFree == Spec => []NeverTooLittle
<1> USE DEF NeverTooLittle
<1>1. Init => NeverTooLittle
  <2> SUFFICES ASSUME Init PROVE NeverTooLittle
    OBVIOUS
  <2>1. /\ row.daily \in [Days -> Int] /\ row.session \in [Sessions -> Int]
        /\ IsFiniteSet(Days) /\ IsFiniteSet(Sessions)
    BY EmptyRowType, LedgerSums DEF Init
  <2>2. /\ \A d \in Days : row.daily[d] = 0
        /\ \A s \in Sessions : row.session[s] = 0
    BY DEF Init, EmptyRow
  <2> QED BY <2>1, <2>2, TotalZero
<1>2. TypeOK /\ SessionInv /\ FreshScan /\ NeverTooLittle /\ [Next]_vars => NeverTooLittle'
  <2> SUFFICES ASSUME TypeOK, SessionInv, FreshScan, NeverTooLittle, [Next]_vars,
                      row' # row
               PROVE  NeverTooLittle'
    OBVIOUS
  <2>1. PICK p \in Procs : TxCommit(p)
    BY DEF Next, Step, Midnight, Work, StartSession, Stop, SumTranscript,
       SkipCost, TxBegin, TxRollback, EndSession, Exit, vars
  <2>2. /\ row' = Mutate(scanned[p], session[p], cost[p], now[p])
        /\ session[p] \in Sessions /\ cost[p] \in Costs /\ now[p] \in Days
        /\ scanned[p] \in Rows /\ scanned[p].daily = row.daily
        /\ scanned[p].session = row.session
    BY <2>1 DEF TxCommit, TypeOK, SessionInv, InFlight, FreshScan
  <2>3. Total(row.daily) \in Int /\ Total(row.session) \in Int
    BY LedgerSums DEF TypeOK
  <2> QED BY <2>2, <2>3, MutateSums
<1> QED BY <1>1, <1>2, TypeCorrect, ScansStayFresh, PTL DEF Spec

\* As long as no transcript has shrunk, and no dispatch is under way at
\* midnight, the days are charged exactly what the sessions cost.
THEOREM ChargedCorrect == ASSUME ~CrossMidnight PROVE Spec => []ChargedInv
<1>1. Init => ChargedInv
  <2> SUFFICES ASSUME Init PROVE ChargedInv
    OBVIOUS
  <2>1. /\ row.daily \in [Days -> Int] /\ row.session \in [Sessions -> Int]
        /\ row.session \in [Sessions -> Costs]
        /\ IsFiniteSet(Days) /\ IsFiniteSet(Sessions) /\ day \in Days
    BY EmptyRowType, LedgerSums, LocalTypes DEF Init, Rows
  <2>2. /\ \A d \in Days : row.daily[d] = 0
        /\ \A s \in Sessions : row.session[s] = 0 /\ transcript[s] = 0
    BY DEF Init, EmptyRow
  <2>3. Total(row.daily) = 0 /\ Total(row.session) = 0
    BY <2>1, <2>2, TotalZero
  <2>4. ChargedSince(row.session)
    BY <2>1, <2>2, <2>3 DEF ChargedSince, Init
  <2> QED BY <2>1, <2>3, <2>4 DEF ChargedInv
<1>2. /\ TypeOK /\ SessionInv /\ WriterInTransaction /\ FreshScan /\ ViewsInv
      /\ ChargedInv /\ [Next]_vars
      => ChargedInv'
  <2> SUFFICES ASSUME TypeOK, SessionInv, WriterInTransaction, FreshScan, ViewsInv,
                      ChargedInv, [Next]_vars, ~shrunk'
               PROVE  ChargedInv'
    BY DEF ChargedInv
  <2>1. ~shrunk
    BY DEF Next, Step, Midnight, Work, StartSession, Stop, SumTranscript,
       SkipCost, TxBegin, TxCommit, TxRollback, EndSession, Exit, vars
  <2>2. PICK base \in [Sessions -> Costs] : ChargedSince(base)
    BY <2>1 DEF ChargedInv
  <2>3. /\ Total(row.daily) = Total(row.session) /\ row \in Rows /\ day \in Days
        /\ row.session \in [Sessions -> Costs] /\ row.daily \in [Days -> Nat]
        /\ transcript \in [Sessions -> Costs] /\ cost \in [Procs -> Costs]
        /\ Costs \subseteq Int
    BY <2>1, ConstantsAssumption DEF ChargedInv, TypeOK, Rows, Costs
  <2> SUFFICES /\ Total(row.daily)' = Total(row.session)'
               /\ \E since \in [Sessions -> Costs] : ChargedSince(since)'
    BY DEF ChargedInv
  <2>4. ASSUME UNCHANGED <<day, row, transcript>>,
               \A p \in Procs : pc'[p] \in {"begin", "commit"} =>
                 /\ session'[p] = session[p]
                 /\ \/ pc[p] \in {"begin", "commit"} /\ cost'[p] = cost[p]
                    \/ session[p] \in Sessions /\ cost'[p] = transcript[session[p]]
        PROVE  /\ Total(row.daily)' = Total(row.session)'
               /\ \E since \in [Sessions -> Costs] : ChargedSince(since)'
    <3>1. ChargedSince(base)'
      <4>1. ASSUME NEW p \in Procs, pc'[p] \in {"begin", "commit"}
            PROVE  base[session'[p]] <= cost'[p] /\ cost'[p] <= transcript'[session'[p]]
        <5>1. CASE pc[p] \in {"begin", "commit"} /\ cost'[p] = cost[p]
          BY <2>2, <2>4, <4>1, <5>1 DEF ChargedSince
        <5>2. CASE session[p] \in Sessions /\ cost'[p] = transcript[session[p]]
          <6>1. /\ base[session[p]] <= row.session[session[p]]
                /\ row.session[session[p]] <= transcript[session[p]]
            BY <2>2, <5>2 DEF ChargedSince
          <6>2. /\ base[session[p]] \in Int /\ row.session[session[p]] \in Int
                /\ transcript[session[p]] \in Int
            BY <2>3, <5>2
          <6> QED BY <2>4, <4>1, <5>2, <6>1, <6>2
        <5> QED BY <2>4, <4>1, <5>1, <5>2
      <4> QED BY <2>2, <2>4, <4>1 DEF ChargedSince
    <3> QED BY <2>3, <2>4, <3>1
  <2>5. CASE Midnight
    <3>1. day' = day + 1 /\ UNCHANGED <<row, transcript, pc>> /\ day' \in Days
          /\ \A p \in Procs : pc[p] = "idle"
      BY <2>5, ConstantsAssumption DEF Midnight, InFlight, Days, TypeOK
    <3>2. row.daily[day'] = 0
      BY <2>3, <3>1, ConstantsAssumption DEF ViewsInv, Consistent, Days, Rows
    <3>3. ChargedSince(row.session)'
      BY <2>2, <2>3, <3>1, <3>2, LedgerSums DEF ChargedSince
    <3> QED BY <2>3, <3>1, <3>3
  <2>6. ASSUME NEW s \in Sessions, Work(s)
        PROVE  /\ Total(row.daily)' = Total(row.session)'
               /\ \E since \in [Sessions -> Costs] : ChargedSince(since)'
    <3>1. /\ UNCHANGED <<day, row, pc, session, cost>> /\ transcript' \in [Sessions -> Costs]
          /\ \A t \in Sessions : transcript[t] <= transcript'[t]
      <4>1. PICK c \in Costs : /\ transcript' = [transcript EXCEPT ![s] = c]
                               /\ shrunk' = (shrunk \/ c < transcript[s])
        BY <2>6 DEF Work
      <4>2. ~(c < transcript[s]) /\ c \in Int /\ \A t \in Sessions : transcript[t] \in Int
        BY <2>3, <4>1
      <4> QED BY <2>3, <2>6, <4>1, <4>2 DEF Work
    <3>2. \A p \in Procs : pc[p] \in {"begin", "commit"} => session[p] \in Sessions
      BY DEF SessionInv, InFlight
    <3>3. ChargedSince(base)'
      <4>1. ASSUME NEW t \in Sessions
            PROVE  base[t] <= row.session[t] /\ row.session[t] <= transcript'[t]
        <5>1. /\ row.session[t] \in Int /\ transcript[t] \in Int /\ transcript'[t] \in Int
          BY <2>3, <3>1
        <5> QED BY <2>2, <3>1, <5>1 DEF ChargedSince
      <4>2. ASSUME NEW p \in Procs, pc[p] \in {"begin", "commit"}
            PROVE  base[session[p]] <= cost[p] /\ cost[p] <= transcript'[session[p]]
        <5>1. /\ cost[p] \in Int /\ transcript[session[p]] \in Int
              /\ transcript'[session[p]] \in Int
          BY <2>3, <3>1, <3>2, <4>2
        <5> QED BY <2>2, <3>1, <3>2, <4>2, <5>1 DEF ChargedSince
      <4> QED BY <2>2, <3>1, <4>1, <4>2 DEF ChargedSince
    <3> QED BY <2>3, <3>1, <3>3
  <2>7. ASSUME NEW p \in Procs,
               \/ SumTranscript(p) \/ SkipCost(p) \/ TxBegin(p) \/ TxRollback(p)
               \/ EndSession(p) \/ Exit(p) \/ \E s \in Sessions : Stop(p, s)
        PROVE  /\ Total(row.daily)' = Total(row.session)'
               /\ \E since \in [Sessions -> Costs] : ChargedSince(since)'
    <3>1. UNCHANGED <<day, row, transcript>>
      BY <2>7 DEF SumTranscript, SkipCost, TxBegin, TxRollback, EndSession, Exit, Stop
    <3>2. ASSUME NEW q \in Procs, pc'[q] \in {"begin", "commit"}
          PROVE  /\ session'[q] = session[q]
                 /\ \/ pc[q] \in {"begin", "commit"} /\ cost'[q] = cost[q]
                    \/ session[q] \in Sessions /\ cost'[q] = transcript[session[q]]
      BY <2>7, <3>2 DEF SumTranscript, SkipCost, TxBegin, TxRollback, EndSession, Exit, Stop,
         ProcessEnds, Goto, TypeOK, SessionInv, InFlight
    <3> QED BY <2>4, <3>1, <3>2
  <2>8. ASSUME NEW p \in Procs, TxCommit(p)
        PROVE  /\ Total(row.daily)' = Total(row.session)'
               /\ \E since \in [Sessions -> Costs] : ChargedSince(since)'
    <3> DEFINE s == session[p]
               c == cost[p]
               delta == c - row.session[s]
    <3>1. /\ row' = Mutate(scanned[p], s, c, day) /\ pc[p] = "commit"
          /\ UNCHANGED <<day, transcript, session, cost>>
          /\ s \in Sessions /\ c \in Costs /\ scanned[p] \in Rows
          /\ scanned[p].daily = row.daily /\ scanned[p].session = row.session
      BY <2>8 DEF TxCommit, TypeOK, SessionInv, InFlight, FreshScan, ViewsInv
    <3>2. /\ row.session[s] \in Int /\ c \in Int /\ base[s] \in Int /\ delta \in Int
          /\ base \in [Sessions -> Int] /\ row.session \in [Sessions -> Int]
          /\ Total(base) \in Int /\ Total(row.session) \in Int /\ row.daily[day] \in Int
      <4>1. base \in [Sessions -> Int] /\ row.session \in [Sessions -> Int]
        BY <2>3
      <4>2. Total(base) \in Int /\ Total(row.session) \in Int
        BY <4>1, ConstantsAssumption, TotalType
      <4>3. /\ row.session[s] \in Int /\ c \in Int /\ base[s] \in Int
        BY <2>3, <3>1, <4>1
      <4>4. row.daily[day] \in Int
        BY <2>3
      <4> QED BY <4>1, <4>2, <4>3, <4>4
    <3>3. base[s] <= c /\ c <= transcript[s]
      BY <2>2, <3>1 DEF ChargedSince
    <3>4. row.daily[day] + delta >= 0
      <4>1. Total(row.session) - Total(base) >= row.session[s] - base[s]
        BY <2>2, <3>1, <3>2, ConstantsAssumption, TotalGap DEF ChargedSince
      <4> QED BY <2>2, <3>2, <3>3, <4>1 DEF ChargedSince
    <3>5. /\ Total(row'.session) = Total(row.session) + delta
          /\ Total(row'.daily) = Total(row.daily) + delta
          /\ row'.daily[day] = row.daily[day] + delta
      <4> DEFINE r == scanned[p]
                 m == Mutate(r, s, c, day)
      <4>1. /\ Total(m.session) = Total(r.session) + (c - r.session[s])
            /\ r.daily[day] + (c - r.session[s]) >= 0 =>
                 /\ Total(m.daily) = Total(r.daily) + (c - r.session[s])
                 /\ m.daily[day] = r.daily[day] + (c - r.session[s])
        BY <2>3, <3>1, MutateSums
      <4>2. row' = m /\ r.session = row.session /\ r.daily = row.daily
        BY <3>1
      <4> HIDE DEF m, r
      <4> QED BY <3>4, <4>1, <4>2
    <3>6. row'.session = [row.session EXCEPT ![s] = c]
      BY <3>1 DEF Mutate
    <3>7. ChargedSince(base)'
      <4>1. row'.daily[day] = Total(row'.session) - Total(base)
        BY <2>2, <3>2, <3>5 DEF ChargedSince
      <4>2. \A t \in Sessions : base[t] <= row'.session[t] /\ row'.session[t] <= transcript[t]
        BY <2>2, <2>3, <3>1, <3>3, <3>6 DEF ChargedSince
      <4>3. \A q \in Procs : pc'[q] \in {"begin", "commit"} => pc[q] \in {"begin", "commit"}
        BY <2>8 DEF TxCommit, Goto, TypeOK
      <4> QED BY <2>2, <3>1, <4>1, <4>2, <4>3 DEF ChargedSince
    <3> QED BY <2>3, <3>2, <3>5, <3>7
  <2>9. ASSUME NEW s \in Sessions, StartSession(s)
        PROVE  /\ Total(row.daily)' = Total(row.session)'
               /\ \E since \in [Sessions -> Costs] : ChargedSince(since)'
    BY <2>4, <2>9 DEF StartSession
  <2>10. CASE UNCHANGED vars
    BY <2>4, <2>10 DEF vars
  <2> QED BY <2>5, <2>6, <2>7, <2>8, <2>9, <2>10 DEF Next, Step
<1> QED BY <1>1, <1>2, TypeCorrect, WriterCorrect, ScansStayFresh, ViewsCorrect, PTL DEF Spec

\* Stop after Stop, by however many dispatches at once, the days are charged
\* what the sessions cost, no more and no less.
THEOREM CostsAreChargedOnce ==
  ASSUME ~CrossMidnight PROVE Spec => []EveryCostChargedOnce
<1>1. NeverTooLittle /\ ChargedInv => EveryCostChargedOnce
  BY DEF NeverTooLittle, ChargedInv, EveryCostChargedOnce, Total
<1> QED BY <1>1, NothingIsFree, ChargedCorrect, PTL

-----------------------------------------------------------------------------
(* The notifications.                                                      *)

\* What a rendering holds it will print: nothing while there is none.
ShownInv == \A v \in Viewers : view[v] = "idle" => shown[v] = {}

\* today is today: time passes while nobody is in CheckBudget.
TodayInv ==
  /\ \A n \in IDs : created[n] <= clock
  /\ \A p \in Dispatches : check[p] # "idle" => today[p] = UTCDay(clock)

\* Every variable of the notifications keeps its type; what is marked or was
\* shown is a row of the table.
THEOREM NoticesTypeCorrect == NoticesSpec => [](NoticesTypeOK /\ ShownInv)
<1> USE NoticesAssumption DEF NoticesTypeOK, ShownInv, IDs
<1>1. NoticesInit => NoticesTypeOK /\ ShownInv
  <2>1. <<>> \in Seq(0..MaxHalfDay) /\ Len(<<>>) = 0 /\ 0 \in 0..MaxHalfDay
    OBVIOUS
  <2> SUFFICES ASSUME NoticesInit PROVE NoticesTypeOK /\ ShownInv
    OBVIOUS
  <2>2. created \in Seq(0..MaxHalfDay) /\ Len(created) <= MaxRows /\ clock \in 0..MaxHalfDay
    BY <2>1 DEF NoticesInit
  <2>3. surfaced \subseteq IDs /\ seen \subseteq IDs /\ overlooked \subseteq IDs
        /\ shown \in [Viewers -> SUBSET IDs]
    BY DEF NoticesInit
  <2> QED BY <2>2, <2>3 DEF NoticesInit
<1>2. NoticesTypeOK /\ ShownInv /\ [NoticesNext]_noticeVars
        => (NoticesTypeOK /\ ShownInv)'
  <2> SUFFICES ASSUME NoticesTypeOK, ShownInv, [NoticesNext]_noticeVars
               PROVE  (NoticesTypeOK /\ ShownInv)'
    OBVIOUS
  <2>1. CASE Tick
    <3>1. clock' \in 0..MaxHalfDay /\ handled' = FALSE
      BY <2>1 DEF Tick
    <3>2. over' \in BOOLEAN
      BY <2>1, Zenon DEF Tick
    <3>3. UNCHANGED <<created, surfaced, seen, check, today, view, shown, listing, overlooked>>
      BY <2>1 DEF Tick, viewers
    <3> QED BY <3>1, <3>2, <3>3
  <2>2. CASE Spend
    BY <2>2 DEF Spend, viewers, dispatches
  <2>3. ASSUME NEW p \in Dispatches,
               CheckBudget(p) \/ AlreadyNotified(p) \/ NotYetNotified(p) \/ GiveUp(p)
        PROVE  (NoticesTypeOK /\ ShownInv)'
    <3>1. UTCDay(clock) \in Nat
      BY DEF UTCDay
    <3>2. /\ UNCHANGED <<clock, over, created, surfaced, seen, viewers, listing, overlooked>>
          /\ handled' = handled \/ handled' = TRUE
      BY <2>3 DEF CheckBudget, AlreadyNotified, NotYetNotified, GiveUp, spending
    <3>3. /\ check' \in [Dispatches -> {"idle", "count", "insert"}]
          /\ today' \in [Dispatches -> Nat]
      BY <2>3, <3>1 DEF CheckBudget, AlreadyNotified, NotYetNotified, GiveUp, DispatchEnds
    <3> QED BY <3>2, <3>3 DEF viewers
  <2>4. ASSUME NEW p \in Dispatches, Create(p) PROVE (NoticesTypeOK /\ ShownInv)'
    <3>1. /\ created' = Append(created, clock) /\ clock \in 0..MaxHalfDay
          /\ Len(created) < MaxRows /\ created \in Seq(0..MaxHalfDay)
      BY <2>4 DEF Create
    <3>2. created' \in Seq(0..MaxHalfDay) /\ Len(created') = Len(created) + 1
      BY <3>1
    <3>3. Len(created) \in Nat /\ IDs \subseteq IDs' /\ Len(created') <= MaxRows
      BY <3>1, <3>2
    <3> QED BY <2>4, <3>2, <3>3 DEF Create, DispatchEnds, viewers, spending
  <2>5. ASSUME NEW v \in Viewers, ViewerStep(v) PROVE (NoticesTypeOK /\ ShownInv)'
    BY <2>5 DEF ViewerStep, Render, MarkSurfaced, Marked, PrintLine, ViewEnds,
         Unsurfaced, spending, dispatches, viewers
  <2>6. ASSUME NEW v \in Viewers, Interrupt(v) PROVE (NoticesTypeOK /\ ShownInv)'
    BY <2>6 DEF Interrupt, ViewEnds, spending, dispatches
  <2>7. CASE ListNewest \/ MarkAll
    BY <2>7 DEF ListNewest, MarkAll, Unsurfaced, spending, dispatches, viewers
  <2>8. CASE UNCHANGED noticeVars
    BY <2>8 DEF noticeVars, spending, dispatches, viewers
  <2> QED BY <2>1, <2>2, <2>3, <2>4, <2>5, <2>6, <2>7, <2>8 DEF NoticesNext, DispatchStep
<1> QED BY <1>1, <1>2, PTL DEF NoticesSpec

\* A notification marked surfaced was printed, is about to be, or is one of
\* those the two ways out account for: for any number of renderings, killed
\* anywhere, and any limit of the listing command.
THEOREM SurfacedWasShown == NoticesSpec => []SurfacedWasSeen
<1> USE DEF SurfacedWasSeen
<1>1. NoticesInit => SurfacedWasSeen
  BY DEF NoticesInit
<1>2. NoticesTypeOK /\ ShownInv /\ SurfacedWasSeen /\ [NoticesNext]_noticeVars
        => SurfacedWasSeen'
  <2> SUFFICES ASSUME NoticesTypeOK, ShownInv, SurfacedWasSeen, [NoticesNext]_noticeVars
               PROVE  SurfacedWasSeen'
    OBVIOUS
  <2>1. ASSUME UNCHANGED <<surfaced, seen, overlooked, shown>> PROVE SurfacedWasSeen'
    BY <2>1
  <2>2. CASE Tick \/ Spend \/ UNCHANGED noticeVars
    BY <2>1, <2>2 DEF Tick, Spend, viewers, noticeVars
  <2>3. ASSUME NEW p \in Dispatches, DispatchStep(p) PROVE SurfacedWasSeen'
    BY <2>1, <2>3 DEF DispatchStep, CheckBudget, AlreadyNotified, NotYetNotified,
         Create, GiveUp, viewers
  <2>4. ASSUME NEW v \in Viewers, Render(v) PROVE SurfacedWasSeen'
    <3>1. shown[v] = {} /\ shown' = [shown EXCEPT ![v] = Unsurfaced]
          /\ shown \in [Viewers -> SUBSET IDs]
      BY <2>4 DEF Render, ShownInv, NoticesTypeOK
    <3>2. \A w \in Viewers : shown[w] \subseteq shown'[w]
      BY <3>1
    <3> QED BY <2>4, <3>2 DEF Render
  <2>5. ASSUME NEW v \in Viewers, MarkSurfaced(v) \/ Marked(v) PROVE SurfacedWasSeen'
    BY <2>5 DEF MarkSurfaced, Marked, viewers
  <2>6. ASSUME NEW v \in Viewers, PrintLine(v) \/ Interrupt(v) PROVE SurfacedWasSeen'
    <3>1. \A w \in Viewers \ {v} : shown'[w] = shown[w]
      BY <2>6 DEF PrintLine, Interrupt, ViewEnds, NoticesTypeOK
    <3>2. /\ surfaced' = surfaced /\ seen \subseteq seen' /\ overlooked \subseteq overlooked'
          /\ shown[v] \cap surfaced \subseteq seen' \cup overlooked'
      BY <2>6 DEF PrintLine, Interrupt
    <3>3. ASSUME NEW n \in surfaced, n \notin seen \cup overlooked
          PROVE  n \in seen' \cup overlooked' \cup UNION {shown'[w] : w \in Viewers}
      <4>1. PICK w \in Viewers : n \in shown[w]
        BY <3>3
      <4> QED BY <3>1, <3>2, <4>1
    <3> QED BY <3>2, <3>3
  <2>7. CASE ListNewest \/ MarkAll
    BY <2>7 DEF ListNewest, MarkAll, viewers
  <2> QED BY <2>2, <2>3, <2>4, <2>5, <2>6, <2>7 DEF NoticesNext, ViewerStep
<1> QED BY <1>1, <1>2, NoticesTypeCorrect, PTL DEF NoticesSpec

LEMMA CreatedIsInt ==
  ASSUME NoticesTypeOK
  PROVE  /\ clock \in Nat /\ Len(created) \in Nat
         /\ \A n \in IDs : created[n] \in Nat
BY NoticesAssumption DEF NoticesTypeOK, IDs

\* What Create does to the table.
LEMMA CreateAppends ==
  ASSUME NoticesTypeOK, NEW p \in Dispatches, Create(p)
  PROVE  /\ IDs' = IDs \cup {Len(created) + 1} /\ Len(created) + 1 \notin IDs
         /\ \A n \in IDs : created'[n] = created[n]
         /\ created'[Len(created) + 1] = clock
<1>1. created' = Append(created, clock) /\ created \in Seq(0..MaxHalfDay)
  BY DEF NoticesTypeOK, Create
<1>2. Len(created') = Len(created) + 1 /\ Len(created) \in Nat
  BY <1>1
<1> QED BY <1>1, <1>2 DEF IDs

\* Every step but a Create and a Tick leaves the table, and every one but a
\* Tick the clock.
LEMMA TableChanges ==
  ASSUME [NoticesNext]_noticeVars
  PROVE  /\ clock' = clock \/ Tick
         /\ UNCHANGED created \/ \E p \in Dispatches : Create(p)
BY DEF NoticesNext, noticeVars, Tick, Spend, ListNewest, MarkAll, DispatchStep,
       CheckBudget, AlreadyNotified, NotYetNotified, Create, GiveUp, ViewerStep, Render,
       MarkSurfaced, Marked, PrintLine, Interrupt, spending

\* The rows are of the past, and a dispatch under way of today.
THEOREM TodayCorrect == NoticesSpec => []TodayInv
<1> USE DEF TodayInv
<1>1. NoticesInit => TodayInv
  BY DEF NoticesInit, IDs
<1>2. NoticesTypeOK /\ TodayInv /\ [NoticesNext]_noticeVars => TodayInv'
  <2> SUFFICES ASSUME NoticesTypeOK, TodayInv, [NoticesNext]_noticeVars
               PROVE  TodayInv'
    OBVIOUS
  <2>1. CASE Tick
    BY <2>1, CreatedIsInt DEF Tick, IDs
  <2>2. ASSUME NEW p \in Dispatches, Create(p) PROVE TodayInv'
    <3>1. clock' = clock /\ \A n \in IDs' : created'[n] <= clock
      <4>1. clock' = clock /\ clock \in Nat
        BY <2>2, CreatedIsInt DEF Create, spending
      <4>2. /\ IDs' = IDs \cup {Len(created) + 1}
            /\ \A n \in IDs : created'[n] = created[n]
            /\ created'[Len(created) + 1] = clock
        BY <2>2, CreateAppends
      <4> QED BY <4>1, <4>2
    <3>2. \A q \in Dispatches : check'[q] # "idle" => check'[q] = check[q] /\ today'[q] = today[q]
      BY <2>2 DEF Create, DispatchEnds, NoticesTypeOK
    <3> QED BY <3>1, <3>2 DEF UTCDay
  <2>3. ASSUME NEW p \in Dispatches,
               CheckBudget(p) \/ AlreadyNotified(p) \/ NotYetNotified(p) \/ GiveUp(p)
        PROVE  TodayInv'
    BY <2>3 DEF CheckBudget, AlreadyNotified, NotYetNotified, GiveUp, DispatchEnds,
         NoticesTypeOK, UTCDay, IDs, spending
  <2>4. ASSUME UNCHANGED <<clock, created, check, today>> PROVE TodayInv'
    BY <2>4 DEF UTCDay, IDs
  <2>5. CASE Spend \/ ListNewest \/ MarkAll \/ UNCHANGED noticeVars
    BY <2>4, <2>5 DEF Spend, ListNewest, MarkAll, noticeVars, spending, dispatches
  <2>6. ASSUME NEW v \in Viewers, ViewerStep(v) \/ Interrupt(v) PROVE TodayInv'
    BY <2>4, <2>6 DEF ViewerStep, Render, MarkSurfaced, Marked, PrintLine, Interrupt,
         spending, dispatches
  <2> QED BY <2>1, <2>2, <2>3, <2>5, <2>6 DEF NoticesNext, DispatchStep
<1> QED BY <1>1, <1>2, NoticesTypeCorrect, PTL DEF NoticesSpec

\* Wherever UTC midnight falls in the local day: every overrun that went through
\* CheckBudget has a notification of its own local day, or one of the local day
\* before that was made on the UTC day of the check, however many dispatches
\* check at once, fail or are killed. After UTC midnight only the first of the
\* two is left.
THEOREM OverrunHasNotice == NoticesSpec => []OverrunNotified
<1> USE DEF OverrunNotified
<1>1. NoticesInit => OverrunNotified
  BY DEF NoticesInit
<1>2. NoticesTypeOK /\ TodayInv /\ OverrunNotified /\ [NoticesNext]_noticeVars
        => OverrunNotified'
  <2> SUFFICES ASSUME NoticesTypeOK, TodayInv, OverrunNotified, [NoticesNext]_noticeVars
               PROVE  OverrunNotified'
    OBVIOUS
  <2>1. CASE Tick
    BY <2>1 DEF Tick, IDs
  <2>2. ASSUME NEW p \in Dispatches, Create(p) PROVE OverrunNotified'
    BY <2>2, CreateAppends DEF Create, LocalDay, UTCDay, spending
  <2>3. ASSUME NEW p \in Dispatches, AlreadyNotified(p) PROVE OverrunNotified'
    <3>1. today[p] = UTCDay(clock) /\ UNCHANGED <<clock, created>>
      BY <2>3 DEF AlreadyNotified, TodayInv, spending
    <3>2. PICK n \in IDs : UTCDay(created[n]) = UTCDay(clock)
      BY <2>3, <3>1 DEF AlreadyNotified, CreatedOn
    <3>3. \/ LocalDay(created[n]) = LocalDay(clock)
          \/ LocalDay(created[n]) + 1 = LocalDay(clock)
      <4>1. created[n] \in Nat /\ clock \in Nat /\ created[n] <= clock
        BY CreatedIsInt DEF TodayInv
      <4>2. \A a, b \in Nat : a <= b /\ (a + 1) \div 2 = (b + 1) \div 2
                               => a \div 2 = b \div 2 \/ a \div 2 + 1 = b \div 2
        BY SMTT(30)
      <4>3. CASE UTCOffset = 0
        BY <3>2, <4>1, <4>3 DEF UTCDay, LocalDay
      <4>4. CASE UTCOffset = 1
        BY <3>2, <4>1, <4>2, <4>4 DEF UTCDay, LocalDay
      <4> QED BY <4>3, <4>4, NoticesAssumption
    <3> QED BY <3>1, <3>2, <3>3 DEF IDs, LocalDay, UTCDay
  <2>4. ASSUME UNCHANGED <<clock, created, handled>> PROVE OverrunNotified'
    BY <2>4 DEF IDs, LocalDay, UTCDay
  <2>5. ASSUME NEW p \in Dispatches, CheckBudget(p) \/ NotYetNotified(p) \/ GiveUp(p)
        PROVE  OverrunNotified'
    BY <2>4, <2>5 DEF CheckBudget, NotYetNotified, GiveUp, spending
  <2>6. CASE Spend \/ ListNewest \/ MarkAll \/ UNCHANGED noticeVars
    BY <2>4, <2>6 DEF Spend, ListNewest, MarkAll, noticeVars, spending, dispatches
  <2>7. ASSUME NEW v \in Viewers, ViewerStep(v) \/ Interrupt(v) PROVE OverrunNotified'
    BY <2>4, <2>7 DEF ViewerStep, Render, MarkSurfaced, Marked, PrintLine, Interrupt,
         spending, dispatches
  <2> QED BY <2>1, <2>2, <2>3, <2>5, <2>6, <2>7 DEF NoticesNext, DispatchStep
<1> QED BY <1>1, <1>2, NoticesTypeCorrect, TodayCorrect, PTL DEF NoticesSpec

-----------------------------------------------------------------------------
(* How many notifications a day can have.                                  *)

\* A day has at most as many notifications as there are slots for dispatches;
\* today, a dispatch that has found none and will insert one counts already.
SlotsInv ==
  /\ \A d \in Nat : Cardinality(CreatedOn(d)) <= Cardinality(Dispatches)
  /\ Cardinality(CreatedOn(UTCDay(clock))) + Cardinality(Inserting)
       <= Cardinality(Dispatches)

LEMMA Counted ==
  ASSUME NoticesTypeOK
  PROVE  /\ IsFiniteSet(Inserting) /\ Cardinality(Inserting) \in Nat
         /\ Cardinality(Inserting) <= Cardinality(Dispatches)
         /\ Cardinality(Dispatches) \in Nat
         /\ \A d : IsFiniteSet(CreatedOn(d)) /\ Cardinality(CreatedOn(d)) \in Nat
         /\ UTCDay(clock) \in Nat
         /\ \A n \in IDs : UTCDay(created[n]) \in Nat
<1>1. /\ IsFiniteSet(Inserting) /\ Cardinality(Inserting) \in Nat
      /\ Cardinality(Inserting) <= Cardinality(Dispatches)
      /\ Cardinality(Dispatches) \in Nat
  BY NoticesAssumption, FS_Subset, FS_CardinalityType DEF Inserting
<1>2. IsFiniteSet(IDs)
  BY CreatedIsInt, FS_Interval DEF IDs
<1>3. \A d : IsFiniteSet(CreatedOn(d)) /\ Cardinality(CreatedOn(d)) \in Nat
  <2> TAKE d
  <2>1. CreatedOn(d) \in SUBSET IDs
    BY DEF CreatedOn
  <2> QED BY <1>2, <2>1, FS_Subset, FS_CardinalityType
<1>4. UTCDay(clock) \in Nat /\ \A n \in IDs : UTCDay(created[n]) \in Nat
  BY CreatedIsInt, NoticesAssumption DEF UTCDay
<1> QED BY <1>1, <1>3, <1>4

\* Nothing is inserted: the days keep their notifications.
LEMMA SlotsKept ==
  ASSUME NoticesTypeOK, SlotsInv, UNCHANGED <<clock, created>>,
         Cardinality(Inserting') <= Cardinality(Inserting) /\ Cardinality(Inserting') \in Nat
  PROVE  SlotsInv'
<1>1. \A d : CreatedOn(d)' = CreatedOn(d)
  BY DEF CreatedOn, IDs, UTCDay
<1>2. UTCDay(clock)' = UTCDay(clock)
  BY DEF UTCDay
<1> QED BY <1>1, <1>2, Counted DEF SlotsInv

\* The slots are enough: the check and the insertion of every dispatch that
\* finds the budget exceeded keep within them.
THEOREM SlotsCorrect == NoticesSpec => []SlotsInv
<1>1. NoticesInit => SlotsInv
  <2> SUFFICES ASSUME NoticesInit PROVE SlotsInv
    OBVIOUS
  <2>1. (\A d : CreatedOn(d) = {}) /\ Inserting = {}
    BY DEF NoticesInit, CreatedOn, IDs, Inserting
  <2>2. Cardinality(Dispatches) \in Nat
    BY NoticesAssumption, FS_CardinalityType
  <2> QED BY <2>1, <2>2, FS_EmptySet DEF SlotsInv
<1>2. NoticesTypeOK /\ TodayInv /\ SlotsInv /\ [NoticesNext]_noticeVars => SlotsInv'
  <2> SUFFICES ASSUME NoticesTypeOK, TodayInv, SlotsInv, [NoticesNext]_noticeVars
               PROVE  SlotsInv'
    OBVIOUS
  <2>1. ASSUME UNCHANGED <<clock, created, check>> PROVE SlotsInv'
    <3>1. Inserting' = Inserting
      BY <2>1 DEF Inserting
    <3> QED BY <2>1, <3>1, Counted, SlotsKept
  <2>2. CASE Tick
    <3>1. \A d : CreatedOn(d)' = CreatedOn(d)
      BY <2>2 DEF Tick, CreatedOn, IDs, UTCDay
    <3>2. Inserting' = {}
      BY <2>2 DEF Tick, Inserting
    <3>3. UTCDay(clock)' \in Nat
      BY <2>2, CreatedIsInt, NoticesAssumption DEF Tick, UTCDay
    <3> QED BY <3>1, <3>2, <3>3, FS_EmptySet, Counted DEF SlotsInv
  <2>3. ASSUME NEW p \in Dispatches, CheckBudget(p) \/ AlreadyNotified(p) \/ GiveUp(p)
        PROVE  SlotsInv'
    <3>1. Inserting' \in SUBSET Inserting
      BY <2>3 DEF CheckBudget, AlreadyNotified, GiveUp, DispatchEnds, Inserting, NoticesTypeOK
    <3>2. UNCHANGED <<clock, created>>
      BY <2>3 DEF CheckBudget, AlreadyNotified, GiveUp, spending
    <3>3. Cardinality(Inserting') <= Cardinality(Inserting) /\ Cardinality(Inserting') \in Nat
      BY <3>1, Counted, FS_Subset, FS_CardinalityType
    <3> QED BY <3>2, <3>3, SlotsKept
  <2>4. ASSUME NEW p \in Dispatches, NotYetNotified(p) PROVE SlotsInv'
    <3>1. Inserting' \in SUBSET Dispatches
      BY DEF Inserting
    <3>2. Cardinality(Inserting') <= Cardinality(Dispatches) /\ Cardinality(Inserting') \in Nat
      BY <3>1, NoticesAssumption, FS_Subset, FS_CardinalityType
    <3>3. UNCHANGED <<clock, created>> /\ CreatedOn(UTCDay(clock)) = {}
      BY <2>4 DEF NotYetNotified, TodayInv, spending
    <3>4. \A d : CreatedOn(d)' = CreatedOn(d)
      BY <3>3 DEF CreatedOn, IDs, UTCDay
    <3>5. UTCDay(clock)' = UTCDay(clock)
      BY <3>3 DEF UTCDay
    <3> QED BY <3>2, <3>3, <3>4, <3>5, FS_EmptySet, Counted DEF SlotsInv
  <2>5. ASSUME NEW p \in Dispatches, Create(p) PROVE SlotsInv'
    <3> DEFINE new == Len(created) + 1
    <3>1. Inserting' = Inserting \ {p} /\ p \in Inserting
      BY <2>5 DEF Create, DispatchEnds, Inserting, NoticesTypeOK
    <3>2. Cardinality(Inserting') = Cardinality(Inserting) - 1
      BY <3>1, Counted, FS_RemoveElement
    <3>3. clock' = clock /\ UTCDay(clock)' = UTCDay(clock)
      BY <2>5 DEF Create, UTCDay, spending
    <3>4. /\ IDs' = IDs \cup {new} /\ new \notin IDs
          /\ \A n \in IDs : created'[n] = created[n]
          /\ created'[new] = clock
      BY <2>5, CreateAppends
    <3>5. \A d : CreatedOn(d)' = IF d = UTCDay(clock) THEN CreatedOn(d) \cup {new}
                                                       ELSE CreatedOn(d)
      BY <3>4 DEF CreatedOn, UTCDay
    <3>6. Cardinality(CreatedOn(UTCDay(clock)) \cup {new})
            = Cardinality(CreatedOn(UTCDay(clock))) + 1
      <4>1. new \notin CreatedOn(UTCDay(clock))
        BY <3>4 DEF CreatedOn
      <4> QED BY <4>1, Counted, FS_AddElement
    <3> DEFINE C == CreatedOn(UTCDay(clock))
    <3>7. /\ Cardinality(C) + Cardinality(Inserting) <= Cardinality(Dispatches)
          /\ Cardinality(Inserting) > 0
      <4>1. Cardinality(Inserting) # 0
        BY <3>1, Counted, FS_EmptySet
      <4> QED BY <4>1, Counted DEF SlotsInv
    <3>8. CreatedOn(UTCDay(clock))' = C \cup {new}
      BY <3>3, <3>5
    <3>9. Cardinality(C \cup {new}) + Cardinality(Inserting') <= Cardinality(Dispatches)
      BY <3>2, <3>6, <3>7, Counted
    <3>10. \A d \in Nat : Cardinality(CreatedOn(d)') <= Cardinality(Dispatches)
      <4>1. ASSUME NEW d \in Nat, d # UTCDay(clock)
            PROVE  Cardinality(CreatedOn(d)') <= Cardinality(Dispatches)
        BY <3>5, <4>1 DEF SlotsInv
      <4>2. Cardinality(C \cup {new}) <= Cardinality(Dispatches)
        BY <3>6, <3>7, Counted
      <4> HIDE DEF C, new
      <4> QED BY <3>5, <4>1, <4>2 DEF C
    <3> QED BY <3>3, <3>8, <3>9, <3>10 DEF SlotsInv
  <2>6. CASE Spend \/ ListNewest \/ MarkAll \/ UNCHANGED noticeVars
    BY <2>1, <2>6 DEF Spend, ListNewest, MarkAll, noticeVars, spending, dispatches
  <2>7. ASSUME NEW v \in Viewers, ViewerStep(v) \/ Interrupt(v) PROVE SlotsInv'
    BY <2>1, <2>7 DEF ViewerStep, Render, MarkSurfaced, Marked, PrintLine, Interrupt,
         spending, dispatches
  <2> QED BY <2>2, <2>3, <2>4, <2>5, <2>6, <2>7 DEF NoticesNext, DispatchStep
<1> QED BY <1>1, <1>2, NoticesTypeCorrect, TodayCorrect, PTL DEF NoticesSpec

\* No day has more notifications than dispatches can run at once, however many
\* tool calls find the budget exceeded and however the checks are interleaved.
THEOREM DuplicatesStayBounded == NoticesSpec => []DuplicatesBounded
<1>1. NoticesTypeOK /\ SlotsInv => DuplicatesBounded
  BY Counted DEF SlotsInv, DuplicatesBounded
<1> QED BY <1>1, NoticesTypeCorrect, SlotsCorrect, PTL
=============================================================================
