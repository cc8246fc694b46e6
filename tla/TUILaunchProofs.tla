-------------------------- MODULE TUILaunchProofs --------------------------
(***************************************************************************)
(* Theorems about TUILaunch: the types, the singleton guarantee of guarded *)
(* launches, and the watchdog's restraint.                                 *)
(***************************************************************************)
EXTENDS TUILaunch, TLAPS

USE ConstantsAssumption DEF Labels, ClaimedLabels

-----------------------------------------------------------------------------
(* Type correctness.                                                       *)

LEMMA StrikeMishaps ==
  ASSUME NEW p \in PIDs, Strike(p)
  PROVE  /\ mishaps' \subseteq mishaps \cup {"strayed"}
         /\ "stolen" \in mishaps' <=> "stolen" \in mishaps
         /\ kind[p] = "tui" /\ age[p] = "old" => mishaps' = mishaps
BY DEF Strike, OldTUIs, TUIs

\* claimMarker's loop has an attempt left wherever it uses one.
AttemptLeft ==
  \A l \in Launchers : pc[l] \in {"claim", "stat", "remove"} => attempts[l] < 3

Types == TypeOK /\ AttemptLeft

LEMMA TypeInitially == Init => Types
<1>1. Init => TypeOK
  BY DEF Init, TypeOK
<1>2. Init => AttemptLeft
  BY DEF Init, AttemptLeft
<1> QED
  BY <1>1, <1>2 DEF Types

LEMMA TypeInductive == Types /\ [Next]_vars => Types'
<1> SUFFICES ASSUME Types, [Next]_vars PROVE Types'
  OBVIOUS
<1> USE DEF Types, TypeOK, AttemptLeft, Goto, launch, procs, watch
<1>1. ASSUME NEW l \in Launchers, Dispatch(l) PROVE Types'
  BY <1>1 DEF Dispatch
<1>2. ASSUME NEW l \in Launchers, Check(l) PROVE Types'
  BY <1>2 DEF Check
<1>3. ASSUME NEW l \in Launchers, Claim(l) PROVE Types'
  BY <1>3 DEF Claim
<1>4. ASSUME NEW l \in Launchers, ClaimFails(l) PROVE Types'
  BY <1>4 DEF ClaimFails
<1>5. ASSUME NEW l \in Launchers, Stat(l) PROVE Types'
  BY <1>5 DEF Stat, Retry
<1>6. ASSUME NEW l \in Launchers, RemoveStale(l) PROVE Types'
  BY <1>6 DEF RemoveStale, Retry
<1>7. ASSUME NEW l \in Launchers, Recheck(l) PROVE Types'
  BY <1>7 DEF Recheck
<1>8. ASSUME NEW l \in Launchers, Spawn(l) PROVE Types'
  BY <1>8 DEF Spawn
<1>9. ASSUME NEW l \in Launchers, SpawnFails(l) PROVE Types'
  BY <1>9 DEF SpawnFails
<1>10. ASSUME NEW l \in Launchers, Release(l) PROVE Types'
  BY <1>10 DEF Release
<1>11. ASSUME NEW l \in Launchers, Crash(l) PROVE Types'
  BY <1>11 DEF Crash
<1>12. ASSUME NEW p \in PIDs, Exec(p) PROVE Types'
  BY <1>12 DEF Exec, Appears, NewProcess, TUIs
<1>13. ASSUME NEW p \in PIDs, ManualStart(p) PROVE Types'
  BY <1>13 DEF ManualStart, Appears, NewProcess, TUIs
<1>14. ASSUME NEW p \in PIDs, Mount(p) PROVE Types'
  BY <1>14 DEF Mount
<1>15. ASSUME NEW p \in PIDs, Grow(p) PROVE Types'
  BY <1>15 DEF Grow
<1>16. ASSUME NEW p \in PIDs, Wedge(p) PROVE Types'
  BY <1>16 DEF Wedge
<1>17. ASSUME NEW p \in PIDs, Exit(p) PROVE Types'
  BY <1>17 DEF Exit, Gone
<1>18. ASSUME NEW p \in PIDs, Reuse(p) PROVE Types'
  BY <1>18 DEF Reuse, NewProcess
<1>19. ASSUME NEW p \in PIDs, StrangerEnds(p) PROVE Types'
  BY <1>19 DEF StrangerEnds, Gone
<1>20. ASSUME NEW p \in PIDs, Terminate(p) PROVE Types'
  BY <1>20, StrikeMishaps DEF Terminate, EndIfLast
<1>21. ASSUME NEW p \in PIDs, KillSurvivor(p) PROVE Types'
  <2>1. CASE ReVerify(p)
    <3>1. Gone(p, FALSE) /\ Strike(p) /\ victim' = None
            /\ UNCHANGED <<launch, handoffs, targets>> /\ newcomers' \subseteq newcomers
      BY <1>21, <2>1 DEF KillSurvivor, EndIfLast
    <3>2. mishaps' \subseteq {"stolen", "strayed"}
      BY <3>1, StrikeMishaps
    <3> QED
      BY <3>1, <3>2 DEF Gone
  <2>2. CASE ~ReVerify(p)
    BY <1>21, <2>2 DEF KillSurvivor, EndIfLast
  <2> QED
    BY <2>1, <2>2
<1>22. CASE MarkerExpires
  BY <1>22 DEF MarkerExpires
<1>23. CASE HandoffDies
  BY <1>23 DEF HandoffDies
<1>24. CASE Sweep
  BY <1>24 DEF Sweep, Reap, OldTUIs, TUIs
<1>25. CASE UNCHANGED vars
  BY <1>25 DEF vars
<1> QED
  BY <1>1, <1>2, <1>3, <1>4, <1>5, <1>6, <1>7, <1>8, <1>9, <1>10, <1>11, <1>12, <1>13, <1>14, <1>15, <1>16, <1>17, <1>18, <1>19, <1>20, <1>21, <1>22, <1>23, <1>24, <1>25
  DEF Next, LauncherStep, ProcessStep, WatchdogStep

\* Every variable keeps its type, whatever launchers, TUIs and watchdog do.
THEOREM TypeCorrect == Spec => []TypeOK
<1>1. Init => Types
  BY TypeInitially
<1>2. Types /\ [Next]_vars => Types'
  BY TypeInductive
<1>3. Types => TypeOK
  BY DEF Types
<1> QED
  BY <1>1, <1>2, <1>3, PTL DEF Spec

-----------------------------------------------------------------------------
(* The singleton. As long as no fresh marker was stolen, at most one       *)
(* launcher owns the launch window, the marker covers it and the hand-over *)
(* that follows, and no TUI is up when the owner is about to spawn.        *)

Window ==
  /\ ExactlyOneWinner
  /\ \A l \in Launchers : pc[l] \in ClaimedLabels => marker = "fresh"
  /\ handoffs # 0 =>
       marker = "fresh" /\ \A l \in Launchers : pc[l] \notin ClaimedLabels
  /\ \A l \in Launchers : pc[l] = "spawn" => TUIs = {}

SingletonInv == "stolen" \notin mishaps => Window /\ AtMostOneTUI

LEMMA SingletonInitially == Init => SingletonInv
BY DEF Init, SingletonInv, Window, AtMostOneTUI, ExactlyOneWinner, TUIs

LEMMA SingletonInductive ==
  ASSUME ~ManualLaunch, Types, SingletonInv, [Next]_vars
  PROVE  SingletonInv'
<1> SUFFICES ASSUME "stolen" \notin mishaps' PROVE Window' /\ AtMostOneTUI'
  BY DEF SingletonInv
<1> USE DEF Types, TypeOK, Goto, Window, AtMostOneTUI, ExactlyOneWinner, TUIs
<1>0. "stolen" \notin mishaps =>
        /\ Window /\ AtMostOneTUI
  BY DEF SingletonInv
<1>1. ASSUME NEW l \in Launchers,
             Dispatch(l) \/ Check(l) \/ ClaimFails(l) \/ SpawnFails(l)
               \/ Stat(l) \/ Crash(l)
      PROVE  Window' /\ AtMostOneTUI'
  BY <1>0, <1>1 DEF Dispatch, Check, ClaimFails, SpawnFails, Stat, Retry, Crash,
                    procs, watch
<1>2. ASSUME NEW l \in Launchers, Claim(l)
      PROVE  Window' /\ AtMostOneTUI'
  BY <1>0, <1>2 DEF Claim, procs, watch
<1>3. ASSUME NEW l \in Launchers, RemoveStale(l)
      PROVE  Window' /\ AtMostOneTUI'
  BY <1>0, <1>3 DEF RemoveStale, Retry, procs, watch
<1>4. ASSUME NEW l \in Launchers, Recheck(l)
      PROVE  Window' /\ AtMostOneTUI'
  BY <1>0, <1>4 DEF Recheck, IsTUIRunning, procs, watch
<1>5. ASSUME NEW l \in Launchers, Spawn(l)
      PROVE  Window' /\ AtMostOneTUI'
  BY <1>0, <1>5 DEF Spawn, procs, watch
<1>6. ASSUME NEW l \in Launchers, Release(l)
      PROVE  Window' /\ AtMostOneTUI'
  BY <1>0, <1>6 DEF Release, procs, watch
<1>7. CASE MarkerExpires
  BY <1>0, <1>7 DEF MarkerExpires, procs, watch
<1>8. CASE HandoffDies
  BY <1>0, <1>8 DEF HandoffDies, launch, procs, watch
<1>9. ASSUME NEW p \in PIDs, Exec(p)
      PROVE  Window' /\ AtMostOneTUI'
  BY <1>0, <1>9 DEF Exec, Appears, NewProcess, launch, watch
<1>10. ASSUME NEW p \in PIDs, Mount(p) \/ Grow(p) \/ Wedge(p)
       PROVE  Window' /\ AtMostOneTUI'
  BY <1>0, <1>10 DEF Mount, Grow, Wedge, launch, watch
<1>11. ASSUME NEW p \in PIDs, Exit(p) \/ Reuse(p) \/ StrangerEnds(p)
       PROVE  Window' /\ AtMostOneTUI'
  BY <1>0, <1>11 DEF Exit, Reuse, NewProcess, StrangerEnds, Gone, launch, watch
<1>12. CASE Sweep
  BY <1>0, <1>12 DEF Sweep, launch, procs
<1>13. ASSUME NEW p \in PIDs, Terminate(p) \/ KillSurvivor(p)
       PROVE  Window' /\ AtMostOneTUI'
  BY <1>0, <1>13, StrikeMishaps DEF Terminate, KillSurvivor, Gone, launch, procs
<1>14. CASE UNCHANGED vars
  BY <1>0, <1>14 DEF vars, launch, procs, watch
<1> QED
  BY <1>1, <1>2, <1>3, <1>4, <1>5, <1>6, <1>7, <1>8, <1>9, <1>10, <1>11,
     <1>12, <1>13, <1>14
  DEF Next, LauncherStep, ProcessStep, WatchdogStep, ManualStart

\* With guarded launches only, a second TUI, or a second owner of the launch
\* window, needs a launcher that removed another's fresh marker as stale
\* (claimMarker's os.Remove by path).
THEOREM SingletonUnlessStolen ==
  ASSUME ~ManualLaunch
  PROVE  Spec => []DuplicateNeedsStolenMarker
<1>1. Init => Types /\ SingletonInv
  BY TypeInitially, SingletonInitially
<1>2. Types /\ SingletonInv /\ [Next]_vars => (Types /\ SingletonInv)'
  BY TypeInductive, SingletonInductive
<1>3. SingletonInv => DuplicateNeedsStolenMarker
  BY DEF SingletonInv, DuplicateNeedsStolenMarker, Window
<1> QED
  BY <1>1, <1>2, <1>3, PTL DEF Spec

-----------------------------------------------------------------------------
(* The watchdog. A PID it still has to signal can have been recycled, but  *)
(* then its new process is a newcomer, too young for reVerifyTUI.          *)

RecycledIsNew ==
  /\ \A p \in PIDs :
       (p \in targets \/ p = victim) /\ IsTUIComm(p) /\ p \notin newcomers
         => p \in OldTUIs
  /\ ~Sweeping => newcomers = {}
  /\ OnlyGrownTUIsStruck

LEMMA RecycledInductive ==
  ASSUME Types, RecycledIsNew, [Next]_vars
  PROVE  RecycledIsNew'
<1> USE DEF Types, TypeOK, RecycledIsNew, OnlyGrownTUIsStruck, IsTUIComm,
            OldTUIs, TUIs, Sweeping
<1>1. ASSUME NEW l \in Launchers, Dispatch(l) \/ LauncherStep(l) \/ Crash(l)
      PROVE  RecycledIsNew'
  BY <1>1 DEF Dispatch, LauncherStep, Check, Claim, ClaimFails, Stat, RemoveStale,
              Recheck, Spawn, SpawnFails, Release, Crash, procs, watch
<1>2. CASE MarkerExpires \/ HandoffDies
  BY <1>2 DEF MarkerExpires, HandoffDies, procs, watch
<1>3. ASSUME NEW p \in PIDs, Exec(p) \/ ManualStart(p) \/ Reuse(p)
      PROVE  RecycledIsNew'
  BY <1>3 DEF Exec, ManualStart, Appears, Reuse, NewProcess, launch
<1>4. ASSUME NEW p \in PIDs, Mount(p) \/ Grow(p) \/ Wedge(p)
      PROVE  RecycledIsNew'
  BY <1>4 DEF Mount, Grow, Wedge, launch, watch
<1>5. ASSUME NEW p \in PIDs, Exit(p) \/ StrangerEnds(p)
      PROVE  RecycledIsNew'
  BY <1>5 DEF Exit, StrangerEnds, Gone, launch, watch
<1>6. CASE Sweep
  BY <1>6 DEF Sweep, Reap, launch, procs
<1>7. ASSUME NEW p \in PIDs, Terminate(p)
      PROVE  RecycledIsNew'
  <2>1. CASE ReVerify(p)
    <3>1. mishaps' = mishaps
      BY <1>7, <2>1, StrikeMishaps DEF Terminate, ReVerify
    <3> QED
      BY <1>7, <3>1, <2>1 DEF Terminate, ReVerify, EndIfLast, launch, procs
  <2>2. CASE ~ReVerify(p)
    BY <1>7, <2>2 DEF Terminate, EndIfLast, launch, procs
  <2> QED
    BY <2>1, <2>2
<1>8. ASSUME NEW p \in PIDs, KillSurvivor(p)
      PROVE  RecycledIsNew'
  <2>1. CASE ReVerify(p)
    <3>1. mishaps' = mishaps
      BY <1>8, <2>1, StrikeMishaps DEF KillSurvivor, ReVerify
    <3> QED
      BY <1>8, <3>1, <2>1 DEF KillSurvivor, EndIfLast, Gone, launch
  <2>2. CASE ~ReVerify(p)
    BY <1>8, <2>2 DEF KillSurvivor, EndIfLast, launch, procs
  <2> QED
    BY <2>1, <2>2
<1>9. CASE UNCHANGED vars
  BY <1>9 DEF vars, launch, procs, watch
<1> QED
  BY <1>1, <1>2, <1>3, <1>4, <1>5, <1>6, <1>7, <1>8, <1>9
     DEF Next, ProcessStep, WatchdogStep

\* A sweep signals TUIs past their boot grace only, whatever takes the PID
\* of a listed TUI between the list and either signal.
THEOREM WatchdogSparesStrangers == Spec => []OnlyGrownTUIsStruck
<1>1. Init => Types /\ RecycledIsNew
  BY TypeInitially DEF Init, RecycledIsNew, OnlyGrownTUIsStruck, IsTUIComm
<1>2. Types /\ RecycledIsNew /\ [Next]_vars => (Types /\ RecycledIsNew)'
  BY TypeInductive, RecycledInductive
<1>3. RecycledIsNew => OnlyGrownTUIsStruck
  BY DEF RecycledIsNew
<1> QED
  BY <1>1, <1>2, <1>3, PTL DEF Spec
=============================================================================
