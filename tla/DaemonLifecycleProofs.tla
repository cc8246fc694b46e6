---------------------- MODULE DaemonLifecycleProofs ----------------------
(***************************************************************************)
(* Proofs about DaemonLifecycle for any set of processes and inodes: the   *)
(* types, the arbitration lock, and, on a file system that does not reuse  *)
(* inode numbers, the ownership of the socket file.                        *)
(***************************************************************************)
EXTENDS DaemonLifecycle, TLAPS

\* Every variable keeps its type through every step of Start and Stop, and a
\* process that signals has read a real PID (migrateOldDaemon).
THEOREM TypeCorrect == Spec => []TypeOK
<1> USE DEF TypeOK, Labels, MigrateLabels, StartLockLabels, StopLockLabels,
            OpenLabels, DeadLabels, Processes
<1>1. Init => TypeOK
  BY DEF Init
<1>2. TypeOK /\ [Next]_vars => TypeOK'
  <2> SUFFICES ASSUME TypeOK, [Next]_vars PROVE TypeOK'
    OBVIOUS
  <2> USE ConstantsAssumption DEF Goto, shared, local
  \* The migration of a PID-only daemon.
  <2>1. ASSUME NEW d \in Daemons,
               Launch(d) \/ StatPID(d) \/ StatSocket(d) \/ ReadPID(d) \/
               SignalFails(d) \/ SignalOld(d) \/ EndWait(d)
        PROVE  TypeOK'
    BY <2>1 DEF Launch, StatPID, StatSocket, ReadPID, SignalFails,
             SignalOld, EndWait, Alive
  <2>2. ASSUME NEW d \in Daemons, SignalDaemon(d) \/ Crash(d) PROVE TypeOK'
    BY <2>2 DEF SignalDaemon, Crash, KilledBy, Running, DeadLabels
  \* The arbitration section of Start.
  <2>3. ASSUME NEW d \in Daemons,
               StartLock(d) \/ StartLockTimeout(d) \/ ProbeSocket(d) \/
               Refuse(d) \/ StartFails(d) \/ UnlinkStale(d)
        PROVE  TypeOK'
    BY <2>3 DEF StartLock, AcquireLock, StartLockTimeout, ProbeSocket,
             Refuse, StartFails, UnlinkStale
  <2>4. ASSUME NEW d \in Daemons, Bind(d) \/ Listen(d) \/ FinishBind(d) \/ ChmodFails(d) PROVE TypeOK'
    BY <2>4 DEF Bind, Listen, FinishBind, ChmodFails
  \* The rest of Start, and the requests to stop.
  <2>5. ASSUME NEW d \in Daemons,
               WritePID(d) \/ InstallHandler(d) \/ FinishStart(d) \/
               PostShutdown(d) \/ SignalOrIdle(d) \/ HandlerEnds(d)
        PROVE  TypeOK'
    BY <2>5 DEF WritePID, InstallHandler, FinishStart, PostShutdown,
             SignalOrIdle, HandlerEnds
  \* Stop.
  <2>6. ASSUME NEW d \in Daemons,
               CloseListener(d) \/ StopLock(d) \/ StopLockFails(d) \/
               KeepFile(d) \/ StatOwn(d) \/ UnlinkOwn(d) \/
               RemovePID(d)
        PROVE  TypeOK'
    BY <2>6 DEF CloseListener, StopLock, AcquireLock, StopLockFails,
             KeepFile, StatOwn, UnlinkOwn, RemovePID
  <2>7. CASE OldExits
    BY <2>7 DEF OldExits
  <2>8. CASE UNCHANGED vars
    BY <2>8 DEF vars
  <2> QED
    BY <2>1, <2>2, <2>3, <2>4, <2>5, <2>6, <2>7, <2>8
       DEF Next, StartStep, StopStep, Finished
<1> QED BY <1>1, <1>2, PTL DEF Spec

\* A process is inside the arbitration section of SocketServer.Start or
\* Shutdown exactly when it holds the flock, whatever dies or times out.
THEOREM LockCorrect == Spec => []LockInv
<1> USE DEF LockInv, StartLockLabels, StopLockLabels
<1>1. Init => LockInv
  BY ConstantsAssumption DEF Init
<1>2. TypeOK /\ LockInv /\ [Next]_vars => LockInv'
  <2> SUFFICES ASSUME TypeOK, LockInv, [Next]_vars PROVE LockInv'
    OBVIOUS
  <2> USE ConstantsAssumption DEF TypeOK, Goto, shared, local, Processes
  \* The migration of a PID-only daemon.
  <2>1. ASSUME NEW d \in Daemons,
               Launch(d) \/ StatPID(d) \/ StatSocket(d) \/ ReadPID(d) \/
               SignalFails(d) \/ SignalOld(d) \/ EndWait(d)
        PROVE  LockInv'
    BY <2>1 DEF Launch, StatPID, StatSocket, ReadPID, SignalFails,
             SignalOld, EndWait, Alive
  <2>2. ASSUME NEW d \in Daemons, SignalDaemon(d) \/ Crash(d) PROVE LockInv'
    BY <2>2 DEF SignalDaemon, Crash, KilledBy, Running, DeadLabels
  \* The arbitration section of Start.
  <2>3. ASSUME NEW d \in Daemons,
               StartLock(d) \/ StartLockTimeout(d) \/ ProbeSocket(d) \/
               Refuse(d) \/ StartFails(d) \/ UnlinkStale(d)
        PROVE  LockInv'
    BY <2>3 DEF StartLock, AcquireLock, StartLockTimeout, ProbeSocket,
             Refuse, StartFails, UnlinkStale
  <2>4. ASSUME NEW d \in Daemons, Bind(d) \/ Listen(d) \/ FinishBind(d) \/ ChmodFails(d) PROVE LockInv'
    BY <2>4 DEF Bind, Listen, FinishBind, ChmodFails
  \* The rest of Start, and the requests to stop.
  <2>5. ASSUME NEW d \in Daemons,
               WritePID(d) \/ InstallHandler(d) \/ FinishStart(d) \/
               PostShutdown(d) \/ SignalOrIdle(d) \/ HandlerEnds(d)
        PROVE  LockInv'
    BY <2>5 DEF WritePID, InstallHandler, FinishStart, PostShutdown,
             SignalOrIdle, HandlerEnds
  \* Stop.
  <2>6. ASSUME NEW d \in Daemons,
               CloseListener(d) \/ StopLock(d) \/ StopLockFails(d) \/
               KeepFile(d) \/ StatOwn(d) \/ UnlinkOwn(d) \/
               RemovePID(d)
        PROVE  LockInv'
    BY <2>6 DEF CloseListener, StopLock, AcquireLock, StopLockFails,
             KeepFile, StatOwn, UnlinkOwn, RemovePID
  <2>7. CASE OldExits
    BY <2>7 DEF OldExits
  <2>8. CASE UNCHANGED vars
    BY <2>8 DEF vars
  <2> QED
    BY <2>1, <2>2, <2>3, <2>4, <2>5, <2>6, <2>7, <2>8
       DEF Next, StartStep, StopStep, Finished
<1> QED BY <1>1, <1>2, TypeCorrect, PTL DEF Spec

-----------------------------------------------------------------------------
(* Ownership of the socket file. ListenerReachable alone is not inductive: *)
(* the steps that unlink rely on what the process saw earlier under the    *)
(* lock, and the identity check of Shutdown relies on no two processes     *)
(* having bound the same inode.                                            *)

\* d has a socket bound to the file at the path, listening or about to.
HasSocket(d) == Open(d) \/ pc[d] = "listen"

\* The path holds the file of the process that has a socket.
PathInv == \A d \in Daemons : HasSocket(d) => ino[d] # None /\ socketFile = ino[d]

\* Every inode that was bound is recorded, and no two processes bound one.
FreshInv ==
  /\ socketFile # None => socketFile \in used
  /\ \A d \in Daemons : ino[d] # None => ino[d] \in used
  /\ \A d, e \in Daemons : d # e /\ ino[d] # None => ino[d] # ino[e]

\* The captured identity is that of the file the process bound, and nothing
\* is captured before the bind is finished.
IdentityInv ==
  \A d \in Daemons :
    /\ boundInfo[d] \in {None, ino[d]}
    /\ pc[d] \in {"off", "lock"} \cup MigrateLabels \cup StartLockLabels
         => boundInfo[d] = None

\* What a process has established under the lock still holds when it acts.
StageInv ==
  \A d \in Daemons :
    /\ pc[d] \in {"unlinkStale", "bind"} => \A e \in Daemons : ~HasSocket(e)
    /\ pc[d] = "bind" => socketFile = None
    /\ pc[d] = "unlinkOwn" => ino[d] # None /\ socketFile = ino[d]

OwnershipInv == PathInv /\ FreshInv /\ IdentityInv /\ StageInv

LEMMA OwnershipInductive ==
  ASSUME ~InodeReuse, TypeOK, LockInv, OwnershipInv, [Next]_vars
  PROVE  OwnershipInv'
<1> USE ConstantsAssumption
        DEF OwnershipInv, PathInv, FreshInv, IdentityInv, StageInv, HasSocket,
            Open, OpenLabels, TypeOK, LockInv, MigrateLabels, StartLockLabels,
            StopLockLabels, Goto, shared, local
\* Steps that touch neither the socket file nor a socket.
<1>1. ASSUME NEW d \in Daemons,
             Launch(d) \/ StatPID(d) \/ StatSocket(d) \/ ReadPID(d) \/
             SignalFails(d) \/ SignalOld(d) \/ EndWait(d)
      PROVE  OwnershipInv'
  BY <1>1 DEF Launch, StatPID, StatSocket, ReadPID, SignalFails,
           SignalOld, EndWait
<1>2. ASSUME NEW d \in Daemons,
             StartLock(d) \/ StartLockTimeout(d) \/ Refuse(d) \/
             StartFails(d) \/ WritePID(d) \/ InstallHandler(d) \/ FinishStart(d)
      PROVE  OwnershipInv'
  BY <1>2 DEF StartLock, AcquireLock, StartLockTimeout, Refuse, StartFails,
           WritePID, InstallHandler, FinishStart
<1>3. ASSUME NEW d \in Daemons,
             PostShutdown(d) \/ SignalOrIdle(d) \/ HandlerEnds(d) \/
             StopLock(d) \/ StopLockFails(d) \/ KeepFile(d)
             \/ RemovePID(d)
      PROVE  OwnershipInv'
  BY <1>3 DEF PostShutdown, SignalOrIdle, HandlerEnds, StopLock,
           AcquireLock, StopLockFails, KeepFile, RemovePID
\* A death closes the socket and leaves the file.
<1>4. ASSUME NEW d \in Daemons, SignalDaemon(d) \/ Crash(d) PROVE OwnershipInv'
  BY <1>4 DEF SignalDaemon, Crash, KilledBy
\* The probe: nobody answers, and nobody else is between bind and listen,
\* since that takes the lock.
<1>5. ASSUME NEW d \in Daemons, ProbeSocket(d) PROVE OwnershipInv'
  BY <1>5 DEF ProbeSocket, DialConnects
<1>6. ASSUME NEW d \in Daemons, UnlinkStale(d) PROVE OwnershipInv'
  BY <1>6 DEF UnlinkStale
\* A fresh inode: no other process has a socket.
<1>7. ASSUME NEW d \in Daemons, Bind(d) PROVE OwnershipInv'
  <2>1. PICK i \in Inodes :
          /\ i \notin used
          /\ socketFile' = i
          /\ ino' = [ino EXCEPT ![d] = i]
          /\ used' = used \cup {i}
    BY <1>7 DEF Bind, FreeInode
  <2>2. pc[d] = "bind" /\ pc' = [pc EXCEPT ![d] = "listen"] /\ boundInfo' = boundInfo
    BY <1>7 DEF Bind
  <2>3. \A e \in Daemons : ~HasSocket(e)
    BY <2>2
  <2>4. PathInv'
    BY <2>1, <2>2, <2>3
  <2>5. FreshInv'
    <3>1. ASSUME NEW e \in Daemons, ino'[e] # None PROVE ino'[e] \in used'
      BY <2>1, <3>1
    <3>2. ASSUME NEW e \in Daemons, NEW f \in Daemons, e # f, ino'[e] # None
          PROVE  ino'[e] # ino'[f]
      BY <2>1, <3>2
    <3> QED BY <2>1, <3>1, <3>2
  <2>6. IdentityInv'
    BY <2>1, <2>2
  <2>7. StageInv'
    BY <2>1, <2>2
  <2> QED BY <2>4, <2>5, <2>6, <2>7
<1>8. ASSUME NEW d \in Daemons, Listen(d) \/ FinishBind(d) PROVE OwnershipInv'
  BY <1>8 DEF Listen, FinishBind
<1>9. ASSUME NEW d \in Daemons, ChmodFails(d) PROVE OwnershipInv'
  BY <1>9 DEF ChmodFails
<1>10. ASSUME NEW d \in Daemons, CloseListener(d) \/ StatOwn(d) PROVE OwnershipInv'
  BY <1>10 DEF CloseListener, StatOwn, OwnsFile
\* The file at the path is the one this process bound, and nobody else bound it.
<1>11. ASSUME NEW d \in Daemons, UnlinkOwn(d) PROVE OwnershipInv'
  BY <1>11 DEF UnlinkOwn
<1>12. CASE OldExits
  BY <1>12 DEF OldExits
<1>13. CASE UNCHANGED vars
  BY <1>13 DEF vars
<1> QED
  BY <1>1, <1>2, <1>3, <1>4, <1>5, <1>6, <1>7, <1>8, <1>9, <1>10, <1>11, <1>12, <1>13
     DEF Next, StartStep, StopStep, Finished

LEMMA OwnershipInitially == ASSUME Init PROVE OwnershipInv
BY ConstantsAssumption
   DEF Init, OwnershipInv, PathInv, FreshInv, IdentityInv, StageInv, HasSocket,
       Open, OpenLabels

THEOREM Ownership == ASSUME ~InodeReuse PROVE Spec => []OwnershipInv
<1>1. TypeOK /\ LockInv /\ OwnershipInv /\ [Next]_vars => OwnershipInv'
  BY OwnershipInductive
<1> QED
  BY <1>1, OwnershipInitially, TypeCorrect, LockCorrect, PTL DEF Spec

\* No daemon that listens ever loses its socket file to a starting or a
\* stopping one (the stale detection of Start, the identity check of Shutdown).
THEOREM ListenerStaysReachable ==
  ASSUME ~InodeReuse PROVE Spec => []ListenerReachable
<1>1. OwnershipInv => ListenerReachable
  BY DEF OwnershipInv, PathInv, HasSocket, ListenerReachable
<1> QED BY <1>1, Ownership, PTL

\* At most one daemon listens (SOCKET-1).
THEOREM SingleInstanceHolds ==
  ASSUME ~InodeReuse PROVE Spec => []SingleInstance
<1>1. OwnershipInv => SingleInstance
  BY DEF OwnershipInv, PathInv, FreshInv, HasSocket, SingleInstance
<1> QED BY <1>1, Ownership, PTL
-----------------------------------------------------------------------------
(* The socket as a single-owner resource: the steps of the code map to the *)
(* opening and closing of SocketOwner, or to no change.                    *)

\* The abstract state of a concrete one.
OwnerShape ==
  /\ \A d \in Daemons : Open(d) => Listeners = {d} /\ Reached = d
  /\ (\A d \in Daemons : ~Open(d)) => Listeners = {} /\ Reached = None

LEMMA ShapeHolds == ASSUME OwnershipInv PROVE OwnerShape
<1>1. ASSUME NEW d \in Daemons, Open(d) PROVE Listeners = {d} /\ Reached = d
  <2>1. \A e \in Daemons : Open(e) => e = d /\ ino[e] = socketFile
    BY <1>1 DEF OwnershipInv, PathInv, FreshInv, HasSocket
  <2>2. Listeners = {d}
    BY <1>1, <2>1 DEF Listeners
  <2>3. DialConnects
    BY <1>1, <2>1 DEF DialConnects
  <2>4. \A e \in Daemons : Open(e) /\ ino[e] = socketFile <=> e = d
    BY <1>1, <2>1
  <2> QED BY <2>2, <2>3, <2>4 DEF Reached
<1>2. ASSUME \A d \in Daemons : ~Open(d) PROVE Listeners = {} /\ Reached = None
  BY <1>2 DEF Listeners, Reached, DialConnects
<1> QED BY <1>1, <1>2 DEF OwnerShape

\* Nobody starts or stops listening: the abstract state does not change.
LEMMA OwnerStutters ==
  ASSUME OwnerShape, OwnerShape', \A e \in Daemons : Open(e) <=> Open(e)'
  PROVE  UNCHANGED Owner!vars
BY DEF OwnerShape, Owner!vars

\* d stops listening, by itself or because it dies.
LEMMA OwnerCloses ==
  ASSUME OwnerShape, OwnerShape', NEW d \in Daemons, Open(d),
         \A e \in Daemons : Open(e)' <=> Open(e) /\ e # d
  PROVE  [Owner!Next]_(Owner!vars)
<1>1. \A e \in Daemons : ~Open(e)'
  <2> SUFFICES ASSUME NEW e \in Daemons, Open(e), e # d PROVE FALSE
    OBVIOUS
  <2> QED BY DEF OwnerShape
<1>2. Owner!Close(d)
  BY <1>1 DEF OwnerShape, Owner!Close
<1> QED BY <1>2 DEF Owner!Next

LEMMA OwnerStep ==
  ASSUME TypeOK, LockInv, OwnershipInv, OwnerShape, OwnerShape', [Next]_vars
  PROVE  [Owner!Next]_(Owner!vars)
<1> USE DEF TypeOK, Open, OpenLabels, Goto, shared, local
<1>1. ASSUME NEW d \in Daemons, Listen(d) PROVE [Owner!Next]_(Owner!vars)
  <2>1. \A e \in Daemons : ~Open(e)
    BY <1>1 DEF Listen, OwnershipInv, PathInv, FreshInv, HasSocket
  <2>2. Open(d)'
    BY <1>1 DEF Listen
  <2>3. Owner!Open(d)
    BY <2>1, <2>2 DEF OwnerShape, Owner!Open
  <2> QED BY <2>3 DEF Owner!Next
<1>2. ASSUME NEW d \in Daemons, CloseListener(d) \/ ChmodFails(d)
      PROVE  [Owner!Next]_(Owner!vars)
  <2>1. Open(d) /\ \A e \in Daemons : Open(e)' <=> Open(e) /\ e # d
    BY <1>2 DEF CloseListener, ChmodFails
  <2> QED BY <2>1, OwnerCloses
<1>3. ASSUME NEW d \in Daemons, NEW p \in Daemons, NEW label \in {"killed", "waitOld"},
             KilledBy(d, p, label), pc[d] \notin OpenLabels \/ d = p
      PROVE  [Owner!Next]_(Owner!vars)
  <2>1. \A e \in Daemons : Open(e)' <=> Open(e) /\ e # p
    BY <1>3 DEF KilledBy
  <2>2. CASE Open(p)
    BY <2>1, <2>2, OwnerCloses
  <2>3. CASE ~Open(p)
    <3>1. \A e \in Daemons : Open(e) <=> Open(e)'
      BY <2>1, <2>3
    <3> QED BY <3>1, OwnerStutters
  <2> QED BY <2>2, <2>3
<1>4. ASSUME NEW d \in Daemons, Crash(d) PROVE [Owner!Next]_(Owner!vars)
  BY <1>4, <1>3 DEF Crash
<1>5. ASSUME NEW d \in Daemons, SignalDaemon(d)
      PROVE  [Owner!Next]_(Owner!vars)
  <2>1. CASE handler[target[d]]
    <3>1. \A e \in Daemons : Open(e) <=> Open(e)'
      BY <1>5, <2>1 DEF SignalDaemon
    <3> QED BY <3>1, OwnerStutters
  <2>2. CASE ~handler[target[d]]
    <3>1. target[d] \in Daemons
      BY <1>5 DEF SignalDaemon, Processes
    <3>2. KilledBy(d, target[d], "waitOld") /\ pc[d] \notin OpenLabels
      BY <1>5, <2>2 DEF SignalDaemon
    <3> QED BY <3>1, <3>2, <1>3
  <2> QED BY <2>1, <2>2
\* The other steps move d between labels on the same side of OpenLabels.
<1>6. ASSUME NEW d \in Daemons,
             Launch(d) \/ StatPID(d) \/ StatSocket(d) \/ ReadPID(d) \/
             SignalFails(d) \/ SignalOld(d) \/ EndWait(d) \/ StartLock(d) \/
             StartLockTimeout(d) \/ ProbeSocket(d) \/ Refuse(d) \/
             StartFails(d) \/ UnlinkStale(d) \/ Bind(d)
      PROVE  [Owner!Next]_(Owner!vars)
  <2>1. \A e \in Daemons : Open(e) <=> Open(e)'
    BY <1>6 DEF Launch, StatPID, StatSocket, ReadPID, SignalFails, SignalOld,
         EndWait, StartLock, AcquireLock, StartLockTimeout, ProbeSocket,
         Refuse, StartFails, UnlinkStale, Bind
  <2> QED BY <2>1, OwnerStutters
<1>7. ASSUME NEW d \in Daemons,
             FinishBind(d) \/ WritePID(d) \/ InstallHandler(d) \/
             FinishStart(d) \/ PostShutdown(d) \/ SignalOrIdle(d) \/
             HandlerEnds(d) \/ StopLock(d) \/ StopLockFails(d) \/
             KeepFile(d) \/ StatOwn(d) \/ UnlinkOwn(d) \/
             RemovePID(d)
      PROVE  [Owner!Next]_(Owner!vars)
  <2>1. \A e \in Daemons : Open(e) <=> Open(e)'
    BY <1>7 DEF FinishBind, WritePID, InstallHandler, FinishStart,
         PostShutdown, SignalOrIdle, HandlerEnds, StopLock, AcquireLock,
         StopLockFails, KeepFile, StatOwn, UnlinkOwn, RemovePID
  <2> QED BY <2>1, OwnerStutters
<1>8. CASE OldExits \/ UNCHANGED vars
  <2>1. \A e \in Daemons : Open(e) <=> Open(e)'
    BY <1>8 DEF OldExits, vars
  <2> QED BY <2>1, OwnerStutters
<1> QED
  BY <1>1, <1>2, <1>4, <1>5, <1>6, <1>7, <1>8
     DEF Next, StartStep, StopStep, Finished

\* The daemons' sharing of the socket implements single ownership: what a
\* client reaches changes only by its own owner leaving and another one, once
\* nobody listens, coming.
THEOREM ImplementsOwner == ASSUME ~InodeReuse PROVE Spec => OwnerSpec
<1>1. Init => Owner!Init
  BY DEF Init, Owner!Init, Listeners, Reached, DialConnects, Open, OpenLabels
<1>2. TypeOK /\ LockInv /\ OwnershipInv /\ OwnerShape /\ OwnerShape' /\ [Next]_vars
        => [Owner!Next]_(Owner!vars)
  BY OwnerStep
<1>3. OwnershipInv => OwnerShape
  BY ShapeHolds
<1> QED
  BY <1>1, <1>2, <1>3, TypeCorrect, LockCorrect, Ownership, PTL DEF Spec, OwnerSpec, Owner!Spec
=============================================================================
