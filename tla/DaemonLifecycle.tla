-------------------------- MODULE DaemonLifecycle --------------------------
(***************************************************************************)
(* Start, run, stop and death of the feed daemon, as several `hookwise     *)
(* daemon run` processes share one state directory: the socket file, the   *)
(* flock that arbitrates it (internal/feeds/socket.go) and the PID file    *)
(* with the migration of the old PID-only daemon (internal/feeds/          *)
(* daemon.go). Each system call on shared state is a step of its own.      *)
(*                                                                         *)
(* A process runs once; a restart is another member of Daemons. The        *)
(* process stands for its PID. The arbitration lock is a flock: the kernel *)
(* drops it, and closes the listener, when the process dies, but the       *)
(* socket file and the PID file stay.                                      *)
(***************************************************************************)
CONSTANTS
  Daemons,     \* processes that may run `hookwise daemon run`
  Inodes,      \* identities (device, inode) a socket file can have
  None,        \* no file, no process, no identity
  Old,         \* a PID-only daemon of an earlier release
  InodeReuse   \* may the file system give a new file a freed inode number?
               \* (TRUE: ext4; FALSE: APFS, tmpfs)

ASSUME ConstantsAssumption ==
  /\ None \notin Daemons \cup Inodes \cup {Old}
  /\ Old \notin Daemons
  /\ InodeReuse \in BOOLEAN

VARIABLES
  socketFile,  \* inode of the file at socketPath, None when absent
  pidFile,     \* the process named in daemon.pid, None when absent
  lockHolder,  \* the process that holds the flock on socketPath+".lock"
  used,        \* history: inodes that were ever bound
  oldAlive,    \* is the PID-only daemon running?
  pc,          \* where each process is
  ino,         \* inode the process bound, None before it binds
  boundInfo,   \* identity SocketServer.Start captured, None when stat failed
  target,      \* PID migrateOldDaemon read from the PID file
  stopping,    \* stopCh is closed
  handler      \* SIGTERM goes to installSignalHandler's channel

shared == <<socketFile, pidFile, lockHolder, used, oldAlive>>
local  == <<pc, ino, boundInfo, target, stopping, handler>>
vars   == <<shared, local>>

Processes == Daemons \cup {Old}

\* Start, one label per step on shared state.
MigrateLabels == {"statPID", "statSocket", "readPID", "signalOld", "waitOld"}
StartLockLabels == {"probe", "unlinkStale", "bind", "listen", "identify"}
StopLockLabels == {"statOwn", "unlinkOwn"}
\* SocketServer.Start has called listen(2) and nothing has closed it yet.
OpenLabels == {"identify", "writePID", "install", "feeds", "running"}
DeadLabels == {"exited", "refused", "lockTimeout", "failed", "killed"}
Labels == {"off", "lock", "stopLock", "drain"}
            \cup MigrateLabels \cup StartLockLabels \cup StopLockLabels
            \cup OpenLabels \cup DeadLabels

Goto(d, label) == pc' = [pc EXCEPT ![d] = label]
Open(d) == pc[d] \in OpenLabels
Running(d) == pc[d] \notin DeadLabels \cup {"off"}
Alive(p) == IF p = Old THEN oldAlive ELSE Running(p)

\* Dialling the socket file connects: some process listens on its inode.
DialConnects == \E d \in Daemons : Open(d) /\ ino[d] = socketFile

Init ==
  /\ socketFile = None
  /\ lockHolder = None
  /\ used = {}
  /\ oldAlive \in BOOLEAN
  /\ pidFile \in {None, Old}
  /\ oldAlive => pidFile = Old
  /\ pc = [d \in Daemons |-> "off"]
  /\ ino = [d \in Daemons |-> None]
  /\ boundInfo = [d \in Daemons |-> None]
  /\ target = [d \in Daemons |-> None]
  /\ stopping = [d \in Daemons |-> FALSE]
  /\ handler = [d \in Daemons |-> FALSE]

-----------------------------------------------------------------------------
(* Daemon.Start: migrateOldDaemon (MIGRATE-1).                             *)

\* `hookwise daemon run` begins; NewDaemon and Start touch nothing shared.
Launch(d) ==
  /\ pc[d] = "off"
  /\ Goto(d, "statPID")
  /\ UNCHANGED <<shared, ino, boundInfo, target, stopping, handler>>

StatPID(d) ==
  /\ pc[d] = "statPID"
  /\ Goto(d, IF pidFile = None THEN "lock" ELSE "statSocket")
  /\ UNCHANGED <<shared, ino, boundInfo, target, stopping, handler>>

\* A socket file means a new-style daemon: nothing to migrate.
StatSocket(d) ==
  /\ pc[d] = "statSocket"
  /\ Goto(d, IF socketFile # None THEN "lock" ELSE "readPID")
  /\ UNCHANGED <<shared, ino, boundInfo, target, stopping, handler>>

\* Fault: the result 0 of readPID is not checked.
ReadPIDUnchecked(d) ==
  /\ pc[d] = "readPID"
  /\ target' = [target EXCEPT ![d] = pidFile]
  /\ Goto(d, "signalOld")
  /\ UNCHANGED <<shared, ino, boundInfo, stopping, handler>>

\* readPID returns 0 when the file is gone; the PID file is removed by path
\* when it holds no PID or the PID of a dead process.
ReadPID(d) ==
  /\ pc[d] = "readPID"
  /\ IF pidFile # None /\ Alive(pidFile)
       THEN /\ target' = [target EXCEPT ![d] = pidFile]
            /\ Goto(d, "signalOld")
            /\ UNCHANGED pidFile
       ELSE /\ pidFile' = None
            /\ Goto(d, "lock")
            /\ UNCHANGED target
  /\ UNCHANGED <<socketFile, lockHolder, used, oldAlive, ino, boundInfo,
                 stopping, handler>>

\* The process p dies without cleaning up while d moves on to label.
KilledBy(d, p, label) ==
  /\ pc' = [pc EXCEPT ![p] = "killed", ![d] = label]
  /\ lockHolder' = IF lockHolder = p THEN None ELSE lockHolder

\* kill(pid, SIGTERM) fails: the PID died since it was read.
SignalFails(d) ==
  /\ pc[d] = "signalOld"
  /\ ~Alive(target[d])
  /\ pidFile' = None
  /\ Goto(d, "lock")
  /\ UNCHANGED <<socketFile, lockHolder, used, oldAlive, ino, boundInfo,
                 target, stopping, handler>>

\* SIGTERM reaches the PID-only daemon; it exits in its own time.
SignalOld(d) ==
  /\ pc[d] = "signalOld"
  /\ target[d] = Old /\ oldAlive
  /\ Goto(d, "waitOld")
  /\ UNCHANGED <<shared, ino, boundInfo, target, stopping, handler>>

\* SIGTERM reaches a process that runs this release: its handler closes
\* stopCh, or, when no handler is installed, the default action kills it.
SignalDaemon(d) ==
  /\ pc[d] = "signalOld"
  /\ LET p == target[d] IN
       /\ p # Old /\ Running(p)
       /\ IF handler[p]
            THEN /\ stopping' = [stopping EXCEPT ![p] = TRUE]
                 /\ Goto(d, "waitOld")
                 /\ UNCHANGED lockHolder
            ELSE /\ KilledBy(d, p, "waitOld")
                 /\ UNCHANGED stopping
  /\ UNCHANGED <<socketFile, pidFile, used, oldAlive, ino, boundInfo, target,
                 handler>>

\* Fault: the wait for the signalled process has no deadline.
EndWaitWhenDead(d) ==
  /\ pc[d] = "waitOld" /\ ~Alive(target[d])
  /\ pidFile' = None
  /\ Goto(d, "lock")
  /\ UNCHANGED <<socketFile, lockHolder, used, oldAlive, ino, boundInfo,
                 target, stopping, handler>>

\* The wait ends when the PID is gone or after 3 seconds; either way the PID
\* file is removed, whoever's it is by now.
EndWait(d) ==
  /\ pc[d] = "waitOld"
  /\ pidFile' = None
  /\ Goto(d, "lock")
  /\ UNCHANGED <<socketFile, lockHolder, used, oldAlive, ino, boundInfo,
                 target, stopping, handler>>

\* The PID-only daemon exits and removes its PID file.
OldExits ==
  /\ oldAlive
  /\ oldAlive' = FALSE
  /\ pidFile' = None
  /\ UNCHANGED <<socketFile, lockHolder, used, local>>

-----------------------------------------------------------------------------
(* SocketServer.Start: detect, remove, bind under the arbitration lock.    *)

\* Fault: a shared lock.
AcquireShared(d, from, to) ==
  /\ pc[d] = from
  /\ lockHolder' = d
  /\ Goto(d, to)
  /\ UNCHANGED <<socketFile, pidFile, used, oldAlive, ino, boundInfo, target,
                 stopping, handler>>

AcquireLock(d, from, to) ==
  /\ pc[d] = from
  /\ lockHolder = None
  /\ lockHolder' = d
  /\ Goto(d, to)
  /\ UNCHANGED <<socketFile, pidFile, used, oldAlive, ino, boundInfo, target,
                 stopping, handler>>

StartLock(d) == AcquireLock(d, "lock", "probe")

\* 5 seconds passed with another process holding the lock: Start fails.
StartLockTimeout(d) ==
  /\ pc[d] = "lock"
  /\ lockHolder # None
  /\ Goto(d, "lockTimeout")
  /\ UNCHANGED <<shared, ino, boundInfo, target, stopping, handler>>

\* Fault: any file is taken for stale.
ProbeWithoutDial(d) ==
  /\ pc[d] = "probe"
  /\ Goto(d, IF socketFile = None THEN "bind" ELSE "unlinkStale")
  /\ UNCHANGED <<shared, ino, boundInfo, target, stopping, handler>>

\* No file: bind. A file nobody answers on: stale.
ProbeSocket(d) ==
  /\ pc[d] = "probe"
  /\ ~DialConnects
  /\ Goto(d, IF socketFile = None THEN "bind" ELSE "unlinkStale")
  /\ UNCHANGED <<shared, ino, boundInfo, target, stopping, handler>>

\* Fault: any file is taken for a running server.
RefuseAnyFile(d) ==
  /\ pc[d] = "probe"
  /\ socketFile # None
  /\ lockHolder' = None
  /\ Goto(d, "refused")
  /\ UNCHANGED <<socketFile, pidFile, used, oldAlive, ino, boundInfo, target,
                 stopping, handler>>

\* The dial connects: another server is running and Start fails.
Refuse(d) ==
  /\ pc[d] = "probe"
  /\ DialConnects
  /\ lockHolder' = None
  /\ Goto(d, "refused")
  /\ UNCHANGED <<socketFile, pidFile, used, oldAlive, ino, boundInfo, target,
                 stopping, handler>>

\* A system call of Start fails: the state directory cannot be made, the lock
\* file not opened or flocked ("lock"); stat fails and bind finds the address
\* in use ("probe"); the stale file cannot be removed; bind or listen fails.
\* Whatever file the path holds stays there.
StartFails(d) ==
  /\ pc[d] \in {"lock", "probe", "unlinkStale", "bind", "listen"}
  /\ lockHolder' = IF lockHolder = d THEN None ELSE lockHolder
  /\ Goto(d, "failed")
  /\ UNCHANGED <<socketFile, pidFile, used, oldAlive, ino, boundInfo, target,
                 stopping, handler>>

UnlinkStale(d) ==
  /\ pc[d] = "unlinkStale"
  /\ socketFile' = None
  /\ Goto(d, "bind")
  /\ UNCHANGED <<pidFile, lockHolder, used, oldAlive, ino, boundInfo, target,
                 stopping, handler>>

\* An inode number is free for a new file when no open socket refers to it
\* and, unless the file system reuses numbers, no file ever had it.
FreeInode(i) ==
  /\ i # socketFile
  /\ \A e \in Daemons : Open(e) \/ pc[e] = "listen" => ino[e] # i
  /\ InodeReuse \/ i \notin used

\* bind(2) creates the file; it does not accept connections yet.
Bind(d) ==
  /\ pc[d] = "bind"
  /\ socketFile = None
  /\ \E i \in Inodes :
       /\ FreeInode(i)
       /\ socketFile' = i
       /\ ino' = [ino EXCEPT ![d] = i]
       /\ used' = used \cup {i}
  /\ Goto(d, "listen")
  /\ UNCHANGED <<pidFile, lockHolder, oldAlive, boundInfo, target, stopping,
                 handler>>

Listen(d) ==
  /\ pc[d] = "listen"
  /\ Goto(d, "identify")
  /\ UNCHANGED <<shared, ino, boundInfo, target, stopping, handler>>

\* stat captures the identity of the file at the path (or fails, which leaves
\* boundInfo nil), chmod succeeds, Serve runs, the lock is released.
FinishBind(d) ==
  /\ pc[d] = "identify"
  /\ \E info \in {socketFile, None} : boundInfo' = [boundInfo EXCEPT ![d] = info]
  /\ lockHolder' = None
  /\ Goto(d, "writePID")
  /\ UNCHANGED <<socketFile, pidFile, used, oldAlive, ino, target, stopping,
                 handler>>

\* chmod fails: the listener is closed, the file removed, unless that fails
\* too, and Start fails.
ChmodFails(d) ==
  /\ pc[d] = "identify"
  /\ socketFile' \in {None, socketFile}
  /\ lockHolder' = None
  /\ Goto(d, "failed")
  /\ UNCHANGED <<pidFile, used, oldAlive, ino, boundInfo, target, stopping,
                 handler>>

-----------------------------------------------------------------------------
(* The rest of Start, then `daemon run` waits for stopCh.                  *)

\* A failed write is logged and ignored.
WritePID(d) ==
  /\ pc[d] = "writePID"
  /\ pidFile' \in {d, pidFile}
  /\ Goto(d, "install")
  /\ UNCHANGED <<socketFile, lockHolder, used, oldAlive, ino, boundInfo,
                 target, stopping, handler>>

\* installSignalHandler and startIdleMonitor.
InstallHandler(d) ==
  /\ pc[d] = "install"
  /\ handler' = [handler EXCEPT ![d] = TRUE]
  /\ Goto(d, "feeds")
  /\ UNCHANGED <<shared, ino, boundInfo, target, stopping>>

\* Fault: stopCh is made anew when the feeds have started.
FinishStartAfresh(d) ==
  /\ pc[d] = "feeds"
  /\ Goto(d, "running")
  /\ stopping' = [stopping EXCEPT ![d] = FALSE]
  /\ UNCHANGED <<shared, ino, boundInfo, target, handler>>

\* runAllFeeds starts the feeds one by one, with a pause between them, and
\* does not look at stopCh: the wait for stopCh begins when all are started.
FinishStart(d) ==
  /\ pc[d] = "feeds"
  /\ Goto(d, "running")
  /\ UNCHANGED <<shared, ino, boundInfo, target, stopping, handler>>

\* POST /shutdown closes stopCh; it arrives at the process the path leads to,
\* from the moment Serve runs.
PostShutdown(d) ==
  /\ Open(d) /\ pc[d] # "identify"
  /\ ino[d] = socketFile
  /\ stopping' = [stopping EXCEPT ![d] = TRUE]
  /\ UNCHANGED <<shared, pc, ino, boundInfo, target, handler>>

\* SIGTERM or SIGINT from the user, or the idle timer, closes stopCh.
SignalOrIdle(d) ==
  /\ handler[d] /\ Running(d)
  /\ stopping' = [stopping EXCEPT ![d] = TRUE]
  /\ UNCHANGED <<shared, pc, ino, boundInfo, target, handler>>

\* The signal goroutine sees stopCh closed, calls signal.Stop and ends: from
\* here on SIGTERM has its default action again.
HandlerEnds(d) ==
  /\ handler[d] /\ stopping[d] /\ Running(d)
  /\ handler' = [handler EXCEPT ![d] = FALSE]
  /\ UNCHANGED <<shared, pc, ino, boundInfo, target, stopping>>

-----------------------------------------------------------------------------
(* Daemon.Stop.                                                            *)

\* http.Server.Shutdown closes the listener before anything else.
CloseListener(d) ==
  /\ pc[d] = "running"
  /\ stopping[d]
  /\ Goto(d, "stopLock")
  /\ UNCHANGED <<shared, ino, boundInfo, target, stopping, handler>>

StopLock(d) == AcquireLock(d, "stopLock", "statOwn")

\* 2 seconds passed, or the lock file cannot be opened or flocked: the socket
\* file is left for the next Start to reclaim.
StopLockFails(d) ==
  /\ pc[d] = "stopLock"
  /\ Goto(d, "drain")
  /\ UNCHANGED <<shared, ino, boundInfo, target, stopping, handler>>

\* Fault: the file is removed by path, whoever bound it.
OwnsAnyFile(d) == socketFile # None

\* os.SameFile(boundInfo, stat): the path is still the file this process bound.
OwnsFile(d) == boundInfo[d] # None /\ socketFile = boundInfo[d]

\* The file is another one, or none, or stat fails.
KeepFile(d) ==
  /\ pc[d] = "statOwn"
  /\ lockHolder' = None
  /\ Goto(d, "drain")
  /\ UNCHANGED <<socketFile, pidFile, used, oldAlive, ino, boundInfo, target,
                 stopping, handler>>

StatOwn(d) ==
  /\ pc[d] = "statOwn"
  /\ OwnsFile(d)
  /\ Goto(d, "unlinkOwn")
  /\ UNCHANGED <<shared, ino, boundInfo, target, stopping, handler>>

\* A failed remove is only reported.
UnlinkOwn(d) ==
  /\ pc[d] = "unlinkOwn"
  /\ socketFile' \in {None, socketFile}
  /\ lockHolder' = None
  /\ Goto(d, "drain")
  /\ UNCHANGED <<pidFile, used, oldAlive, ino, boundInfo, target, stopping,
                 handler>>

\* Every goroutine ended, or 10 seconds passed. removePIDFile removes by path,
\* whoever's PID the file holds; then `daemon run` returns.
RemovePID(d) ==
  /\ pc[d] = "drain"
  /\ pidFile' = None
  /\ Goto(d, "exited")
  /\ UNCHANGED <<socketFile, lockHolder, used, oldAlive, ino, boundInfo,
                 target, stopping, handler>>

\* kill -9, a power cut, or SIGTERM while no handler is installed.
Crash(d) ==
  /\ Running(d)
  /\ KilledBy(d, d, "killed")
  /\ UNCHANGED <<socketFile, pidFile, used, oldAlive, ino, boundInfo, target,
                 stopping, handler>>

-----------------------------------------------------------------------------
StartStep(d) ==
  \/ StatPID(d) \/ StatSocket(d) \/ ReadPID(d)
  \/ SignalFails(d) \/ SignalOld(d) \/ SignalDaemon(d) \/ EndWait(d)
  \/ StartLock(d) \/ StartLockTimeout(d) \/ ProbeSocket(d) \/ Refuse(d)
  \/ StartFails(d) \/ UnlinkStale(d) \/ Bind(d) \/ Listen(d) \/ FinishBind(d)
  \/ ChmodFails(d)
  \/ WritePID(d) \/ InstallHandler(d) \/ FinishStart(d)

StopStep(d) ==
  \/ HandlerEnds(d) \/ CloseListener(d)
  \/ StopLock(d) \/ StopLockFails(d) \/ KeepFile(d) \/ StatOwn(d)
  \/ UnlinkOwn(d) \/ RemovePID(d)

Finished ==
  /\ \A d \in Daemons : pc[d] \in DeadLabels
  /\ UNCHANGED vars

Next ==
  \/ \E d \in Daemons :
       \/ Launch(d) \/ StartStep(d) \/ StopStep(d)
       \/ PostShutdown(d) \/ SignalOrIdle(d) \/ Crash(d)
  \/ OldExits
  \/ Finished

\* A process that runs keeps taking the steps of its own code. Nobody has to
\* launch, stop or kill a daemon, and the PID-only daemon may ignore SIGTERM.
Fairness == \A d \in Daemons : WF_vars(StartStep(d)) /\ WF_vars(StopStep(d))

Spec == Init /\ [][Next]_vars
FairSpec == Spec /\ Fairness

-----------------------------------------------------------------------------
(* Correctness.                                                            *)

\* Every variable has its type, and a migrating process that has got as far
\* as signalling has read a real PID, never the "no PID" of a missing file.
TypeOK ==
  /\ socketFile \in Inodes \cup {None}
  /\ pidFile \in Processes \cup {None}
  /\ lockHolder \in Daemons \cup {None}
  /\ used \subseteq Inodes
  /\ oldAlive \in BOOLEAN
  /\ pc \in [Daemons -> Labels]
  /\ ino \in [Daemons -> Inodes \cup {None}]
  /\ boundInfo \in [Daemons -> Inodes \cup {None}]
  /\ target \in [Daemons -> Processes \cup {None}]
  /\ stopping \in [Daemons -> BOOLEAN]
  /\ handler \in [Daemons -> BOOLEAN]
  /\ \A d \in Daemons : pc[d] \in {"signalOld", "waitOld"} => target[d] # None

\* The flock: a process is between taking the lock and releasing it exactly
\* when it is the holder, through timeouts, early returns and crashes.
LockInv ==
  \A d \in Daemons :
    pc[d] \in StartLockLabels \cup StopLockLabels <=> lockHolder = d

\* A listening daemon is the one its socket path leads to: neither a starting
\* daemon that takes the file for stale nor a stopping predecessor that takes
\* it for its own ever unlinks it (SocketServer.Start and Shutdown).
ListenerReachable == \A d \in Daemons : Open(d) => socketFile = ino[d]

\* Single instance (SOCKET-1) across crashes, restarts and slow shutdowns.
SingleInstance == \A d, e \in Daemons : Open(d) /\ Open(e) => d = e

\* The socket implements the abstract single-owner promise.
Listeners == {d \in Daemons : Open(d)}
Reached == IF DialConnects
             THEN CHOOSE d \in Daemons : Open(d) /\ ino[d] = socketFile
             ELSE None
Owner == INSTANCE SocketOwner WITH listening <- Listeners, reached <- Reached
OwnerSpec == Owner!Spec

\* A process that was launched ends up serving or ends: no wait of Start or
\* Stop lasts for ever, whoever else dies or stops holding the lock. And a stop
\* request is carried out, also when it arrives during Start.
Settles ==
  \A d \in Daemons :
    /\ pc[d] # "off" ~> (pc[d] \in DeadLabels \/ (pc[d] = "running" /\ ~stopping[d]))
    /\ stopping[d] ~> pc[d] \in DeadLabels

\* Start never gives up because of what a dead predecessor left behind: once
\* launched, a daemon leads to a moment when some daemon answers at the socket,
\* unless it dies ("killed"), waits 5 seconds for the lock in vain
\* ("lockTimeout") or one of its own system calls fails ("failed": making the
\* directory, opening or flocking the lock file, removing a stale socket file,
\* bind, listen or chmod).
LaunchLeadsToService ==
  \A d \in Daemons :
    pc[d] = "statPID" ~>
      DialConnects \/ pc[d] \in {"killed", "lockTimeout", "failed"}
=============================================================================
