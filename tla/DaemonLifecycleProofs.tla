----------------------- MODULE DaemonLifecycleProofs -----------------------
(***************************************************************************)
(* For any number of daemons, terminals and runs: while no two daemons     *)
(* have been inside LockFile::acquire at once, at most one holds the lock, *)
(* the CLI reaches the one that serves, and reconciliation fails what dead *)
(* daemons left and nothing else.                                          *)
(***************************************************************************)
EXTENDS DaemonLifecycle, TLAPS

Quiet == UNCHANGED <<pc, files, seen, table, todo, overlap>>

\* The steps that touch neither a process nor a file nor the task table.
LEMMA QuietSteps ==
  ASSUME \/ UNCHANGED vars
         \/ \E d \in Daemons : Interrupt(d) \/ Recycle(d)
         \/ \E c \in Clients : UpPing(c) \/ UpSpawnFails(c) \/ Down(c)
  PROVE  Quiet
BY DEF Quiet, vars, files, table, Interrupt, Recycle, UpPing, UpSpawnFails, Down

\* Every step keeps the types.
LEMMA TypeStep == TypeOK /\ [Next]_vars => TypeOK'
<1> SUFFICES ASSUME TypeOK, [Next]_vars PROVE TypeOK'
  OBVIOUS
<1> USE DaemonAssumption DEF TypeOK, vars, Go, files, table, Phase, Held, Starting, Acquiring, Driving, Ended
<1>1. ASSUME NEW d \in Daemons, ReadLock(d) PROVE TypeOK'
  BY <1>1 DEF ReadLock
<1>2. ASSUME NEW d \in Daemons, JudgeLock(d) PROVE TypeOK'
  BY <1>2 DEF JudgeLock, PidAlive, Living
<1>3. ASSUME NEW d \in Daemons, TruncateLock(d) PROVE TypeOK'
  BY <1>3 DEF TruncateLock
<1>4. ASSUME NEW d \in Daemons, WriteLock(d) PROVE TypeOK'
  BY <1>4 DEF WriteLock
<1>5. ASSUME NEW d \in Daemons, ListTasks(d) PROVE TypeOK'
  BY <1>5 DEF ListTasks, Active
<1>6. ASSUME NEW d \in Daemons, UnlinkSocket(d) PROVE TypeOK'
  BY <1>6 DEF UnlinkSocket
<1>7. ASSUME NEW d \in Daemons, Bind(d) PROVE TypeOK'
  BY <1>7 DEF Bind, FailStart
<1>8. ASSUME NEW d \in Daemons, LeaveLoop(d) PROVE TypeOK'
  BY <1>8 DEF LeaveLoop
<1>9. ASSUME NEW d \in Daemons, RemoveSocket(d) PROVE TypeOK'
  BY <1>9 DEF RemoveSocket
<1>10. ASSUME NEW d \in Daemons, DropLock(d) PROVE TypeOK'
  BY <1>10 DEF DropLock
<1>11. ASSUME NEW d \in Daemons, Exit(d) PROVE TypeOK'
  BY <1>11 DEF Exit
<1>12. ASSUME NEW d \in Daemons, StartupFails(d) PROVE TypeOK'
  BY <1>12 DEF StartupFails, FailStart
<1>13. ASSUME NEW d \in Daemons, AcceptFails(d) PROVE TypeOK'
  BY <1>13 DEF AcceptFails
<1>14. ASSUME NEW d \in Daemons, Crash(d) PROVE TypeOK'
  BY <1>14 DEF Crash, Living
<1>15. ASSUME NEW d \in Daemons, NEW r \in Runs, Reconcile(d, r) PROVE TypeOK'
  BY <1>15 DEF Reconcile, Active, FailStart
<1>16. ASSUME NEW c \in Clients, UpSpawn(c) PROVE TypeOK'
  BY <1>16 DEF UpSpawn
<1>17. ASSUME NEW r \in Runs, StartRun(r) PROVE TypeOK'
  BY <1>17 DEF StartRun, Driving
<1>18. ASSUME NEW r \in Runs, FinishRun(r) PROVE TypeOK'
  BY <1>18 DEF FinishRun, Active
<1>19. CASE \E d \in Daemons : Interrupt(d) \/ Recycle(d)
  BY <1>19 DEF Interrupt, Recycle
<1>20. CASE \E c \in Clients : UpPing(c) \/ UpSpawnFails(c) \/ Down(c)
  BY <1>20 DEF UpPing, UpSpawnFails, Down, Answering
<1>21. CASE UNCHANGED vars
  BY <1>21 DEF vars
<1> QED BY <1>1, <1>2, <1>3, <1>4, <1>5, <1>6, <1>7, <1>8, <1>9, <1>10,
          <1>11, <1>12, <1>13, <1>14, <1>15, <1>16, <1>17, <1>18, <1>19, <1>20, <1>21 DEF Next, DaemonStep

\* At most one daemon is inside acquire or past it, and the file says who.
LEMMA LockStep == TypeOK /\ (~ overlap => LockInv) /\ [Next]_vars => (~ overlap => LockInv)'
<1> SUFFICES ASSUME TypeOK, (~ overlap => LockInv), [Next]_vars PROVE (~ overlap => LockInv)'
  OBVIOUS
<1> USE DaemonAssumption DEF TypeOK, LockInv, Go, files, table, Phase, Held, Starting, Acquiring, Driving, Ended
<1>1. ASSUME NEW d \in Daemons, ReadLock(d) PROVE (~ overlap => LockInv)'
  BY <1>1 DEF ReadLock
<1>2. ASSUME NEW d \in Daemons, JudgeLock(d) PROVE (~ overlap => LockInv)'
  BY <1>2 DEF JudgeLock, PidAlive, Living
<1>3. ASSUME NEW d \in Daemons, TruncateLock(d) PROVE (~ overlap => LockInv)'
  BY <1>3 DEF TruncateLock
<1>4. ASSUME NEW d \in Daemons, WriteLock(d) PROVE (~ overlap => LockInv)'
  BY <1>4 DEF WriteLock
<1>5. ASSUME NEW d \in Daemons, ListTasks(d) PROVE (~ overlap => LockInv)'
  BY <1>5 DEF ListTasks, Active
<1>6. ASSUME NEW d \in Daemons, UnlinkSocket(d) PROVE (~ overlap => LockInv)'
  BY <1>6 DEF UnlinkSocket
<1>7. ASSUME NEW d \in Daemons, Bind(d) PROVE (~ overlap => LockInv)'
  BY <1>7 DEF Bind, FailStart
<1>8. ASSUME NEW d \in Daemons, LeaveLoop(d) PROVE (~ overlap => LockInv)'
  BY <1>8 DEF LeaveLoop
<1>9. ASSUME NEW d \in Daemons, RemoveSocket(d) PROVE (~ overlap => LockInv)'
  BY <1>9 DEF RemoveSocket
<1>10. ASSUME NEW d \in Daemons, DropLock(d) PROVE (~ overlap => LockInv)'
  BY <1>10 DEF DropLock
<1>11. ASSUME NEW d \in Daemons, Exit(d) PROVE (~ overlap => LockInv)'
  BY <1>11 DEF Exit
<1>12. ASSUME NEW d \in Daemons, StartupFails(d) PROVE (~ overlap => LockInv)'
  BY <1>12 DEF StartupFails, FailStart
<1>13. ASSUME NEW d \in Daemons, AcceptFails(d) PROVE (~ overlap => LockInv)'
  BY <1>13 DEF AcceptFails
<1>14. ASSUME NEW d \in Daemons, Crash(d) PROVE (~ overlap => LockInv)'
  BY <1>14 DEF Crash, Living
<1>15. ASSUME NEW d \in Daemons, NEW r \in Runs, Reconcile(d, r) PROVE (~ overlap => LockInv)'
  BY <1>15 DEF Reconcile, Active, FailStart
<1>16. ASSUME NEW c \in Clients, UpSpawn(c) PROVE (~ overlap => LockInv)'
  BY <1>16 DEF UpSpawn
<1>17. ASSUME NEW r \in Runs, StartRun(r) PROVE (~ overlap => LockInv)'
  BY <1>17 DEF StartRun, Driving
<1>18. ASSUME NEW r \in Runs, FinishRun(r) PROVE (~ overlap => LockInv)'
  BY <1>18 DEF FinishRun, Active
<1>19. CASE Quiet
  BY <1>19 DEF Quiet
<1> QED BY <1>1, <1>2, <1>3, <1>4, <1>5, <1>6, <1>7, <1>8, <1>9, <1>10,
          <1>11, <1>12, <1>13, <1>14, <1>15, <1>16, <1>17, <1>18, <1>19, QuietSteps DEF Next, DaemonStep

\* Nobody but the one daemon that holds the lock touches the socket.
LEMMA ServerStep == TypeOK /\ (~ overlap => LockInv) /\ ServerReachable /\ [Next]_vars => ServerReachable'
<1> SUFFICES ASSUME TypeOK, (~ overlap => LockInv), ServerReachable, [Next]_vars PROVE ServerReachable'
  OBVIOUS
<1> USE DaemonAssumption DEF TypeOK, LockInv, ServerReachable, Go, files, table, Phase, Held, Starting, Acquiring, Driving, Ended
<1>1. ASSUME NEW d \in Daemons, ReadLock(d) PROVE ServerReachable'
  BY <1>1 DEF ReadLock
<1>2. ASSUME NEW d \in Daemons, JudgeLock(d) PROVE ServerReachable'
  BY <1>2 DEF JudgeLock, PidAlive, Living
<1>3. ASSUME NEW d \in Daemons, TruncateLock(d) PROVE ServerReachable'
  BY <1>3 DEF TruncateLock
<1>4. ASSUME NEW d \in Daemons, WriteLock(d) PROVE ServerReachable'
  BY <1>4 DEF WriteLock
<1>5. ASSUME NEW d \in Daemons, ListTasks(d) PROVE ServerReachable'
  BY <1>5 DEF ListTasks, Active
<1>6. ASSUME NEW d \in Daemons, UnlinkSocket(d) PROVE ServerReachable'
  BY <1>6 DEF UnlinkSocket
<1>7. ASSUME NEW d \in Daemons, Bind(d) PROVE ServerReachable'
  BY <1>7 DEF Bind, FailStart
<1>8. ASSUME NEW d \in Daemons, LeaveLoop(d) PROVE ServerReachable'
  BY <1>8 DEF LeaveLoop
<1>9. ASSUME NEW d \in Daemons, RemoveSocket(d) PROVE ServerReachable'
  BY <1>9 DEF RemoveSocket
<1>10. ASSUME NEW d \in Daemons, DropLock(d) PROVE ServerReachable'
  BY <1>10 DEF DropLock
<1>11. ASSUME NEW d \in Daemons, Exit(d) PROVE ServerReachable'
  BY <1>11 DEF Exit
<1>12. ASSUME NEW d \in Daemons, StartupFails(d) PROVE ServerReachable'
  BY <1>12 DEF StartupFails, FailStart
<1>13. ASSUME NEW d \in Daemons, AcceptFails(d) PROVE ServerReachable'
  BY <1>13 DEF AcceptFails
<1>14. ASSUME NEW d \in Daemons, Crash(d) PROVE ServerReachable'
  BY <1>14 DEF Crash, Living
<1>15. ASSUME NEW d \in Daemons, NEW r \in Runs, Reconcile(d, r) PROVE ServerReachable'
  BY <1>15 DEF Reconcile, Active, FailStart
<1>16. ASSUME NEW c \in Clients, UpSpawn(c) PROVE ServerReachable'
  BY <1>16 DEF UpSpawn
<1>17. ASSUME NEW r \in Runs, StartRun(r) PROVE ServerReachable'
  BY <1>17 DEF StartRun, Driving
<1>18. ASSUME NEW r \in Runs, FinishRun(r) PROVE ServerReachable'
  BY <1>18 DEF FinishRun, Active
<1>19. CASE Quiet
  BY <1>19 DEF Quiet
<1> QED BY <1>1, <1>2, <1>3, <1>4, <1>5, <1>6, <1>7, <1>8, <1>9, <1>10,
          <1>11, <1>12, <1>13, <1>14, <1>15, <1>16, <1>17, <1>18, <1>19, QuietSteps DEF Next, DaemonStep

\* A run belongs to a daemon that has served.
LEMMA OwnerStep == TypeOK /\ OwnerInv /\ [Next]_vars => OwnerInv'
<1> SUFFICES ASSUME TypeOK, OwnerInv, [Next]_vars PROVE OwnerInv'
  OBVIOUS
<1> USE DaemonAssumption DEF TypeOK, OwnerInv, Go, files, table, Phase, Held, Starting, Acquiring, Driving, Ended
<1>1. ASSUME NEW d \in Daemons, ReadLock(d) PROVE OwnerInv'
  BY <1>1 DEF ReadLock
<1>2. ASSUME NEW d \in Daemons, JudgeLock(d) PROVE OwnerInv'
  <2>1. UNCHANGED <<table, todo, overlap>> /\ (Go(d, "refused") \/ Go(d, "taking"))
    BY <1>2 DEF JudgeLock
  <2>2. CASE Go(d, "refused")
    BY <1>2, <2>1, <2>2 DEF JudgeLock
  <2>3. CASE Go(d, "taking")
    BY <1>2, <2>1, <2>3 DEF JudgeLock
  <2> QED BY <2>1, <2>2, <2>3
<1>3. ASSUME NEW d \in Daemons, TruncateLock(d) PROVE OwnerInv'
  BY <1>3 DEF TruncateLock
<1>4. ASSUME NEW d \in Daemons, WriteLock(d) PROVE OwnerInv'
  BY <1>4 DEF WriteLock
<1>5. ASSUME NEW d \in Daemons, ListTasks(d) PROVE OwnerInv'
  BY <1>5 DEF ListTasks, Active
<1>6. ASSUME NEW d \in Daemons, UnlinkSocket(d) PROVE OwnerInv'
  BY <1>6 DEF UnlinkSocket
<1>7. ASSUME NEW d \in Daemons, Bind(d) PROVE OwnerInv'
  <2>1. CASE sock = None
    BY <1>7, <2>1 DEF Bind
  <2>2. CASE sock # None
    BY <1>7, <2>2 DEF Bind, FailStart
  <2> QED BY <2>1, <2>2
<1>8. ASSUME NEW d \in Daemons, LeaveLoop(d) PROVE OwnerInv'
  BY <1>8 DEF LeaveLoop
<1>9. ASSUME NEW d \in Daemons, RemoveSocket(d) PROVE OwnerInv'
  BY <1>9 DEF RemoveSocket
<1>10. ASSUME NEW d \in Daemons, DropLock(d) PROVE OwnerInv'
  BY <1>10 DEF DropLock
<1>11. ASSUME NEW d \in Daemons, Exit(d) PROVE OwnerInv'
  BY <1>11 DEF Exit
<1>12. ASSUME NEW d \in Daemons, StartupFails(d) PROVE OwnerInv'
  BY <1>12 DEF StartupFails, FailStart
<1>13. ASSUME NEW d \in Daemons, AcceptFails(d) PROVE OwnerInv'
  BY <1>13 DEF AcceptFails
<1>14. ASSUME NEW d \in Daemons, Crash(d) PROVE OwnerInv'
  BY <1>14 DEF Crash, Living
<1>15. ASSUME NEW d \in Daemons, NEW r \in Runs, Reconcile(d, r) PROVE OwnerInv'
  <2>1. CASE run[r] \in Active
    BY <1>15, <2>1 DEF Reconcile, Active
  <2>2. CASE run[r] \notin Active
    BY <1>15, <2>2 DEF Reconcile, Active, FailStart
  <2> QED BY <2>1, <2>2
<1>16. ASSUME NEW c \in Clients, UpSpawn(c) PROVE OwnerInv'
  BY <1>16 DEF UpSpawn
<1>17. ASSUME NEW r \in Runs, StartRun(r) PROVE OwnerInv'
  BY <1>17 DEF StartRun, Driving
<1>18. ASSUME NEW r \in Runs, FinishRun(r) PROVE OwnerInv'
  BY <1>18 DEF FinishRun, Active
<1>19. CASE Quiet
  BY <1>19 DEF Quiet
<1> QED BY <1>1, <1>2, <1>3, <1>4, <1>5, <1>6, <1>7, <1>8, <1>9, <1>10,
          <1>11, <1>12, <1>13, <1>14, <1>15, <1>16, <1>17, <1>18, <1>19, QuietSteps DEF Next, DaemonStep

\* Reconciliation misses no active task, and only what serves makes new ones.
LEMMA ListStep == TypeOK /\ (~ overlap => LockInv) /\ OwnerInv /\ ListInv /\ [Next]_vars => ListInv'
<1> SUFFICES ASSUME TypeOK, (~ overlap => LockInv), OwnerInv, ListInv, [Next]_vars PROVE ListInv'
  OBVIOUS
<1> USE DaemonAssumption DEF TypeOK, LockInv, OwnerInv, ListInv, Go, files, table, Phase, Held, Starting, Acquiring, Driving, Ended
<1>1. ASSUME NEW d \in Daemons, ReadLock(d) PROVE ListInv'
  BY <1>1 DEF ReadLock
<1>2. ASSUME NEW d \in Daemons, JudgeLock(d) PROVE ListInv'
  <2>1. UNCHANGED <<table, todo, overlap>> /\ (Go(d, "refused") \/ Go(d, "taking"))
    BY <1>2 DEF JudgeLock
  <2>2. CASE Go(d, "refused")
    BY <1>2, <2>1, <2>2 DEF JudgeLock
  <2>3. CASE Go(d, "taking")
    BY <1>2, <2>1, <2>3 DEF JudgeLock
  <2> QED BY <2>1, <2>2, <2>3
<1>3. ASSUME NEW d \in Daemons, TruncateLock(d) PROVE ListInv'
  BY <1>3 DEF TruncateLock
<1>4. ASSUME NEW d \in Daemons, WriteLock(d) PROVE ListInv'
  BY <1>4 DEF WriteLock
<1>5. ASSUME NEW d \in Daemons, ListTasks(d) PROVE ListInv'
  BY <1>5 DEF ListTasks, Active
<1>6. ASSUME NEW d \in Daemons, UnlinkSocket(d) PROVE ListInv'
  BY <1>6 DEF UnlinkSocket
<1>7. ASSUME NEW d \in Daemons, Bind(d) PROVE ListInv'
  <2>1. CASE sock = None
    BY <1>7, <2>1 DEF Bind
  <2>2. CASE sock # None
    BY <1>7, <2>2 DEF Bind, FailStart
  <2> QED BY <2>1, <2>2
<1>8. ASSUME NEW d \in Daemons, LeaveLoop(d) PROVE ListInv'
  BY <1>8 DEF LeaveLoop
<1>9. ASSUME NEW d \in Daemons, RemoveSocket(d) PROVE ListInv'
  BY <1>9 DEF RemoveSocket
<1>10. ASSUME NEW d \in Daemons, DropLock(d) PROVE ListInv'
  BY <1>10 DEF DropLock
<1>11. ASSUME NEW d \in Daemons, Exit(d) PROVE ListInv'
  BY <1>11 DEF Exit
<1>12. ASSUME NEW d \in Daemons, StartupFails(d) PROVE ListInv'
  BY <1>12 DEF StartupFails, FailStart
<1>13. ASSUME NEW d \in Daemons, AcceptFails(d) PROVE ListInv'
  BY <1>13 DEF AcceptFails
<1>14. ASSUME NEW d \in Daemons, Crash(d) PROVE ListInv'
  BY <1>14 DEF Crash, Living
<1>15. ASSUME NEW d \in Daemons, NEW r \in Runs, Reconcile(d, r) PROVE ListInv'
  <2>1. CASE run[r] \in Active
    BY <1>15, <2>1 DEF Reconcile, Active
  <2>2. CASE run[r] \notin Active
    BY <1>15, <2>2 DEF Reconcile, Active, FailStart
  <2> QED BY <2>1, <2>2
<1>16. ASSUME NEW c \in Clients, UpSpawn(c) PROVE ListInv'
  BY <1>16 DEF UpSpawn
<1>17. ASSUME NEW r \in Runs, StartRun(r) PROVE ListInv'
  <2>1. PICK d \in Daemons :
          /\ pc[d] \in Driving
          /\ run' = [run EXCEPT ![r] = IF pc[d] = "draining" THEN "late" ELSE "active"]
          /\ owner' = [owner EXCEPT ![r] = d]
    BY <1>17 DEF StartRun
  <2>2. UNCHANGED <<pc, todo, overlap>>
    BY <1>17 DEF StartRun
  <2>3. CASE pc[d] = "draining"
    BY <2>1, <2>2, <2>3
  <2>4. CASE pc[d] # "draining"
    <3>1. ~ overlap => pc[d] \in Held /\ \A e \in Daemons : pc[e] \in Held => e = d
      BY <2>1, <2>4
    <3> QED BY <2>1, <2>2, <2>4, <3>1
  <2> QED BY <2>3, <2>4
<1>18. ASSUME NEW r \in Runs, FinishRun(r) PROVE ListInv'
  BY <1>18 DEF FinishRun, Active
<1>19. CASE Quiet
  BY <1>19 DEF Quiet
<1> QED BY <1>1, <1>2, <1>3, <1>4, <1>5, <1>6, <1>7, <1>8, <1>9, <1>10,
          <1>11, <1>12, <1>13, <1>14, <1>15, <1>16, <1>17, <1>18, <1>19, QuietSteps DEF Next, DaemonStep

\* The owner of a task that reconciliation fails does not hold the lock.
LEMMA OrphanStep == TypeOK /\ (~ overlap => LockInv) /\ OwnerInv /\ OrphansAreDead /\ [Next]_vars => OrphansAreDead'
<1> SUFFICES ASSUME TypeOK, (~ overlap => LockInv), OwnerInv, OrphansAreDead, [Next]_vars PROVE OrphansAreDead'
  OBVIOUS
<1> USE DaemonAssumption DEF TypeOK, LockInv, OwnerInv, OrphansAreDead, Go, files, table, Phase, Held, Starting, Acquiring, Driving, Ended
<1>1. ASSUME NEW d \in Daemons, ReadLock(d) PROVE OrphansAreDead'
  BY <1>1 DEF ReadLock
<1>2. ASSUME NEW d \in Daemons, JudgeLock(d) PROVE OrphansAreDead'
  <2>1. UNCHANGED <<table, todo, overlap>> /\ (Go(d, "refused") \/ Go(d, "taking"))
    BY <1>2 DEF JudgeLock
  <2>2. CASE Go(d, "refused")
    BY <1>2, <2>1, <2>2 DEF JudgeLock
  <2>3. CASE Go(d, "taking")
    BY <1>2, <2>1, <2>3 DEF JudgeLock
  <2> QED BY <2>1, <2>2, <2>3
<1>3. ASSUME NEW d \in Daemons, TruncateLock(d) PROVE OrphansAreDead'
  BY <1>3 DEF TruncateLock
<1>4. ASSUME NEW d \in Daemons, WriteLock(d) PROVE OrphansAreDead'
  BY <1>4 DEF WriteLock
<1>5. ASSUME NEW d \in Daemons, ListTasks(d) PROVE OrphansAreDead'
  BY <1>5 DEF ListTasks, Active
<1>6. ASSUME NEW d \in Daemons, UnlinkSocket(d) PROVE OrphansAreDead'
  BY <1>6 DEF UnlinkSocket
<1>7. ASSUME NEW d \in Daemons, Bind(d) PROVE OrphansAreDead'
  <2>1. CASE sock = None
    BY <1>7, <2>1 DEF Bind
  <2>2. CASE sock # None
    BY <1>7, <2>2 DEF Bind, FailStart
  <2> QED BY <2>1, <2>2
<1>8. ASSUME NEW d \in Daemons, LeaveLoop(d) PROVE OrphansAreDead'
  BY <1>8 DEF LeaveLoop
<1>9. ASSUME NEW d \in Daemons, RemoveSocket(d) PROVE OrphansAreDead'
  BY <1>9 DEF RemoveSocket
<1>10. ASSUME NEW d \in Daemons, DropLock(d) PROVE OrphansAreDead'
  BY <1>10 DEF DropLock
<1>11. ASSUME NEW d \in Daemons, Exit(d) PROVE OrphansAreDead'
  BY <1>11 DEF Exit
<1>12. ASSUME NEW d \in Daemons, StartupFails(d) PROVE OrphansAreDead'
  BY <1>12 DEF StartupFails, FailStart
<1>13. ASSUME NEW d \in Daemons, AcceptFails(d) PROVE OrphansAreDead'
  BY <1>13 DEF AcceptFails
<1>14. ASSUME NEW d \in Daemons, Crash(d) PROVE OrphansAreDead'
  BY <1>14 DEF Crash, Living
<1>15. ASSUME NEW d \in Daemons, NEW r \in Runs, Reconcile(d, r) PROVE OrphansAreDead'
  <2>1. CASE run[r] \in Active
    BY <1>15, <2>1 DEF Reconcile, Active
  <2>2. CASE run[r] \notin Active
    BY <1>15, <2>2 DEF Reconcile, Active, FailStart
  <2> QED BY <2>1, <2>2
<1>16. ASSUME NEW c \in Clients, UpSpawn(c) PROVE OrphansAreDead'
  BY <1>16 DEF UpSpawn
<1>17. ASSUME NEW r \in Runs, StartRun(r) PROVE OrphansAreDead'
  BY <1>17 DEF StartRun, Driving
<1>18. ASSUME NEW r \in Runs, FinishRun(r) PROVE OrphansAreDead'
  BY <1>18 DEF FinishRun, Active
<1>19. CASE Quiet
  BY <1>19 DEF Quiet
<1> QED BY <1>1, <1>2, <1>3, <1>4, <1>5, <1>6, <1>7, <1>8, <1>9, <1>10,
          <1>11, <1>12, <1>13, <1>14, <1>15, <1>16, <1>17, <1>18, <1>19, QuietSteps DEF Next, DaemonStep

LEMMA InitInductive == Init => Inductive
<1> SUFFICES ASSUME Init PROVE Inductive
  OBVIOUS
<1> USE DEF Init
<1>1. TypeOK
  BY DEF TypeOK, Phase
<1>2. LockInv
  BY DEF LockInv, Held, Starting, Acquiring
<1>3. OwnerInv /\ ListInv /\ OrphansAreDead
  BY DEF OwnerInv, ListInv, OrphansAreDead
<1>4. ServerReachable
  BY DEF ServerReachable
<1> QED BY <1>1, <1>2, <1>3, <1>4 DEF Inductive

LEMMA Implied == Inductive => OneHolder /\ ServesOwnRuns
BY DEF Inductive, LockInv, ListInv, OneHolder, ServesOwnRuns, Held, Starting

\* The invariant is inductive.
THEOREM DaemonInductive == Spec => []Inductive
<1>1. Inductive /\ [Next]_vars => Inductive'
  BY TypeStep, LockStep, ServerStep, OwnerStep, ListStep, OrphanStep DEF Inductive
<1> QED BY InitInductive, <1>1, PTL DEF Spec

\* One daemon at a time holds the lock (lifecycle.rs:22).
THEOREM LockExclusive == Spec => []OneHolder
<1> QED BY DaemonInductive, Implied, PTL

\* The CLI's socket leads to the daemon that serves (rpc.rs:45).
THEOREM ServerFound == Spec => []ServerReachable
<1>1. Inductive => ServerReachable
  BY DEF Inductive
<1> QED BY DaemonInductive, <1>1, PTL

\* Reconciliation fails only tasks whose daemon has ended or let go (lifecycle.rs:73).
THEOREM OnlyOrphansFail == Spec => []OrphansAreDead
<1>1. Inductive => OrphansAreDead
  BY DEF Inductive
<1> QED BY DaemonInductive, <1>1, PTL

\* What a serving daemon's table shows as active is its own (lifecycle.rs:73).
THEOREM ActiveIsOwn == Spec => []ServesOwnRuns
<1> QED BY DaemonInductive, Implied, PTL
=============================================================================
