---------------------------- MODULE SpawnProofs ----------------------------
(***************************************************************************)
(* What holds of Spawn for every set of exit codes.                        *)
(***************************************************************************)
EXTENDS Spawn, TLAPS

\* Closing pipe ends leaves each end with a set of processes.
LEMMA ClosedType ==
    ASSUME hold \in [Ends -> SUBSET Procs]
    PROVE  \A p, ends : Closed(p, ends) \in [Ends -> SUBSET Procs]
  BY DEF Closed

\* An exit code that stands for a wait status is a number.
LEMMA RelayType == \A st \in Ended : Relay(st) \in Nat
  BY DEF Ended, Relay

\* No step of the three processes takes a variable out of its type.
LEMMA SpawnTypeStep == TypeOK /\ [Next]_vars => TypeOK'
  <1>. SUFFICES ASSUME TypeOK, [Next]_vars PROVE TypeOK'
    OBVIOUS
  <1>. USE DEF pipes, host, ParPc, MidPc, GcPc, Procs
  <1>1. CASE CreateCgroup
    <2>1. leaf' \in BOOLEAN
      BY <1>1, Zenon DEF TypeOK, CreateCgroup
    <2>. QED  BY <1>1, <2>1 DEF TypeOK, CreateCgroup
  <1>2. CASE CreateFail
    <2>1. leaf' \in BOOLEAN
      BY <1>2, Zenon DEF TypeOK, CreateFail
    <2>. QED  BY <1>2, <2>1, ClosedType DEF TypeOK, CreateFail, Fail, Failed
  <1>3. CASE Fork
    BY <1>3 DEF TypeOK, Fork
  <1>4. CASE ParClose
    BY <1>4, ClosedType DEF TypeOK, ParClose
  <1>5. CASE ReadPid
    BY <1>5, ClosedType, ZenonT(60) DEF TypeOK, ReadPid
  <1>6. CASE Join
    BY <1>6 DEF TypeOK, Join
  <1>7. CASE JoinFail
    BY <1>7, ClosedType DEF TypeOK, JoinFail, Fail, Failed
  <1>8. CASE NetUp
    BY <1>8 DEF TypeOK, NetUp
  <1>9. CASE NetFail
    BY <1>9, ClosedType DEF TypeOK, NetFail, Fail, Failed
  <1>10. CASE Notify
    BY <1>10, ClosedType DEF TypeOK, Notify
  <1>11. CASE Reap
    BY <1>11, RelayType DEF TypeOK, Reap
  <1>12. CASE Finish
    <2>1. leaf' \in BOOLEAN
      BY <1>12, Zenon DEF TypeOK, Finish
    <2>. QED  BY <1>12, <2>1, ClosedType DEF TypeOK, Finish
  <1>13. CASE MidClose
    BY <1>13, ClosedType DEF TypeOK, MidClose
  <1>14. CASE Unshare
    BY <1>14 DEF TypeOK, Unshare
  <1>15. CASE MidFail
    BY <1>15, ClosedType DEF TypeOK, MidFail, EndMid, Ended
  <1>16. CASE MidFork
    BY <1>16 DEF TypeOK, MidFork
  <1>17. CASE WritePid
    BY <1>17 DEF TypeOK, WritePid
  <1>18. CASE MidReap
    <2>1. Relay(status["gc"]) \in Nat
      BY RelayType DEF TypeOK
    <2>. QED  BY <1>18, <2>1, ClosedType DEF TypeOK, MidReap, EndMid, Ended
  <1>19. CASE GcClose
    BY <1>19, ClosedType DEF TypeOK, GcClose
  <1>20. CASE Wake
    <2>1. go' \in BOOLEAN /\ sent' \in BOOLEAN /\ leaf' \in BOOLEAN
      BY <1>20, Zenon DEF TypeOK, Wake
    <2>. QED  BY <1>20, <2>1, ClosedType DEF TypeOK, Wake
  <1>21. CASE Exec
    BY <1>21 DEF TypeOK, Exec
  <1>22. CASE SetupFail
    BY <1>22, ClosedType DEF TypeOK, SetupFail, EndGc, Ended
  <1>23. CASE Exit
    <2>1. Codes \subseteq Nat
      BY SpawnAssumption
    <2>. QED  BY <1>23, <2>1, ClosedType DEF TypeOK, Exit, EndGc, Ended
  <1>24. CASE ParKilled
    BY <1>24, ClosedType DEF TypeOK, ParKilled, Fail, Failed
  <1>25. CASE MidKilled
    BY <1>25, ClosedType DEF TypeOK, MidKilled, EndMid, Ended
  <1>26. CASE GcKilled
    BY <1>26, ClosedType DEF TypeOK, GcKilled, EndGc, Ended
  <1>27. CASE AllEnded \/ UNCHANGED vars
    <2>1. UNCHANGED vars
      BY <1>27 DEF AllEnded
    <2>2. go' \in BOOLEAN /\ sent' \in BOOLEAN /\ leaf' \in BOOLEAN /\ net' \in BOOLEAN
      BY <2>1, Zenon DEF TypeOK, vars
    <2>3. status' = status /\ status \in [{"mid", "gc"} -> Ended]
      BY <2>1 DEF TypeOK, vars
    <2>. QED  BY <2>1, <2>2, <2>3 DEF TypeOK, vars
  <1>. QED
    BY <1>1, <1>2, <1>3, <1>4, <1>5, <1>6, <1>7, <1>8, <1>9, <1>10, <1>11, <1>12,
       <1>13, <1>14, <1>15, <1>16, <1>17, <1>18, <1>19, <1>20, <1>21, <1>22, <1>23, <1>24,
       <1>25, <1>26, <1>27
    DEF Next, ParStep, MidStep, GcStep, Killed

\* Type correctness, for every set of exit codes and every choice of faults.
THEOREM SpawnTypeCorrect == Spec => []TypeOK
  <1>1. Init => TypeOK
    <2>1. Init => leaf \in BOOLEAN /\ go \in BOOLEAN /\ sent \in BOOLEAN
      BY Zenon DEF Init
    <2>. QED
      BY <2>1 DEF Init, TypeOK, ParPc, MidPc, GcPc, Ended, Unended, Pending
  <1>. QED  BY <1>1, SpawnTypeStep, PTL DEF Spec

-----------------------------------------------------------------------------
(* The container never runs outside its cgroup or without its network      *)
(* under a parent that knows it, and the Handle has its pid: whatever of   *)
(* the three processes fails or is killed.                                 *)

\* No pid was sent and none will be: mid failed before its fork or was killed.
Mute == mid = "exited" /\ (gc = "none" \/ status["mid"].how = "signaled")

\* How far the forks and the sending of the pid have come.
ForkOrder ==
    /\ par \in {"cgroup", "fork"} => mid = "none"
    /\ mid \in {"none", "close", "unshare", "fork"} => gc = "none" /\ ~sent
    /\ sent \/ mid \in {"writepid", "wait"} => gc # "none"

\* Whoever waits on a pipe has a writer at the other end, or none is left.
WriterLives ==
    /\ par \in {"close", "readpid"} =>
          \/ sent
          \/ mid \in {"close", "unshare", "fork", "writepid"} /\ "mid" \in hold["pidp_w"]
          \/ Mute
    /\ par \in {"close", "readpid", "join", "net", "notify"} => "par" \in hold["go_w"]
    /\ par \in {"cgroup", "fork", "close", "readpid", "join", "net", "notify"} => ~go

\* What the parent knows of the container, and has done for it.
Wired ==
    /\ par \in {"join", "net", "notify", "wait", "finish"} =>
          \/ pid = "gc" /\ gc # "none"
          \/ pid = "zero" /\ Mute
    /\ par \in {"net", "notify", "wait", "finish"} /\ pid = "gc" /\ Up => "gc" \in members
    /\ par \in {"notify", "wait", "finish"} /\ pid = "gc" /\ Up /\ net => veth = "gc"
    /\ gc \in {"setup", "running"} => par \in {"wait", "finish", "exited"}

PipeInv == ForkOrder /\ WriterLives /\ Wired

\* The pipe protocol keeps PipeInv, one step per action.
LEMMA PipeStep ==
    ASSUME TypeOK, PipeInv, [Next]_vars
    PROVE  PipeInv'
  <1>. USE DEF PipeInv, ForkOrder, WriterLives, Wired, Mute, Up, pipes, host
  <1>. USE DEF TypeOK, ParPc, MidPc, GcPc
  <1>1. CASE CreateCgroup
    BY <1>1 DEF CreateCgroup
  <1>2. CASE CreateFail
    BY <1>2 DEF CreateFail, Fail, Closed, Ends
  <1>3. CASE Fork
    <2>1. hold'["go_w"] = {"par", "mid"} /\ hold'["pidp_w"] = {"par", "mid"}
      BY <1>3 DEF Fork, Ends
    <2>2. par = "fork" /\ par' = "close" /\ mid' = "close" /\ UNCHANGED <<gc, go, sent>>
      BY <1>3 DEF Fork
    <2>. QED  BY <2>1, <2>2
  <1>4. CASE ParClose
    BY <1>4 DEF ParClose, Closed, Ends
  <1>5. CASE ReadPid
    BY <1>5 DEF ReadPid, PidReadable, Closed, Ends
  <1>6. CASE Join
    BY <1>6 DEF Join
  <1>7. CASE JoinFail
    BY <1>7 DEF JoinFail, Fail, Closed, Ends
  <1>8. CASE NetUp
    BY <1>8 DEF NetUp
  <1>9. CASE NetFail
    BY <1>9 DEF NetFail, Fail, Closed, Ends
  <1>10. CASE Notify
    BY <1>10 DEF Notify, Closed, Ends
  <1>11. CASE Reap
    BY <1>11 DEF Reap
  <1>12. CASE Finish
    BY <1>12 DEF Finish, Closed, Ends
  <1>13. CASE MidClose
    BY <1>13 DEF MidClose, Closed, Ends
  <1>14. CASE Unshare
    BY <1>14 DEF Unshare
  <1>15. CASE MidFail
    BY <1>15 DEF MidFail, EndMid, Closed, Ends
  <1>16. CASE MidFork
    BY <1>16 DEF MidFork, Ends
  <1>17. CASE WritePid
    BY <1>17 DEF WritePid
  <1>18. CASE MidReap
    BY <1>18 DEF MidReap, EndMid, Closed, Ends
  <1>19. CASE GcClose
    BY <1>19 DEF GcClose, Closed, Ends
  <1>20. CASE Wake
    BY <1>20 DEF Wake, Released, Closed, Ends
  <1>21. CASE Exec
    BY <1>21 DEF Exec
  <1>22. CASE SetupFail
    BY <1>22 DEF SetupFail, EndGc, Closed, Ends
  <1>23. CASE Exit
    BY <1>23 DEF Exit, EndGc, Closed, Ends
  <1>24. CASE ParKilled
    BY <1>24 DEF ParKilled, Fail, Closed, Ends
  <1>25. CASE MidKilled
    BY <1>25 DEF MidKilled, EndMid, Closed, Ends
  <1>26. CASE GcKilled
    BY <1>26 DEF GcKilled, EndGc, Closed, Ends
  <1>27. CASE AllEnded \/ UNCHANGED vars
    BY <1>27 DEF AllEnded, vars
  <1>. QED
    BY <1>1, <1>2, <1>3, <1>4, <1>5, <1>6, <1>7, <1>8, <1>9, <1>10, <1>11, <1>12,
       <1>13, <1>14, <1>15, <1>16, <1>17, <1>18, <1>19, <1>20, <1>21, <1>22, <1>23, <1>24,
       <1>25, <1>26, <1>27
    DEF Next, ParStep, MidStep, GcStep, Killed

\* PipeInv holds in every reachable state.
LEMMA PipeAlways == Spec => []PipeInv
  <1>1. Init => PipeInv
    BY DEF Init, PipeInv, ForkOrder, WriterLives, Wired, Up
  <1>2. TypeOK /\ PipeInv /\ [Next]_vars => PipeInv'
    BY PipeStep
  <1>. QED  BY <1>1, <1>2, SpawnTypeCorrect, PTL DEF Spec

\* A container that is being set up or runs under a parent that knows its pid
\* is in its cgroup and on its network (container.rs:288): while the parent is
\* there, only its go byte releases the container.
THEOREM ReadyAlways == Spec => []ReadyBeforeExec
  <1>1. PipeInv => ReadyBeforeExec
    BY DEF PipeInv, Wired, Up, ReadyBeforeExec
  <1>. QED  BY <1>1, PipeAlways, PTL

\* The Handle of a container that was forked has its pid, not the zero of an
\* unanswered read, unless the middle process was killed (container.rs:59).
THEOREM HandleAlwaysHasPid == Spec => []HandleHasPid
  <1>1. PipeInv => HandleHasPid
    BY DEF PipeInv, Wired, Mute, HandleHasPid
  <1>. QED  BY <1>1, PipeAlways, PTL

-----------------------------------------------------------------------------
(* The way an exit takes: from gc to mid, from mid to the parent, and what the *)
(* parent has cleared away by then.                                            *)

\* What is known of each exit where it has been passed on.
ExitInv ==
    /\ mid # "exited" => status["mid"].how = "none"
    /\ mid = "exited" /\ status["mid"].how = "exited" =>
          \/ gc = "none"
          \/ gc = "exited" /\ status["mid"].n = Relay(status["gc"])
    /\ par \notin {"finish", "exited"} => result = Pending
    /\ par = "finish" \/ (par = "exited" /\ result # Failed) =>
          mid = "exited" /\ result = Relay(status["mid"])

\* What of the container is still on the host.
LeftInv ==
    /\ ~net => veth = "absent" /\ par # "net"
    /\ "gc" \in members => Up
    /\ "par" \in members => pid = "zero"
    /\ par \in {"cgroup", "fork", "close", "readpid"} => pid = "none"
    /\ pid = "gc" => gc # "none"
    /\ NothingLeft

\* Both are kept by every step, one case per action.
LEMMA ExitStep ==
    ASSUME TypeOK, PipeInv, ExitInv, LeftInv, [Next]_vars
    PROVE  ExitInv' /\ LeftInv'
  <1>. USE DEF ExitInv, LeftInv, NothingLeft, Up, Relay, pipes, host, Failed, Pending
  <1>. USE DEF PipeInv, ForkOrder, TypeOK, ParPc, MidPc, GcPc
  <1>1. CASE CreateCgroup
    BY <1>1 DEF CreateCgroup
  <1>2. CASE CreateFail
    BY <1>2 DEF CreateFail, Fail
  <1>3. CASE Fork
    BY <1>3 DEF Fork
  <1>4. CASE ParClose
    BY <1>4 DEF ParClose
  <1>5. CASE ReadPid
    BY <1>5 DEF ReadPid
  <1>6. CASE Join
    BY <1>6 DEF Join
  <1>7. CASE JoinFail
    BY <1>7 DEF JoinFail, Fail
  <1>8. CASE NetUp
    BY <1>8 DEF NetUp
  <1>9. CASE NetFail
    BY <1>9 DEF NetFail, Fail
  <1>10. CASE Notify
    BY <1>10 DEF Notify
  <1>11. CASE Reap
    BY <1>11 DEF Reap
  <1>12. CASE Finish
    <2>1. pid = "gc" /\ status["mid"].how = "exited" => ~Up /\ members = {}
      BY <1>12 DEF Finish
    <2>2. members = {} => ~leaf'
      BY <1>12, Zenon DEF Finish
    <2>3. ExitInv'
      BY <1>12 DEF Finish
    <2>4. NothingLeft'
      BY <1>12, <2>1, <2>2 DEF Finish
    <2>5. LeftInv'
      BY <1>12, <2>4 DEF Finish
    <2>. QED  BY <2>3, <2>5
  <1>13. CASE MidClose
    BY <1>13 DEF MidClose
  <1>14. CASE Unshare
    BY <1>14 DEF Unshare
  <1>15. CASE MidFail
    BY <1>15 DEF MidFail, EndMid
  <1>16. CASE MidFork
    BY <1>16 DEF MidFork
  <1>17. CASE WritePid
    BY <1>17 DEF WritePid
  <1>18. CASE MidReap
    BY <1>18 DEF MidReap, EndMid
  <1>19. CASE GcClose
    BY <1>19 DEF GcClose
  <1>20. CASE Wake
    BY <1>20 DEF Wake
  <1>21. CASE Exec
    BY <1>21 DEF Exec
  <1>22. CASE SetupFail
    BY <1>22 DEF SetupFail, EndGc
  <1>23. CASE Exit
    BY <1>23 DEF Exit, EndGc
  <1>24. CASE ParKilled
    BY <1>24 DEF ParKilled, Fail
  <1>25. CASE MidKilled
    BY <1>25 DEF MidKilled, EndMid
  <1>26. CASE GcKilled
    BY <1>26 DEF GcKilled, EndGc
  <1>27. CASE AllEnded \/ UNCHANGED vars
    BY <1>27 DEF AllEnded, vars
  <1>. QED
    BY <1>1, <1>2, <1>3, <1>4, <1>5, <1>6, <1>7, <1>8, <1>9, <1>10, <1>11, <1>12,
       <1>13, <1>14, <1>15, <1>16, <1>17, <1>18, <1>19, <1>20, <1>21, <1>22, <1>23, <1>24,
       <1>25, <1>26, <1>27
    DEF Next, ParStep, MidStep, GcStep, Killed

\* They hold in every reachable state.
LEMMA ExitAlways == Spec => [](ExitInv /\ LeftInv)
  <1>1. Init => ExitInv /\ LeftInv
    BY DEF Init, ExitInv, LeftInv, NothingLeft, Unended, Up
  <1>2. TypeOK /\ PipeInv /\ (ExitInv /\ LeftInv) /\ [Next]_vars => (ExitInv /\ LeftInv)'
    BY ExitStep
  <1>. QED  BY <1>1, <1>2, SpawnTypeCorrect, PipeAlways, PTL DEF Spec

\* Whatever wait returns for a container that ended is how it ended: its exit
\* code, or 128 + the signal (container.rs:80-84, 271-275), through two processes.
THEOREM ExitCodeAlwaysRelayed == Spec => []ExitCodeRelayed
  <1>1. TypeOK /\ ExitInv => ExitCodeRelayed
    BY DEF TypeOK, ParPc, ExitInv, ExitCodeRelayed, Relay
  <1>. QED  BY <1>1, ExitAlways, SpawnTypeCorrect, PTL

\* Once wait has returned, the container is gone with its veth and its cgroup,
\* in whatever order the three processes got there.
THEOREM NothingLeftAlways == Spec => []NothingLeft
  <1>1. LeftInv => NothingLeft
    BY DEF LeftInv
  <1>. QED  BY <1>1, ExitAlways, PTL

=============================================================================
