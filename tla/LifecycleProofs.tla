-------------------------- MODULE LifecycleProofs --------------------------
(***************************************************************************)
(* What holds of Lifecycle for every choice of its constants.              *)
(***************************************************************************)
EXTENDS Lifecycle, TLAPS

(* The types of the pieces that the actions are put together from. *)

\* Processes that end leave the pid table and the cgroup well-typed.
LEMMA EndType ==
    ASSUME TypeOK, NEW ps, NEW how \in {"dead", "dumped"}, End(ps, how)
    PROVE  /\ owner' \in [Pids -> {"free", "ctr", "dead", "dumped", "other"}]
           /\ incg' \in SUBSET Pids
  BY DEF TypeOK, End

\* So does a signal, whatever the pid in it.
LEMMA HitType ==
    ASSUME TypeOK, NEW p, Hit(p)
    PROVE  /\ owner' \in [Pids -> {"free", "ctr", "dead", "dumped", "other"}]
           /\ incg' \in SUBSET Pids
  BY EndType DEF Hit

\* The empty locals and the state of a new container are well-typed.
LEMMA InitialType == NoLocals \in Locals /\ NewState \in State
  BY DEF NoLocals, Locals, NewState, State, Status

\* Updates of single fields keep a record of locals well-typed.
LEMMA LocalsEdit ==
    ASSUME NEW l \in Locals
    PROVE  /\ \A b \in State \cup {None} : [l EXCEPT !.buf = b] \in Locals
           /\ \A p \in Pids \cup {None} : [l EXCEPT !.pid = p] \in Locals
           /\ \A n \in Names \cup {None} : [l EXCEPT !.name = n] \in Locals
           /\ \A f \in BOOLEAN : [l EXCEPT !.flag = f] \in Locals
           /\ \A f \in BOOLEAN : [l EXCEPT !.buf = None, !.flag = f] \in Locals
  BY DEF Locals

\* Every edit of state.rs yields a state record again.
LEMMA StateEdit ==
    ASSUME NEW st \in State
    PROVE  /\ \A t \in Status : [st EXCEPT !.status = t] \in State
           /\ \A t \in Status : [st EXCEPT !.status = t, !.pid = None] \in State
           /\ \A t \in Status : [st EXCEPT !.pid = None, !.status = t] \in State
           /\ \A p \in Pids \cup {None}, u \in Sups : SetRunningUnder(st, p, u) \in State
           /\ SetStopped(st) \in State
           /\ \A n \in Names \cup {None} : SetCheckpointed(st, n) \in State
           /\ \A n \in Names \cup {None} : KeptRunning(st, n) \in State
           /\ \A p \in Pids \cup {None} : SetRestored(st, p) \in State
  BY DEF State, Status, Transient, SetRunningUnder, SetStopped, SetCheckpointed,
         KeptRunning, SetRestored

\* resolve_snapshot finds a snapshot name or nothing.
LEMMA ResolveType ==
    ASSUME TypeOK, NEW n \in Names \cup {None}
    PROVE  Resolve(n) \in Names \cup {None}
  BY NamesAssumption DEF Resolve, Exists, TypeOK, State

\* Leaving reconcile keeps control points and locals well-typed.
LEMMA AfterSweepType ==
    ASSUME TypeOK, NEW c \in Cmds, AfterSweep(c)
    PROVE  /\ pc' \in [Actors -> CmdPc \cup SupPc]
           /\ loc' \in [Actors -> Locals]
  <1>1. c \in Actors /\ loc[c].name \in Names \cup {None}
    BY DEF Actors, TypeOK, Locals
  <1>2. CASE loc[c].op = "restore"
    <2>1. [NoLocals EXCEPT !.name = loc[c].name] \in Locals
      BY <1>1, InitialType, LocalsEdit
    <2>. QED  BY <1>1, <1>2, <2>1 DEF AfterSweep, Goto, Bind, TypeOK, CmdPc
  <1>3. CASE loc[c].op # "restore"
    BY <1>1, <1>3, InitialType DEF AfterSweep, Return, Goto, Bind, TypeOK, CmdPc
  <1>. QED  BY <1>2, <1>3

(* No step takes a variable out of its type: one step per action. *)

\* A step of a command in flight keeps TypeOK: one case per action.
LEMMA CmdStepType ==
    ASSUME TypeOK, NEW c \in Cmds, CmdStep(c)
    PROVE  TypeOK'
  <1>. USE DEF disk, host, env, Goto, Bind, Return, Actors, CmdPc, SupPc
  <1>1. CASE AwaitUp(c)
    BY <1>1, InitialType, HitType DEF TypeOK, AwaitUp
  <1>2. CASE AwaitDead(c)
    BY <1>2, InitialType, HitType DEF TypeOK, AwaitDead
  <1>3. CASE AwaitTimeout(c)
    BY <1>3, InitialType, HitType DEF TypeOK, AwaitTimeout
  <1>4. CASE SigTerm(c)
    BY <1>4, HitType DEF TypeOK, SigTerm
  <1>5. CASE SigKill(c)
    BY <1>5, InitialType, HitType DEF TypeOK, SigKill
  <1>6. CASE Load(c)
    <2>1. [loc[c] EXCEPT !.buf = file] \in Locals
      BY LocalsEdit DEF TypeOK
    <2>. QED  BY <1>6, <2>1 DEF TypeOK, Load
  <1>7. CASE Sweep(c)
    <2>1. [loc[c] EXCEPT !.buf = file] \in Locals
      BY LocalsEdit DEF TypeOK
    <2>2. pc' \in [Actors -> CmdPc \cup SupPc] /\ loc' \in [Actors -> Locals]
      <3>1. CASE dir /\ Stale(file)  BY <1>7, <2>1, <3>1 DEF TypeOK, Sweep
      <3>2. CASE ~(dir /\ Stale(file))  BY <1>7, <3>2, AfterSweepType DEF Sweep
      <3>. QED  BY <3>1, <3>2
    <2>. QED  BY <1>7, <2>2 DEF TypeOK, Sweep
  <1>8. CASE SweepReap(c)
    BY <1>8, HitType DEF TypeOK, SweepReap, SweepHit
  <1>9. CASE SweepDebris(c)
    <2>1. HasSnapshot(loc[c].buf) \in BOOLEAN
      BY DEF HasSnapshot, Exists
    <2>2. [loc[c] EXCEPT !.buf = None, !.flag = HasSnapshot(loc[c].buf)] \in Locals
      BY <2>1, LocalsEdit DEF TypeOK
    <2>. QED  BY <1>9, <2>2 DEF TypeOK, SweepDebris, Rmdir
  <1>10. CASE Settle(c)
    <2>1. loc[c] \in Locals /\ loc[c].buf \in State
      BY <1>10 DEF TypeOK, Settle, Save, Locals
    <2>2. file' \in State
      BY <1>10, <2>1, StateEdit DEF Settle, Save, Locals, Status, Transient
    <2>3. pc' \in [Actors -> CmdPc \cup SupPc] /\ loc' \in [Actors -> Locals]
      BY <1>10, AfterSweepType DEF Settle
    <2>. QED  BY <1>10, <2>2, <2>3 DEF TypeOK, Settle, Save
  <1>11. CASE Pick(c)
    <2>1. loc[c] \in Locals /\ loc[c].name \in Names \cup {None}
      BY DEF TypeOK, Locals
    <2>2. [loc[c] EXCEPT !.name = Resolve(loc[c].name)] \in Locals
      BY <2>1, ResolveType, LocalsEdit
    <2>3. pc' \in [Actors -> CmdPc \cup SupPc] /\ loc' \in [Actors -> Locals]
      <3>1. CASE AlreadyRunning \/ Resolve(loc[c].name) = None
        BY <1>11, <3>1, InitialType DEF TypeOK, Pick
      <3>2. CASE ~(AlreadyRunning \/ Resolve(loc[c].name) = None)
        BY <1>11, <2>2, <3>2 DEF TypeOK, Pick
      <3>. QED  BY <3>1, <3>2
    <2>. QED  BY <1>11, <2>3 DEF TypeOK, Pick
  <1>12. CASE Verify(c)
    <2>1. pc' \in [Actors -> CmdPc \cup SupPc] /\ loc' \in [Actors -> Locals]
      <3>1. CASE Goto(c, "unpack") /\ UNCHANGED loc  BY <3>1 DEF TypeOK
      <3>2. CASE Return(c)  BY <3>2, InitialType DEF TypeOK
      <3>. QED  BY <1>12, <3>1, <3>2 DEF Verify
    <2>. QED  BY <1>12, <2>1 DEF TypeOK, Verify
  <1>13. CASE Unpack(c)
    <2>1. pc' \in [Actors -> CmdPc \cup SupPc] /\ loc' \in [Actors -> Locals]
      <3>1. CASE Goto(c, "restoring") /\ UNCHANGED loc  BY <3>1 DEF TypeOK
      <3>2. CASE Return(c)  BY <3>2, InitialType DEF TypeOK
      <3>. QED  BY <1>13, <3>1, <3>2 DEF Unpack
    <2>2. staging' \in SUBSET {"dump", "images"}
      BY <1>13 DEF Unpack
    <2>. QED  BY <1>13, <2>1, <2>2 DEF TypeOK, Unpack
  <1>14. CASE MarkRestoring(c)
    <2>1. loc[c] \in Locals /\ loc[c].buf \in State
      BY <1>14 DEF TypeOK, MarkRestoring, Save, Locals
    <2>2. file' \in State
      BY <1>14, <2>1, StateEdit DEF MarkRestoring, Save, Locals, Status, Transient
    <2>3. loc' \in [Actors -> Locals]
      BY <1>14, <2>1, LocalsEdit DEF TypeOK, MarkRestoring
    <2>. QED  BY <1>14, <2>2, <2>3 DEF TypeOK, MarkRestoring, Save
  <1>15. CASE Prep(c)
    BY <1>15 DEF TypeOK, Prep
  <1>16. CASE PrepFail(c)
    <2>1. cgroup' \in BOOLEAN
      BY <1>16, Zenon DEF TypeOK, PrepFail
    <2>. QED  BY <1>16, <2>1, InitialType DEF TypeOK, PrepFail
  <1>17. CASE EngineFail(c)
    BY <1>17 DEF TypeOK, EngineFail
  <1>18. CASE Build(c)
    BY <1>18 DEF TypeOK, Build, Alive
  <1>19. CASE BuildFail(c)
    <2>. DEFINE q == loc[c].pid
    <2>1. PICK joined \in BOOLEAN, v \in {veth, "host", q} :
               /\ HalfWired(q, joined, v, "net" \in Faults \/ ("build" \in Faults /\ v = veth))
               /\ joined => Alive(q)
               /\ incg' = IF joined THEN incg \cup {q} ELSE incg
               /\ veth' = v
      BY <1>19 DEF BuildFail
    <2>2. incg' \in SUBSET Pids /\ veth' \in {"absent", "host"} \cup Pids
      BY <2>1 DEF TypeOK, HalfWired, Alive
    <2>. QED  BY <1>19, <2>2 DEF TypeOK, BuildFail
  <1>20. CASE Rollback(c)
    BY <1>20, HitType DEF TypeOK, Rollback, RollbackHit, Rmdir
  <1>21. CASE Unrestore(c)
    <2>1. loc[c] \in Locals /\ loc[c].buf \in State
      BY <1>21 DEF TypeOK, Unrestore, Save, Locals
    <2>2. file' \in State
      BY <1>21, <2>1, StateEdit DEF Unrestore, Save, Locals, Status, Transient
    <2>3. loc' \in [Actors -> Locals]
      BY <1>21, <2>1, InitialType DEF TypeOK, Unrestore
    <2>. QED  BY <1>21, <2>2, <2>3 DEF TypeOK, Unrestore, Save
  <1>22. CASE CommitRestored(c)
    <2>1. loc[c] \in Locals /\ loc[c].buf \in State
      BY <1>22 DEF TypeOK, CommitRestored, Save, Locals
    <2>2. file' \in State
      BY <1>22, <2>1, StateEdit DEF CommitRestored, Save, Locals, Status, Transient
    <2>3. loc' \in [Actors -> Locals]
      BY <1>22, <2>1, LocalsEdit DEF TypeOK, CommitRestored
    <2>. QED  BY <1>22, <2>2, <2>3 DEF TypeOK, CommitRestored, Save
  <1>23. CASE Clean(c)
    BY <1>23, InitialType DEF TypeOK, Clean
  <1>24. CASE Mark(c)
    <2>1. loc[c] \in Locals /\ loc[c].buf \in State
      BY <1>24 DEF TypeOK, Mark, Save, Locals
    <2>2. file' \in State
      BY <1>24, <2>1, StateEdit DEF Mark, Save, Locals, Status, Transient
    <2>3. loc' \in [Actors -> Locals]
      BY <1>24, <2>1, LocalsEdit DEF TypeOK, Mark
    <2>. QED  BY <1>24, <2>2, <2>3 DEF TypeOK, Mark, Save
  <1>25. CASE Stage(c)
    <2>1. pc' \in [Actors -> CmdPc \cup SupPc] /\ loc' \in [Actors -> Locals]
      <3>1. CASE Goto(c, "dump") /\ UNCHANGED loc  BY <3>1 DEF TypeOK
      <3>2. CASE Return(c)  BY <3>2, InitialType DEF TypeOK
      <3>. QED  BY <1>25, <3>1, <3>2 DEF Stage
    <2>2. staging' \in SUBSET {"dump", "images"}
      BY <1>25 DEF Stage, TypeOK
    <2>. QED  BY <1>25, <2>1, <2>2 DEF TypeOK, Stage
  <1>26. CASE DumpOk(c)
    <2>1. /\ owner' \in [Pids -> {"free", "ctr", "dead", "dumped", "other"}]
          /\ incg' \in SUBSET Pids
      BY <1>26, EndType DEF TypeOK, DumpOk
    <2>. QED  BY <1>26, <2>1 DEF TypeOK, DumpOk
  <1>27. CASE DumpFail(c)
    <2>1. /\ owner' \in [Pids -> {"free", "ctr", "dead", "dumped", "other"}]
          /\ incg' \in SUBSET Pids
      BY <1>27, HitType DEF TypeOK, DumpFail
    <2>2. (owner'[loc[c].pid] \in {"ctr", "other"}) \in BOOLEAN
      OBVIOUS
    <2>3. loc[c] \in Locals
      BY DEF TypeOK
    <2>4. [loc[c] EXCEPT !.flag = owner'[loc[c].pid] \in {"ctr", "other"}] \in Locals
      BY <2>2, <2>3, LocalsEdit
    <2>. QED  BY <1>27, <2>1, <2>4 DEF TypeOK, DumpFail
  <1>28. CASE Undump(c)
    <2>1. loc[c] \in Locals /\ loc[c].buf \in State
      BY <1>28 DEF TypeOK, Undump, Save, Locals
    <2>2. file' \in State
      BY <1>28, <2>1, StateEdit DEF Undump, Save, Locals, Status, Transient
    <2>3. loc' \in [Actors -> Locals]
      BY <1>28, <2>1, InitialType DEF TypeOK, Undump
    <2>. QED  BY <1>28, <2>2, <2>3 DEF TypeOK, Undump, Save
  <1>29. CASE SupWait(c)
    BY <1>29 DEF TypeOK, SupWait, Rmdir
  <1>30. CASE PackOpen(c)
    BY <1>30 DEF TypeOK, PackOpen
  <1>31. CASE PackDone(c)
    BY <1>31 DEF TypeOK, PackDone
  <1>32. CASE PackFail(c)
    BY <1>32, InitialType DEF TypeOK, PackFail
  <1>33. CASE Commit(c)
    <2>1. loc[c] \in Locals /\ loc[c].buf \in State
      BY <1>33 DEF TypeOK, Commit, Save, Locals
    <2>2. file' \in State
      BY <1>33, <2>1, StateEdit DEF Commit, Save, Locals, Status, Transient
    <2>3. loc' \in [Actors -> Locals]
      BY <1>33, <2>1, InitialType DEF TypeOK, Commit
    <2>. QED  BY <1>33, <2>2, <2>3 DEF TypeOK, Commit, Save
  <1>34. ASSUME NEW p \in Pids, EngineOk(c, p) PROVE TypeOK'
    BY <1>34 DEF TypeOK, EngineOk, Locals
  <1>35. ASSUME NEW p \in Pids, EngineBlind(c, p) PROVE TypeOK'
    BY <1>35 DEF TypeOK, EngineBlind
  <1>. QED
    BY <1>1, <1>2, <1>3, <1>4, <1>5, <1>6, <1>7, <1>8, <1>9, <1>10,
         <1>11, <1>12, <1>13, <1>14, <1>15, <1>16, <1>17, <1>18, <1>19,
         <1>20, <1>21, <1>22, <1>23, <1>24, <1>25, <1>26, <1>27, <1>28,
         <1>29, <1>30, <1>31, <1>32, <1>33, <1>34, <1>35 DEF CmdStep

\* A step of a supervisor keeps TypeOK.
LEMMA SupStepType ==
    ASSUME TypeOK, NEW s \in Sups, SupStep(s)
    PROVE  TypeOK'
  <1>. USE DEF disk, host, env, Goto, Bind, Return, Actors, CmdPc, SupPc
  <1>1. CASE SupCgroup(s)
    BY <1>1 DEF TypeOK, SupCgroup
  <1>2. CASE SupCgroupFail(s)
    <2>1. cgroup' \in BOOLEAN
      BY <1>2, Zenon DEF TypeOK, SupCgroupFail
    <2>. QED  BY <1>2, <2>1, InitialType DEF TypeOK, SupCgroupFail
  <1>3. CASE Load(s)
    <2>1. [loc[s] EXCEPT !.buf = file] \in Locals
      BY LocalsEdit DEF TypeOK
    <2>. QED  BY <1>3, <2>1 DEF TypeOK, Load
  <1>4. CASE SupFail(s)
    <2>1. loc[s] \in Locals /\ loc[s].buf \in State
      BY <1>4 DEF TypeOK, SupFail, Save, Locals
    <2>2. file' \in State
      BY <1>4, <2>1, StateEdit DEF SupFail, SetStopped, Save, Locals, Status, Transient
    <2>3. loc' \in [Actors -> Locals]
      BY <1>4, <2>1, InitialType DEF TypeOK, SupFail
    <2>. QED  BY <1>4, <2>2, <2>3 DEF TypeOK, SupFail, Save
  <1>5. CASE SupPublish(s)
    <2>1. loc[s] \in Locals /\ loc[s].buf \in State
      BY <1>5 DEF TypeOK, SupPublish, Save, Locals
    <2>2. file' \in State
      BY <1>5, <2>1, StateEdit DEF SupPublish, Save, Locals, Status, Transient
    <2>3. loc' \in [Actors -> Locals]
      BY <1>5, <2>1, LocalsEdit DEF TypeOK, SupPublish
    <2>. QED  BY <1>5, <2>2, <2>3 DEF TypeOK, SupPublish, Save
  <1>6. CASE SupLost(s)
    <2>1. loc[s].pid \in Pids \cup {None}
      BY DEF TypeOK, Locals
    <2>2. [NoLocals EXCEPT !.pid = IF pc[s] = "publish" THEN loc[s].pid ELSE None] \in Locals
      BY <2>1, InitialType, LocalsEdit
    <2>. QED  BY <1>6, <2>2 DEF TypeOK, SupLost
  <1>7. CASE SupReap(s)
    BY <1>7 DEF TypeOK, SupReap
  <1>8. CASE SupNetDown(s)
    BY <1>8 DEF TypeOK, SupNetDown
  <1>9. CASE SupCgDown(s)
    BY <1>9 DEF TypeOK, SupCgDown, Rmdir
  <1>10. CASE SupCheck(s)
    <2>1. pc' \in [Actors -> CmdPc \cup SupPc] /\ loc' \in [Actors -> Locals]
      <3>1. CASE Goto(s, "gone") /\ Bind(s, NoLocals)  BY <3>1, InitialType DEF TypeOK
      <3>2. CASE Goto(s, "stop") /\ UNCHANGED loc  BY <3>2 DEF TypeOK
      <3>. QED  BY <1>10, <3>1, <3>2 DEF SupCheck
    <2>. QED  BY <1>10, <2>1 DEF TypeOK, SupCheck
  <1>11. CASE SupStop(s)
    <2>1. loc[s] \in Locals /\ loc[s].buf \in State
      BY <1>11 DEF TypeOK, SupStop, Save, Locals
    <2>2. file' \in State
      BY <1>11, <2>1, StateEdit DEF SupStop, Save, Locals, Status, Transient
    <2>3. loc' \in [Actors -> Locals]
      BY <1>11, <2>1, InitialType DEF TypeOK, SupStop
    <2>. QED  BY <1>11, <2>2, <2>3 DEF TypeOK, SupStop, Save
  <1>12. ASSUME NEW p \in Pids, SupFork(s, p) PROVE TypeOK'
    BY <1>12 DEF TypeOK, SupFork, Locals
  <1>13. ASSUME NEW p \in Pids, SupForkFail(s, p) PROVE TypeOK'
    BY <1>13 DEF TypeOK, SupForkFail
  <1>. QED
    BY <1>1, <1>2, <1>3, <1>4, <1>5, <1>6, <1>7, <1>8, <1>9, <1>10,
         <1>11, <1>12, <1>13 DEF SupStep

\* Issuing a command keeps TypeOK.
LEMMA InvokeType ==
    ASSUME TypeOK, NEW c \in Cmds, Invoke(c)
    PROVE  TypeOK'
  <1>. USE DEF disk, host, env, Goto, Bind, Return, Actors, CmdPc, SupPc
  <1>1. CASE Create(c)
    BY <1>1, InitialType DEF TypeOK, Create, Issues
  <1>2. CASE Rm(c)
    BY <1>2, InitialType DEF TypeOK, Rm, Issues
  <1>3. CASE Stop(c)
    BY <1>3 DEF TypeOK, Stop, Issues, Locals, State, NoLocals
  <1>4. CASE Ps(c)
    BY <1>4 DEF TypeOK, Ps, Issues, Locals, State, NoLocals
  <1>5. ASSUME NEW s \in Sups, Start(c, s) PROVE TypeOK'
    BY <1>5 DEF TypeOK, Start, Locals, NoLocals
  <1>8. ASSUME NEW s \in Sups, StartForeground(c, s) PROVE TypeOK'
    BY <1>8 DEF TypeOK, StartForeground, Locals, NoLocals
  <1>6. ASSUME NEW n \in Names \cup {None}, Restore(c, n) PROVE TypeOK'
    BY <1>6 DEF TypeOK, Restore, Locals, NoLocals
  <1>7. ASSUME NEW n \in Names, NEW leave \in BOOLEAN, Checkpoint(c, n, leave)
        PROVE TypeOK'
    BY <1>7 DEF TypeOK, Checkpoint, Locals, State, NoLocals
  <1>. QED
    BY <1>1, <1>2, <1>3, <1>4, <1>5, <1>6, <1>7, <1>8 DEF Invoke

\* The kernel, a killed command and a killed supervisor keep TypeOK.
LEMMA OthersType ==
    ASSUME TypeOK,
           \/ \E c \in Cmds : Crash(c)
           \/ \E s \in Sups : SupKilled(s)
           \/ Kernel
    PROVE  TypeOK'
  <1>. USE DEF disk, host, env, Goto, Bind, Return, Actors, CmdPc, SupPc
  <1>1. ASSUME NEW c \in Cmds, Crash(c) PROVE TypeOK'
    <2>1. loc[c].pid \in Pids \cup {None}
      BY DEF TypeOK, Locals
    <2>2. jobs' \in SUBSET Jobs
      BY <1>1, <2>1 DEF TypeOK, Crash, Jobs
    <2>. QED  BY <1>1, <2>2, InitialType DEF TypeOK, Crash
  <1>2. ASSUME NEW s \in Sups, SupKilled(s) PROVE TypeOK'
    BY <1>2, InitialType DEF TypeOK, SupKilled
  <1>3. CASE NetnsGone
    BY <1>3 DEF TypeOK, NetnsGone
  <1>4. ASSUME NEW p \in Pids, Exit(p) PROVE TypeOK'
    BY <1>4, EndType DEF TypeOK, Exit
  <1>5. ASSUME NEW p \in Pids, Recycle(p) PROVE TypeOK'
    BY <1>5 DEF TypeOK, Recycle
  <1>6. ASSUME NEW j \in jobs, OrphanDump(j) PROVE TypeOK'
    BY <1>6, EndType DEF TypeOK, OrphanDump
  <1>7. ASSUME NEW j \in jobs, OrphanRestore(j) PROVE TypeOK'
    BY <1>7 DEF TypeOK, OrphanRestore
  <1>. QED  BY <1>1, <1>2, <1>3, <1>4, <1>5, <1>6, <1>7 DEF Kernel

\* TypeOK is inductive.
LEMMA TypeStep == TypeOK /\ [Next]_vars => TypeOK'
  <1>1. TypeOK /\ UNCHANGED vars => TypeOK'
    BY DEF TypeOK, vars, disk, host, env
  <1>. QED  BY <1>1, CmdStepType, SupStepType, InvokeType, OthersType DEF Next

\* The initial states are well-typed.
LEMMA TypeInit == Init => TypeOK
  <1>. SUFFICES ASSUME Init PROVE TypeOK
    OBVIOUS
  <1>1. pc \in [Actors -> CmdPc \cup SupPc] /\ loc \in [Actors -> Locals]
    BY InitialType DEF Init, CmdPc, SupPc
  <1>2. dir \in BOOLEAN /\ cgroup \in BOOLEAN
    BY Zenon DEF Init
  <1>. QED  BY <1>1, <1>2, InitialType DEF Init, TypeOK

\* Type correctness, for every set of commands, supervisors, pids and names
\* and every choice of faults and crash points.
THEOREM TypeCorrect == Spec => []TypeOK
  BY TypeInit, TypeStep, PTL DEF Spec

-----------------------------------------------------------------------------
(* One operator at a time never strands an interrupted restore. *)

\* Nobody runs two commands at once.
OneOperator == \A c, d \in Cmds : c = d

(* Why it is so: a restore writes its mark with the verified snapshot      *)
(* still whole; only a checkpoint damages a snapshot, and by the time it   *)
(* does its own mark has replaced the one of any restore before it.        *)
RecoverInv ==
    /\ RestoringRecoverable
    /\ \A c \in Cmds : pc[c] \in {"verify", "unpack"} => loc[c].name \in Names
    /\ \A c \in Cmds : pc[c] = "restoring" =>
          loc[c].name \in Names /\ snaps[loc[c].name] = "ok"
    /\ \A c \in Cmds : pc[c] \in {"stage", "dump", "supwait", "pack", "fill"} =>
          file.status # "restoring"

\* The control points RecoverInv speaks of.
Guarded == {"verify", "unpack", "restoring", "stage", "dump", "supwait", "pack", "fill"}

\* What most steps amount to: no snapshot changes, `restoring` is not
\* written, and no command arrives at a guarded control point.
LEMMA RecoverFrame ==
    ASSUME RecoverInv,
           \/ dir' = dir /\ file' = file
           \/ file'.status # "restoring",
           snaps' = snaps,
           \A c \in Cmds : pc'[c] \in Guarded =>
               pc'[c] = pc[c] /\ loc'[c].name = loc[c].name
    PROVE  RecoverInv'
  BY DEF RecoverInv, RestoringRecoverable, Guarded

\* The same for the steps of one actor.
LEMMA RecoverOwn ==
    ASSUME TypeOK, RecoverInv, NEW a \in Actors,
           \/ dir' = dir /\ file' = file
           \/ file'.status # "restoring",
           snaps' = snaps,
           \A d \in Cmds \ {a} : pc'[d] = pc[d] /\ loc'[d] = loc[d],
           a \in Cmds => \/ pc'[a] \notin Guarded
                         \/ pc'[a] = pc[a] /\ loc'[a].name = loc[a].name
    PROVE  RecoverInv'
  BY RecoverFrame

\* Leaving reconcile brings no command to a guarded control point.
LEMMA AfterSweepOwn ==
    ASSUME TypeOK, NEW c \in Cmds, AfterSweep(c)
    PROVE  /\ \A d \in Cmds \ {c} : pc'[d] = pc[d] /\ loc'[d] = loc[d]
           /\ pc'[c] \notin Guarded
  BY DEF AfterSweep, Return, Goto, Bind, TypeOK, Actors, Guarded

\* A step of the one command in flight keeps RecoverInv.
LEMMA CmdStepRecover ==
    ASSUME OneOperator, TypeOK, RecoverInv, NEW c \in Cmds, CmdStep(c)
    PROVE  RecoverInv'
  <1>. USE DEF disk, host, env, Goto, Bind, Return, Actors
  <1>a. c \in Actors /\ \A d \in Cmds : d = c
    BY DEF OneOperator
  <1>1. CASE AwaitUp(c)
    BY <1>1, <1>a, RecoverOwn DEF TypeOK, AwaitUp, Guarded
  <1>2. CASE AwaitDead(c)
    BY <1>2, <1>a, RecoverOwn DEF TypeOK, AwaitDead, Guarded
  <1>3. CASE AwaitTimeout(c)
    BY <1>3, <1>a, RecoverOwn DEF TypeOK, AwaitTimeout, Guarded
  <1>4. CASE SigTerm(c)
    BY <1>4, <1>a, RecoverOwn DEF TypeOK, SigTerm, Guarded
  <1>5. CASE SigKill(c)
    BY <1>5, <1>a, RecoverOwn DEF TypeOK, SigKill, Guarded
  <1>6. CASE Load(c)
    BY <1>6, <1>a, RecoverOwn DEF TypeOK, Load, Guarded, UpdatePc, Locals
  <1>7. CASE SweepReap(c)
    BY <1>7, <1>a, RecoverOwn DEF TypeOK, SweepReap, Guarded
  <1>8. CASE SweepDebris(c)
    BY <1>8, <1>a, RecoverOwn DEF TypeOK, SweepDebris, Guarded
  <1>9. CASE Prep(c)
    BY <1>9, <1>a, RecoverOwn DEF TypeOK, Prep, Guarded
  <1>10. CASE PrepFail(c)
    BY <1>10, <1>a, RecoverOwn DEF TypeOK, PrepFail, Guarded
  <1>11. CASE EngineFail(c)
    BY <1>11, <1>a, RecoverOwn DEF TypeOK, EngineFail, Guarded
  <1>12. CASE Build(c)
    BY <1>12, <1>a, RecoverOwn DEF TypeOK, Build, Guarded
  <1>13. CASE BuildFail(c)
    BY <1>13, <1>a, RecoverOwn DEF TypeOK, BuildFail, Guarded
  <1>14. CASE Rollback(c)
    BY <1>14, <1>a, RecoverOwn DEF TypeOK, Rollback, Guarded
  <1>15. CASE Clean(c)
    BY <1>15, <1>a, RecoverOwn DEF TypeOK, Clean, Guarded
  <1>16. CASE DumpFail(c)
    BY <1>16, <1>a, RecoverOwn DEF TypeOK, DumpFail, Guarded
  <1>17. CASE PackFail(c)
    BY <1>17, <1>a, RecoverOwn DEF TypeOK, PackFail, Guarded
  <1>18. CASE Unrestore(c)
    <2>1. loc[c] \in Locals /\ loc[c].buf \in State
      BY <1>18 DEF TypeOK, Unrestore, Save, Locals
    <2>2. file'.status # "restoring"
      BY <1>18, <2>1 DEF Unrestore, Save, State
    <2>. QED  BY <1>18, <1>a, <2>2, RecoverOwn DEF TypeOK, Unrestore, Save, Guarded
  <1>19. CASE CommitRestored(c)
    <2>1. loc[c] \in Locals /\ loc[c].buf \in State
      BY <1>19 DEF TypeOK, CommitRestored, Save, Locals
    <2>2. file'.status # "restoring"
      BY <1>19, <2>1 DEF CommitRestored, Save, State, SetRestored
    <2>. QED  BY <1>19, <1>a, <2>2, RecoverOwn DEF TypeOK, CommitRestored, Save, Guarded
  <1>20. CASE Undump(c)
    <2>1. loc[c] \in Locals /\ loc[c].buf \in State
      BY <1>20 DEF TypeOK, Undump, Save, Locals
    <2>2. file'.status # "restoring"
      BY <1>20, <2>1 DEF Undump, Save, State
    <2>. QED  BY <1>20, <1>a, <2>2, RecoverOwn DEF TypeOK, Undump, Save, Guarded
  <1>21. CASE Commit(c)
    <2>1. loc[c] \in Locals /\ loc[c].buf \in State
      BY <1>21 DEF TypeOK, Commit, Save, Locals
    <2>2. file'.status # "restoring"
      BY <1>21, <2>1 DEF Commit, Save, State, KeptRunning, SetCheckpointed
    <2>. QED  BY <1>21, <1>a, <2>2, RecoverOwn DEF TypeOK, Commit, Save, Guarded
  <1>22. CASE Sweep(c)
    <2>1. CASE dir /\ Stale(file)
      BY <1>22, <1>a, <2>1, RecoverOwn DEF TypeOK, Sweep, Guarded
    <2>2. CASE ~(dir /\ Stale(file))
      BY <1>22, <1>a, <2>2, AfterSweepOwn, RecoverOwn DEF Sweep
    <2>. QED  BY <2>1, <2>2
  <1>23. CASE Settle(c)
    <2>1. loc[c] \in Locals /\ loc[c].buf \in State
      BY <1>23 DEF TypeOK, Settle, Save, Locals
    <2>2. file'.status # "restoring"
      BY <1>23, <2>1 DEF Settle, Save, State
    <2>. QED  BY <1>23, <1>a, <2>2, AfterSweepOwn, RecoverOwn DEF Settle, Save
  <1>24. CASE Pick(c)
    <2>1. loc[c] \in Locals /\ Resolve(loc[c].name) \in Names \cup {None}
      BY ResolveType DEF TypeOK, Locals
    <2>2. CASE AlreadyRunning \/ Resolve(loc[c].name) = None
      BY <1>24, <1>a, <2>2, RecoverOwn DEF TypeOK, Pick, Guarded
    <2>3. CASE ~(AlreadyRunning \/ Resolve(loc[c].name) = None)
      <3>1. pc'[c] = "verify" /\ loc'[c].name \in Names
        BY <1>24, <1>a, <2>1, <2>3 DEF TypeOK, Pick, Locals
      <3>. QED  BY <1>24, <1>a, <3>1 DEF Pick, RecoverInv, RestoringRecoverable
    <2>. QED  BY <2>2, <2>3
  <1>25. CASE Verify(c)
    <2>1. CASE Goto(c, "unpack") /\ UNCHANGED loc
      BY <1>25, <1>a, <2>1 DEF TypeOK, Verify, RecoverInv, RestoringRecoverable
    <2>2. CASE Return(c)
      BY <1>25, <1>a, <2>2, RecoverOwn DEF TypeOK, Verify, Guarded
    <2>. QED  BY <1>25, <2>1, <2>2 DEF Verify
  <1>26. CASE Unpack(c)
    <2>1. CASE Whole(loc[c].name) /\ Goto(c, "restoring") /\ UNCHANGED loc
      BY <1>26, <1>a, <2>1 DEF TypeOK, Unpack, Whole, RecoverInv, RestoringRecoverable
    <2>2. CASE Return(c)
      BY <1>26, <1>a, <2>2, RecoverOwn DEF TypeOK, Unpack, Guarded
    <2>. QED  BY <1>26, <2>1, <2>2 DEF Unpack
  <1>27. CASE MarkRestoring(c)
    <2>1. snaps' = snaps /\ pc'[c] = "prep" /\ snaps[loc[c].name] = "ok"
          /\ loc[c].name \in Names
      BY <1>27, <1>a DEF TypeOK, MarkRestoring, Save, RecoverInv
    <2>. QED  BY <1>a, <2>1 DEF RecoverInv, RestoringRecoverable
  <1>28. CASE Mark(c)
    <2>1. loc[c] \in Locals /\ loc[c].buf \in State
      BY <1>28 DEF TypeOK, Mark, Save, Locals
    <2>2. file'.status # "restoring" /\ pc'[c] = "stage"
      BY <1>28, <1>a, <2>1 DEF Mark, Save, State, TypeOK
    <2>. QED  BY <1>a, <2>2 DEF RecoverInv, RestoringRecoverable
  <1>29. CASE Stage(c)
    <2>1. pc[c] \in {"stage", "dump", "supwait"}
          /\ pc'[c] \in {"idle", "dump", "supwait", "pack"}
          /\ UNCHANGED <<dir, file, snaps>>
      BY <1>29, <1>a DEF TypeOK, Stage
    <2>. QED  BY <1>a, <2>1 DEF RecoverInv, RestoringRecoverable
  <1>30. CASE DumpOk(c)
    <2>1. pc[c] \in {"stage", "dump", "supwait"}
          /\ pc'[c] \in {"idle", "dump", "supwait", "pack"}
          /\ UNCHANGED <<dir, file, snaps>>
      BY <1>30, <1>a DEF TypeOK, DumpOk
    <2>. QED  BY <1>a, <2>1 DEF RecoverInv, RestoringRecoverable
  <1>31. CASE SupWait(c)
    <2>1. pc[c] \in {"stage", "dump", "supwait"}
          /\ pc'[c] \in {"idle", "dump", "supwait", "pack"}
          /\ UNCHANGED <<dir, file, snaps>>
      BY <1>31, <1>a DEF TypeOK, SupWait
    <2>. QED  BY <1>a, <2>1 DEF RecoverInv, RestoringRecoverable
  <1>32. CASE PackOpen(c)
    <2>1. pc[c] \in {"pack", "fill"} /\ pc'[c] \in {"fill", "commit"} /\ file' = file
      BY <1>32, <1>a DEF TypeOK, PackOpen
    <2>. QED  BY <1>a, <2>1 DEF RecoverInv, RestoringRecoverable
  <1>33. CASE PackDone(c)
    <2>1. pc[c] \in {"pack", "fill"} /\ pc'[c] \in {"fill", "commit"} /\ file' = file
      BY <1>33, <1>a DEF TypeOK, PackDone
    <2>. QED  BY <1>a, <2>1 DEF RecoverInv, RestoringRecoverable
  <1>34. ASSUME NEW p \in Pids, EngineOk(c, p) PROVE RecoverInv'
    BY <1>34, <1>a, RecoverOwn DEF TypeOK, EngineOk, Guarded
  <1>35. ASSUME NEW p \in Pids, EngineBlind(c, p) PROVE RecoverInv'
    BY <1>35, <1>a, RecoverOwn DEF TypeOK, EngineBlind, Guarded
  <1>. QED
    BY <1>1, <1>2, <1>3, <1>4, <1>5, <1>6, <1>7, <1>8, <1>9, <1>10,
         <1>11, <1>12, <1>13, <1>14, <1>15, <1>16, <1>17, <1>18, <1>19, <1>20,
         <1>21, <1>22, <1>23, <1>24, <1>25, <1>26, <1>27, <1>28, <1>29, <1>30,
         <1>31, <1>32, <1>33, <1>34, <1>35 DEF CmdStep

\* A step of a supervisor keeps RecoverInv.
LEMMA SupStepRecover ==
    ASSUME TypeOK, RecoverInv, NEW s \in Sups, SupStep(s) \/ SupKilled(s)
    PROVE  RecoverInv'
  <1>. USE DEF disk, host, env, Goto, Bind, Return, Actors
  <1>a. s \in Actors /\ s \notin Cmds
    BY DistinctActors
  <1>1. CASE SupCgroup(s)
    BY <1>1, <1>a, RecoverOwn DEF TypeOK, SupCgroup
  <1>2. CASE SupCgroupFail(s)
    BY <1>2, <1>a, RecoverOwn DEF TypeOK, SupCgroupFail
  <1>3. CASE Load(s)
    BY <1>3, <1>a, RecoverOwn DEF TypeOK, Load
  <1>4. CASE SupLost(s)
    BY <1>4, <1>a, RecoverOwn DEF TypeOK, SupLost
  <1>5. CASE SupReap(s)
    BY <1>5, <1>a, RecoverOwn DEF TypeOK, SupReap
  <1>6. CASE SupNetDown(s)
    BY <1>6, <1>a, RecoverOwn DEF TypeOK, SupNetDown
  <1>7. CASE SupCgDown(s)
    BY <1>7, <1>a, RecoverOwn DEF TypeOK, SupCgDown
  <1>8. CASE SupCheck(s)
    BY <1>8, <1>a, RecoverOwn DEF TypeOK, SupCheck
  <1>9. CASE SupKilled(s)
    BY <1>9, <1>a, RecoverOwn DEF TypeOK, SupKilled
  <1>10. CASE SupFail(s)
    <2>1. loc[s] \in Locals /\ loc[s].buf \in State
      BY <1>10 DEF TypeOK, SupFail, Save, Locals
    <2>2. file'.status # "restoring"
      BY <1>10, <2>1 DEF SupFail, Save, State, SetStopped
    <2>. QED  BY <1>10, <1>a, <2>2, RecoverOwn DEF TypeOK, SupFail, Save
  <1>11. CASE SupPublish(s)
    <2>1. loc[s] \in Locals /\ loc[s].buf \in State
      BY <1>11 DEF TypeOK, SupPublish, Save, Locals
    <2>2. file'.status # "restoring"
      BY <1>11, <2>1 DEF SupPublish, Save, State, SetRunningUnder
    <2>. QED  BY <1>11, <1>a, <2>2, RecoverOwn DEF TypeOK, SupPublish, Save
  <1>12. CASE SupStop(s)
    <2>1. loc[s] \in Locals /\ loc[s].buf \in State
      BY <1>12 DEF TypeOK, SupStop, Save, Locals
    <2>2. file'.status # "restoring"
      BY <1>12, <2>1 DEF SupStop, Save, State, SetStopped
    <2>. QED  BY <1>12, <1>a, <2>2, RecoverOwn DEF TypeOK, SupStop, Save
  <1>13. ASSUME NEW p \in Pids, SupFork(s, p) PROVE RecoverInv'
    BY <1>13, <1>a, RecoverOwn DEF TypeOK, SupFork
  <1>14. ASSUME NEW p \in Pids, SupForkFail(s, p) PROVE RecoverInv'
    BY <1>14, <1>a, RecoverOwn DEF TypeOK, SupForkFail
  <1>. QED
    BY <1>1, <1>2, <1>3, <1>4, <1>5, <1>6, <1>7, <1>8, <1>9, <1>10,
         <1>11, <1>12, <1>13, <1>14 DEF SupStep

\* Issuing a command keeps RecoverInv.
LEMMA InvokeRecover ==
    ASSUME TypeOK, RecoverInv, NEW c \in Cmds, Invoke(c)
    PROVE  RecoverInv'
  <1>. USE DEF disk, host, env, Goto, Bind, Return, Actors
  <1>1. CASE Create(c)
    BY <1>1, RecoverFrame DEF Create, NewState
  <1>2. CASE Rm(c)
    BY <1>2 DEF Rm, NewState, RecoverInv, RestoringRecoverable
  <1>3. CASE Stop(c)
    BY <1>3, RecoverOwn DEF TypeOK, Stop, Guarded
  <1>4. CASE Ps(c)
    BY <1>4, RecoverOwn DEF TypeOK, Ps, Guarded
  <1>5. ASSUME NEW s \in Sups, Start(c, s) PROVE RecoverInv'
    BY <1>5, DistinctActors, RecoverOwn DEF TypeOK, Start, Guarded
  <1>8. ASSUME NEW s \in Sups, StartForeground(c, s) PROVE RecoverInv'
    BY <1>8, DistinctActors, RecoverOwn DEF TypeOK, StartForeground
  <1>6. ASSUME NEW n \in Names \cup {None}, Restore(c, n) PROVE RecoverInv'
    BY <1>6, RecoverOwn DEF TypeOK, Restore, Guarded
  <1>7. ASSUME NEW n \in Names, NEW leave \in BOOLEAN, Checkpoint(c, n, leave)
        PROVE RecoverInv'
    BY <1>7, RecoverOwn DEF TypeOK, Checkpoint, Guarded
  <1>. QED
    BY <1>1, <1>2, <1>3, <1>4, <1>5, <1>6, <1>7, <1>8 DEF Invoke

\* The kernel and kills keep RecoverInv.
LEMMA OthersRecover ==
    ASSUME TypeOK, RecoverInv, (\E c \in Cmds : Crash(c)) \/ Kernel
    PROVE  RecoverInv'
  <1>. USE DEF disk, host, env, Goto, Bind, Return, Actors
  <1>1. ASSUME NEW c \in Cmds, Crash(c) PROVE RecoverInv'
    BY <1>1, RecoverOwn DEF TypeOK, Crash, Guarded
  <1>2. CASE Kernel
    BY <1>2, RecoverFrame
       DEF Kernel, NetnsGone, Exit, Recycle, OrphanDump, OrphanRestore
  <1>. QED  BY <1>1, <1>2

\* Whatever fails, is killed or exits, and at whatever moment: as long as one
\* command runs at a time, a container that state.json shows as `restoring`
\* has a whole snapshot, so the restore "can simply be run again"
\* (restore.rs:11-13).
THEOREM RestoringAlwaysRecoverable ==
    ASSUME OneOperator
    PROVE  Spec => []RestoringRecoverable
  <1>1. Init => RecoverInv
    BY DistinctActors DEF Init, NewState, RecoverInv, RestoringRecoverable, Actors
  <1>2. TypeOK /\ RecoverInv /\ [Next]_vars => RecoverInv'
    <2>1. TypeOK /\ RecoverInv /\ UNCHANGED vars => RecoverInv'
      BY RecoverFrame DEF vars, disk
    <2>. QED
      BY <2>1, CmdStepRecover, SupStepRecover, InvokeRecover, OthersRecover DEF Next
  <1>3. RecoverInv => RestoringRecoverable
    BY DEF RecoverInv
  <1>. QED  BY <1>1, <1>2, <1>3, TypeCorrect, PTL DEF Spec

-----------------------------------------------------------------------------
(* One copy, on record: what a careful operator can rely on *)

\* One command at a time, each issued when it makes sense and once earlier work
\* has settled; no set-up of a container or of its network fails half way or is
\* killed, no pid file is lost and no pid reused; and nobody kills a restore between
\* its engine and its record.  Everything else may fail or be killed.
Careful ==
    /\ OneOperator /\ Cmds # {}
    /\ Patient
    /\ Uses["create"] \subseteq {"none"}
    /\ Uses["start"] \subseteq {"created"}
    /\ Uses["foreground"] \subseteq {"created"}
    /\ Uses["restore"] \subseteq {"checkpointed"}
    /\ Uses["rm"] \cap ({"running"} \cup Transient) = {}
    /\ Faults \cap {"spawn", "net", "pidfile", "fgkill", "earlykill", "recycle"} = {}
    /\ CrashPoints \cap {"engine", "build", "rollback", "restored"} = {}

Active(s) == pc[s] \notin {"unused", "gone"}
\* A supervisor whose container is not in the file yet.
Starting(s) == pc[s] \in {"cgroup", "fork", "publish"} \/ (pc[s] = "wait" /\ Foreground(s))

Sweeping == {"sweep", "reap", "debris", "settle"}
Building == {"pick", "verify", "unpack", "restoring", "prep", "engine", "build", "rollback",
             "unrestore", "restored", "clean"}
Dumping == {"mark", "stage", "dump", "undump", "supwait", "pack", "fill", "commit"}
\* Where no process of the container is left.
Empty == {"debris", "settle", "supwait", "pick", "verify", "unpack", "restoring", "prep",
          "engine", "unrestore"}
Restoring(c) == pc[c] \in Building \/ (pc[c] \in Sweeping /\ loc[c].op = "restore")

OnRecord == \A p \in Live : dir /\ file.status \in {"running"} \cup Transient /\ file.pid = p

HostInv ==
    /\ veth # "host"
    /\ \A j \in jobs : j.kind = "dump"
    /\ \A s, t \in Sups : Active(s) /\ Active(t) => s = t

\* What a supervisor relies on: it is alone while it starts a container, and what
\* runs is what it waits for.
SupInv(s) ==
    /\ pc[s] # "fail"
    /\ pc[s] = "unused" => ~Foreground(s)
    /\ pc[s] \in {"cgroup", "fork"} => Live = {} /\ (Net => veth = "absent")
    /\ pc[s] = "fork" => cgroup
    /\ pc[s] = "publish" => ~Foreground(s)
    /\ Starting(s) => dir /\ file.status = "created" /\ \A c \in Cmds : pc[c] \in {"idle", "await"}
    /\ Active(s) /\ Foreground(s) => \A c \in Cmds : pc[c] = "idle"
    /\ pc[s] \in {"publish", "wait"} => Live \subseteq {loc[s].pid}
    /\ pc[s] \in {"netdown", "cgdown", "check", "stop"} => Live = {}

\* What a command relies on: outside the build of a restore, what runs is on
\* record, or a supervisor is about to record it.
CmdInv(c) ==
    /\ Restoring(c) => \A s \in Sups : ~Active(s)
    /\ pc[c] \notin {"build", "rollback", "restored"} => OnRecord \/ \E s \in Sups : Starting(s)
    /\ pc[c] = "reap" => Live \subseteq {loc[c].buf.pid}
    /\ pc[c] \in Empty => Live = {}
    /\ Restoring(c) /\ pc[c] \in {"sweep", "reap"} => Live = {}
    /\ pc[c] \in {"build", "rollback", "restored"} => Live \subseteq {loc[c].pid}
    /\ pc[c] \in Dumping => /\ Live \subseteq {loc[c].pid}
                            /\ loc[c].buf # None /\ Live # {} => loc[c].buf.pid = loc[c].pid
    /\ pc[c] \in Dumping \ {"mark"} /\ Live # {} => file.status = "checkpointing"
    /\ pc[c] \in {"pack", "fill", "commit"} /\ ~loc[c].leave => Live = {}
    /\ pc[c] = "undump" /\ ~loc[c].flag => Live = {}

CopyInv == HostInv /\ (\A s \in Sups : SupInv(s)) /\ (\A c \in Cmds : CmdInv(c))

\* How the set of live processes changes.
LEMMA LiveEnd ==
    ASSUME TypeOK, NEW ps, NEW how \in {"dead", "dumped"}, End(ps, how)
    PROVE  Live' = Live \ ps
  BY DEF TypeOK, End, Live

\* A signal takes the process that has the pid.
LEMMA LiveHit ==
    ASSUME TypeOK, NEW p, Hit(p)
    PROVE  Live' = Live \ {p}
  <1>1. Live' = Live \ (IF Alive(p) THEN {p} ELSE {})
    BY LiveEnd DEF Hit
  <1>2. ~Alive(p) => p \notin Live
    BY DEF Alive, Live
  <1>. QED  BY <1>1, <1>2

\* A process that is forked is one more.
LEMMA LiveBorn ==
    ASSUME TypeOK, NEW p \in Pids, owner' = [owner EXCEPT ![p] = "ctr"]
    PROVE  Live' = Live \cup {p}
  BY DEF TypeOK, Live

\* A supervisor that is not starting anything does not mind what others do, as
\* long as they fork nothing.
LEMMA SupFrame ==
    ASSUME NEW s \in Sups, SupInv(s), pc'[s] = pc[s], loc'[s] = loc[s],
           ~Starting(s), Live' \subseteq Live,
           Active(s) /\ Foreground(s) => \A c \in Cmds : pc'[c] = "idle"
    PROVE  SupInv(s)'
  BY DEF SupInv, Starting, Active, Foreground

\* What is not running any more needs no record.
LEMMA CmdEmpty ==
    ASSUME NEW c \in Cmds, CmdInv(c), pc'[c] = pc[c], loc'[c] = loc[c], Live' = {},
           \A s \in Sups : Active(s)' => Active(s)
    PROVE  CmdInv(c)'
  BY DEF CmdInv, Restoring, OnRecord

\* A command that is under way takes a step of its own.
LEMMA CmdCopy ==
    ASSUME Careful, CopyInv, NEW c \in Cmds, pc[c] \notin {"idle", "await"},
           \A s \in Sups : pc'[s] = pc[s] /\ loc'[s] = loc[s],
           veth' # "host", \A j \in jobs' : j.kind = "dump",
           Live' \subseteq Live \/ Restoring(c),
           CmdInv(c)'
    PROVE  CopyInv'
  <1>1. \A d \in Cmds : d = c
    BY DEF Careful, OneOperator
  <1>2. ASSUME NEW s \in Sups  PROVE SupInv(s)'
    <2>1. ~Starting(s) /\ ~(Active(s) /\ Foreground(s)) /\ SupInv(s)
      BY DEF CopyInv, SupInv
    <2>2. CASE Live' \subseteq Live
      BY <2>1, <2>2, SupFrame
    <2>3. CASE Restoring(c)
      <3>1. ~Active(s)
        BY <2>3 DEF CopyInv, CmdInv
      <3>. QED  BY <2>1, <3>1 DEF SupInv, Active, Starting, Foreground
    <2>. QED  BY <2>2, <2>3
  <1>3. HostInv'
    BY DEF CopyInv, HostInv, Active
  <1>. QED  BY <1>1, <1>2, <1>3 DEF CopyInv

\* What a step of the command leaves alone, and what its locals are.
LEMMA CmdOnly ==
    ASSUME TypeOK, NEW c \in Cmds,
           \E l : Goto(c, l), UNCHANGED loc \/ \E r : Bind(c, r)
    PROVE  \A s \in Sups : pc'[s] = pc[s] /\ loc'[s] = loc[s]
  BY DistinctActors DEF TypeOK, Goto, Bind, Actors

\* A command that returns, with what runs on record.
LEMMA ReturnCopy ==
    ASSUME Careful, TypeOK, CopyInv, NEW c \in Cmds, pc[c] \notin {"idle", "await"}, Return(c),
           veth' # "host", \A j \in jobs' : j.kind = "dump",
           Live' \subseteq Live, OnRecord'
    PROVE  CopyInv'
  <1>1. pc'[c] = "idle" /\ \A s \in Sups : pc'[s] = pc[s] /\ loc'[s] = loc[s]
    BY CmdOnly DEF Return, Goto, Bind, TypeOK, Actors
  <1>2. CmdInv(c)'
    BY <1>1 DEF CmdInv, Restoring, Building, Sweeping, Dumping, Empty
  <1>. QED  BY <1>1, <1>2, CmdCopy

\* The steps of stop and of reconciliation.
LEMMA SweepCopy ==
    ASSUME Careful, TypeOK, CopyInv, NEW c \in Cmds,
           \/ SigTerm(c) \/ SigKill(c) \/ Sweep(c) \/ SweepReap(c) \/ SweepDebris(c) \/ Settle(c)
    PROVE  CopyInv'
  <1>. USE DEF disk, host, env
  <1>0. /\ loc[c] \in Locals /\ pc \in [Actors -> CmdPc \cup SupPc] /\ loc \in [Actors -> Locals]
        /\ c \in Actors /\ CmdInv(c) /\ HostInv
    BY DEF TypeOK, Actors, CopyInv
  <1>1. pc[c] \notin {"idle", "await", "build", "rollback", "restored"}
    BY DEF SigTerm, SigKill, Sweep, SweepReap, SweepDebris, Settle
  <1>2. OnRecord
    BY <1>0, <1>1 DEF CmdInv, CopyInv, SupInv
  <1>3. CASE SigTerm(c)
    <2>1. /\ pc'[c] = "sigkill" /\ UNCHANGED <<veth, jobs, dir, file>>
          /\ \A s \in Sups : pc'[s] = pc[s] /\ loc'[s] = loc[s]
      BY <1>0, <1>3, CmdOnly DEF SigTerm, Goto
    <2>2. Live' \subseteq Live
      <3>1. CASE Hit(loc[c].pid)
        BY <3>1, LiveHit
      <3>2. CASE owner' = owner
        BY <3>2 DEF Live
      <3>. QED  BY <1>3, <3>1, <3>2 DEF SigTerm
    <2>3. CmdInv(c)'
      BY <1>2, <2>1, <2>2 DEF CmdInv, OnRecord, Restoring, Building, Sweeping, Dumping, Empty
    <2>. QED  BY <1>0, <1>1, <2>1, <2>2, <2>3, CmdCopy DEF HostInv
  <1>4. CASE SigKill(c)
    <2>1. Live' \subseteq Live /\ UNCHANGED <<veth, jobs, dir, file>>
      BY <1>4, LiveHit DEF SigKill
    <2>2. OnRecord'
      BY <1>2, <2>1 DEF OnRecord
    <2>. QED  BY <1>0, <1>1, <1>4, <2>1, <2>2, ReturnCopy DEF SigKill, HostInv
  <1>5. ASSUME AfterSweep(c), Live' = Live, OnRecord', UNCHANGED <<veth, jobs>>,
               loc[c].op = "restore" => Live = {} /\ \A s \in Sups : ~Active(s)
        PROVE  CopyInv'
    <2>1. CASE loc[c].op = "restore"
      <3>1. /\ pc'[c] = "pick"
            /\ \A s \in Sups : pc'[s] = pc[s] /\ loc'[s] = loc[s]
        BY <1>0, <1>5, <2>1, CmdOnly DEF AfterSweep, Goto
      <3>2. CmdInv(c)'
        BY <1>5, <2>1, <3>1 DEF CmdInv, Restoring, Building, Sweeping, Dumping, Empty, Active
      <3>. QED  BY <1>0, <1>1, <1>5, <3>1, <3>2, CmdCopy DEF HostInv
    <2>2. CASE loc[c].op # "restore"
      BY <1>0, <1>1, <1>5, <2>2, ReturnCopy DEF AfterSweep, HostInv
    <2>. QED  BY <2>1, <2>2
  <1>6. CASE Sweep(c)
    <2>1. Live' = Live /\ UNCHANGED <<veth, jobs, dir, file>> /\ pc[c] = "sweep"
      BY <1>6 DEF Sweep, Live
    <2>2. Restoring(c) <=> loc[c].op = "restore"
      BY <2>1 DEF Restoring, Building, Sweeping
    <2>3. CASE dir /\ Stale(file)
      <3>1. /\ pc'[c] = "reap" /\ loc'[c] = [loc[c] EXCEPT !.buf = file]
            /\ \A s \in Sups : pc'[s] = pc[s] /\ loc'[s] = loc[s]
        BY <1>0, <1>6, <2>3, CmdOnly DEF Sweep, Goto, Bind
      <3>2. loc'[c].op = loc[c].op /\ loc'[c].buf = file
        BY <1>0, <3>1 DEF Locals
      <3>3. Live \subseteq {file.pid}
        BY <1>2 DEF OnRecord
      <3>4. OnRecord'
        BY <1>2, <2>1 DEF OnRecord
      <3>5. CmdInv(c)'
        BY <1>0, <2>1, <2>2, <3>1, <3>2, <3>3, <3>4
           DEF CmdInv, Restoring, Building, Sweeping, Dumping, Empty, Active
      <3>. QED  BY <1>0, <1>1, <2>1, <3>1, <3>5, CmdCopy DEF HostInv
    <2>4. CASE ~(dir /\ Stale(file))
      <3>1. OnRecord'
        BY <1>2, <2>1 DEF OnRecord
      <3>. QED  BY <1>0, <1>5, <1>6, <2>1, <2>2, <2>4, <3>1 DEF Sweep, CmdInv
    <2>. QED  BY <2>3, <2>4
  <1>7. CASE SweepReap(c)
    <2>1. /\ pc'[c] = "debris" /\ pc[c] = "reap" /\ loc'[c] = loc[c] /\ UNCHANGED <<veth, jobs>>
          /\ \A s \in Sups : pc'[s] = pc[s] /\ loc'[s] = loc[s]
      BY <1>0, <1>7, CmdOnly DEF SweepReap, Goto
    <2>2. Live' = {}
      BY <1>0, <1>7, <2>1, LiveHit DEF SweepReap, SweepHit, CmdInv
    <2>3. CmdInv(c)'
      BY <1>0, <2>1, <2>2 DEF CmdInv, OnRecord, Restoring, Building, Sweeping, Dumping, Empty, Active
    <2>. QED  BY <1>0, <1>1, <2>1, <2>2, <2>3, CmdCopy DEF HostInv
  <1>8. CASE SweepDebris(c)
    <2>. DEFINE f == HasSnapshot(loc[c].buf)
    <2>1. /\ pc'[c] = "settle" /\ pc[c] = "debris" /\ loc'[c] = [loc[c] EXCEPT !.buf = None, !.flag = f]
          /\ veth' # "host" /\ UNCHANGED jobs
          /\ \A s \in Sups : pc'[s] = pc[s] /\ loc'[s] = loc[s]
      BY <1>0, <1>8, CmdOnly DEF SweepDebris, Goto, Bind, HostInv
    <2>. HIDE DEF f
    <2>2. Live' = {} /\ loc'[c].op = loc[c].op
      BY <1>0, <1>8, <2>1 DEF SweepDebris, CmdInv, Empty, Live, Locals
    <2>3. CmdInv(c)'
      BY <1>0, <2>1, <2>2 DEF CmdInv, OnRecord, Restoring, Building, Sweeping, Dumping, Empty, Active
    <2>. QED  BY <1>0, <1>1, <2>1, <2>2, <2>3, CmdCopy DEF HostInv
  <1>9. CASE Settle(c)
    <2>1. Live' = Live /\ Live = {} /\ UNCHANGED <<veth, jobs>> /\ pc[c] = "settle"
      BY <1>0, <1>9 DEF Settle, CmdInv, Empty, Live
    <2>2. loc[c].op = "restore" => Restoring(c)
      BY <2>1 DEF Restoring, Sweeping
    <2>3. OnRecord'
      BY <2>1 DEF OnRecord
    <2>. QED  BY <1>0, <1>5, <1>9, <2>1, <2>2, <2>3 DEF Settle, CmdInv
  <1>. QED  BY <1>3, <1>4, <1>6, <1>7, <1>8, <1>9

\* A start that stops waiting leaves its supervisor to itself.
LEMMA AwaitCopy ==
    ASSUME Careful, TypeOK, CopyInv, NEW c \in Cmds, pc[c] = "await", Return(c),
           UNCHANGED <<dir, file, owner, cgroup, veth, jobs>>
    PROVE  CopyInv'
  <1>1. pc[c] = "await" /\ Return(c) /\ UNCHANGED <<dir, file, owner, cgroup, veth, jobs>>
    OBVIOUS
  <1>2. pc'[c] = "idle" /\ \A s \in Sups : pc'[s] = pc[s] /\ loc'[s] = loc[s]
    BY <1>1, CmdOnly DEF Return, Goto, Bind, TypeOK, Actors
  <1>3. \A d \in Cmds : d = c
    BY DEF Careful, OneOperator
  <1>4. Live' = Live
    BY <1>1 DEF Live
  <1>5. CmdInv(c)'
    <2>1. CmdInv(c)
      BY DEF CopyInv
    <2>2. (OnRecord \/ \E s \in Sups : Starting(s)) => (OnRecord \/ \E s \in Sups : Starting(s))'
      BY <1>1, <1>2, <1>4 DEF OnRecord, Starting, Foreground
    <2>. QED
      BY <1>1, <1>2, <2>1, <2>2 DEF CmdInv, Restoring, Building, Sweeping, Dumping, Empty
  <1>6. ASSUME NEW s \in Sups  PROVE SupInv(s)'
    BY <1>1, <1>2, <1>3, <1>4 DEF CopyInv, SupInv, Starting, Active, Foreground
  <1>7. HostInv'
    BY <1>1, <1>2 DEF CopyInv, HostInv, Active
  <1>. QED  BY <1>3, <1>5, <1>6, <1>7 DEF CopyInv

\* A command loads the file before it edits it.
LEMMA LoadCopy ==
    ASSUME Careful, TypeOK, CopyInv, NEW c \in Cmds, Load(c)
    PROVE  CopyInv'
  <1>0. /\ loc[c] \in Locals /\ pc \in [Actors -> CmdPc \cup SupPc] /\ loc \in [Actors -> Locals]
        /\ c \in Actors /\ CmdInv(c) /\ HostInv
    BY DEF TypeOK, Actors, CopyInv
  <1>1. /\ pc[c] \in UpdatePc /\ UNCHANGED <<dir, file, owner, veth, jobs, pc>>
        /\ loc'[c] = [loc[c] EXCEPT !.buf = file]
        /\ \A s \in Sups : pc'[s] = pc[s] /\ loc'[s] = loc[s]
    BY <1>0, DistinctActors DEF Load, Bind, disk, host, env, Actors
  <1>2. /\ loc'[c].buf = file /\ loc'[c].op = loc[c].op /\ loc'[c].pid = loc[c].pid
        /\ loc'[c].leave = loc[c].leave /\ loc'[c].flag = loc[c].flag
    BY <1>0, <1>1 DEF Locals
  <1>3. Live' = Live /\ (OnRecord => OnRecord') /\ (Restoring(c)' <=> Restoring(c))
    BY <1>1, <1>2 DEF Live, OnRecord, Restoring
  <1>4. pc[c] \in Dumping => OnRecord
    BY <1>0 DEF CmdInv, CopyInv, SupInv, Dumping
  <1>5. pc[c] \in Dumping /\ Live # {} => file.pid = loc[c].pid
    BY <1>0, <1>4 DEF CmdInv, OnRecord
  <1>6. CmdInv(c)'
    <2>1. (OnRecord \/ \E s \in Sups : Starting(s)) => (OnRecord \/ \E s \in Sups : Starting(s))'
      BY <1>1, <1>3 DEF Starting, Foreground
    <2>2. \A s \in Sups : Active(s)' <=> Active(s)
      BY <1>1 DEF Active
    <2>. QED
      BY <1>0, <1>1, <1>2, <1>3, <1>5, <2>1, <2>2 DEF CmdInv, UpdatePc
  <1>7. pc[c] \notin {"idle", "await"}
    BY <1>1 DEF UpdatePc
  <1>. QED  BY <1>0, <1>1, <1>3, <1>6, <1>7, CmdCopy DEF HostInv

\* The steps of restore once the file is swept.
LEMMA RestoreCopy ==
    ASSUME Careful, TypeOK, CopyInv, NEW c \in Cmds,
           \/ Pick(c) \/ Verify(c) \/ Unpack(c) \/ MarkRestoring(c) \/ Prep(c) \/ PrepFail(c)
           \/ \E p \in Pids : EngineOk(c, p) \/ EngineBlind(c, p)
           \/ EngineFail(c) \/ Build(c) \/ BuildFail(c) \/ Rollback(c) \/ Unrestore(c)
           \/ CommitRestored(c) \/ Clean(c)
    PROVE  CopyInv'
  <1>. USE DEF disk, host, env
  <1>0. /\ loc[c] \in Locals /\ pc \in [Actors -> CmdPc \cup SupPc] /\ loc \in [Actors -> Locals]
        /\ c \in Actors /\ CmdInv(c) /\ HostInv
    BY DEF TypeOK, Actors, CopyInv
  <1>1. pc[c] \in Building
    BY DEF Pick, Verify, Unpack, MarkRestoring, Prep, PrepFail, EngineOk, EngineBlind,
           EngineFail, Build, BuildFail, Rollback, Unrestore, CommitRestored, Clean, Building
  <1>2. /\ Restoring(c) /\ \A s \in Sups : ~Active(s) /\ ~Starting(s)
        /\ pc[c] \notin {"idle", "await"}
    BY <1>0, <1>1 DEF Restoring, CmdInv, Active, Starting, Building
  <1>3. ASSUME NEW l \in Building, Goto(c, l), UNCHANGED loc \/ \E r : Bind(c, r),
               veth' # "host", UNCHANGED jobs,
               l \notin {"build", "rollback", "restored"} => OnRecord',
               l \in Empty => Live' = {},
               l \in {"build", "rollback", "restored"} => Live' \subseteq {loc'[c].pid}
        PROVE  CopyInv'
    <2>1. pc'[c] = l /\ \A s \in Sups : pc'[s] = pc[s] /\ loc'[s] = loc[s]
      BY <1>0, <1>3, CmdOnly DEF Goto
    <2>2. CmdInv(c)'
      BY <1>2, <1>3, <2>1 DEF CmdInv, Restoring, Building, Sweeping, Dumping, Active
    <2>. QED  BY <1>0, <1>2, <1>3, <2>1, <2>2, CmdCopy DEF HostInv
  <1>4. ASSUME Return(c), UNCHANGED <<owner, veth, jobs>>, OnRecord'
        PROVE  CopyInv'
    <2>1. Live' = Live
      BY <1>4 DEF Live
    <2>. QED  BY <1>0, <1>2, <1>4, <2>1, ReturnCopy DEF HostInv
  <1>5. CASE \/ Pick(c) \/ Verify(c) \/ Unpack(c) \/ MarkRestoring(c) \/ Prep(c) \/ PrepFail(c)
             \/ EngineFail(c) \/ Unrestore(c)
    <2>1. UNCHANGED <<owner, veth, jobs>>
      BY <1>5 DEF Pick, Verify, Unpack, MarkRestoring, Prep, PrepFail, EngineFail, Unrestore
    <2>2. Live = {}
      BY <1>0, <1>5 DEF Pick, Verify, Unpack, MarkRestoring, Prep, PrepFail, EngineFail, Unrestore,
                        CmdInv, Empty
    <2>3. Live' = {} /\ OnRecord' /\ veth' # "host"
      BY <1>0, <2>1, <2>2 DEF Live, OnRecord, HostInv
    <2>4. \/ Return(c)
          \/ \E l \in Building : Goto(c, l) /\ (UNCHANGED loc \/ \E r : Bind(c, r))
      BY <1>5 DEF Pick, Verify, Unpack, MarkRestoring, Prep, PrepFail, EngineFail, Unrestore,
                  Building
    <2>. QED  BY <1>3, <1>4, <2>1, <2>3, <2>4
  <1>6. ASSUME NEW p \in Pids, EngineOk(c, p)  PROVE CopyInv'
    <2>1. Live' = {p}
      BY <1>0, <1>6, LiveBorn DEF EngineOk, CmdInv, Empty
    <2>2. loc'[c].pid = p
      BY <1>0, <1>6 DEF EngineOk, Bind, Locals
    <2>. QED  BY <1>0, <1>3, <1>6, <2>1, <2>2 DEF EngineOk, HostInv, Building, Empty
  <1>7. ASSUME NEW p \in Pids, EngineBlind(c, p)  PROVE FALSE
    BY <1>7 DEF EngineBlind, Careful
  <1>8. CASE Build(c)
    <2>1. veth' # "host" /\ UNCHANGED jobs /\ Live' = Live /\ loc'[c] = loc[c]
      BY <1>0, <1>8, DistinctActors DEF Build, Alive, HostInv, Live
    <2>2. Live' \subseteq {loc'[c].pid}
      BY <1>0, <1>8, <2>1 DEF Build, CmdInv
    <2>. QED  BY <1>3, <1>8, <2>1, <2>2 DEF Build, Building, Empty
  <1>9. CASE BuildFail(c)
    <2>. DEFINE q == loc[c].pid
    <2>1. PICK joined \in BOOLEAN, v \in {veth, "host", q} :
               /\ HalfWired(q, joined, v, "net" \in Faults \/ ("build" \in Faults /\ v = veth))
               /\ veth' = v
      BY <1>9 DEF BuildFail
    <2>2. veth' = veth
      BY <2>1 DEF HalfWired, Careful
    <2>3. UNCHANGED jobs /\ Live' = Live /\ loc'[c] = loc[c]
      BY <1>9 DEF BuildFail, Live
    <2>4. Live' \subseteq {loc'[c].pid}
      BY <1>0, <1>9, <2>3 DEF BuildFail, CmdInv
    <2>. QED  BY <1>0, <1>3, <1>9, <2>2, <2>3, <2>4 DEF BuildFail, Building, Empty, HostInv
  <1>10. CASE Rollback(c)
    <2>1. Live' = {}
      BY <1>0, <1>10, LiveHit DEF Rollback, RollbackHit, CmdInv
    <2>2. OnRecord'
      BY <2>1 DEF OnRecord
    <2>. QED  BY <1>0, <1>3, <1>10, <2>1, <2>2 DEF Rollback, Building, Empty, HostInv
  <1>11. CASE CommitRestored(c)
    <2>1. loc[c].buf \in State /\ Live' = Live /\ Live \subseteq {loc[c].pid}
      BY <1>0, <1>11 DEF CommitRestored, Save, Locals, Live, CmdInv
    <2>2. file'.status = "running" /\ file'.pid = loc[c].pid /\ dir'
      BY <1>11, <2>1 DEF CommitRestored, Save, SetRestored, State
    <2>3. OnRecord'
      BY <2>1, <2>2 DEF OnRecord
    <2>. QED  BY <1>0, <1>3, <1>11, <2>3 DEF CommitRestored, Building, Empty, HostInv
  <1>12. CASE Clean(c)
    <2>1. OnRecord /\ UNCHANGED <<owner, veth, jobs, dir, file>>
      BY <1>0, <1>2, <1>12 DEF Clean, CmdInv
    <2>2. OnRecord'
      BY <2>1 DEF OnRecord, Live
    <2>. QED  BY <1>4, <1>12, <2>1, <2>2 DEF Clean
  <1>. QED  BY <1>5, <1>6, <1>7, <1>8, <1>9, <1>10, <1>11, <1>12

\* The steps of checkpoint.
LEMMA DumpCopy ==
    ASSUME Careful, TypeOK, CopyInv, NEW c \in Cmds,
           \/ Mark(c) \/ Stage(c) \/ DumpOk(c) \/ DumpFail(c) \/ Undump(c) \/ SupWait(c)
           \/ PackOpen(c) \/ PackDone(c) \/ PackFail(c) \/ Commit(c)
    PROVE  CopyInv'
  <1>. USE DEF disk, host, env
  <1>0. /\ loc[c] \in Locals /\ pc \in [Actors -> CmdPc \cup SupPc] /\ loc \in [Actors -> Locals]
        /\ c \in Actors /\ CmdInv(c) /\ HostInv
    BY DEF TypeOK, Actors, CopyInv
  <1>1. pc[c] \in Dumping
    BY DEF Mark, Stage, DumpOk, DumpFail, Undump, SupWait, PackOpen, PackDone, PackFail, Commit,
           Dumping
  <1>2. OnRecord /\ pc[c] \notin {"idle", "await"} /\ Live \subseteq {loc[c].pid}
    BY <1>0, <1>1 DEF CmdInv, CopyInv, SupInv, Dumping
  <1>3. ASSUME NEW l \in Dumping \ {"mark"}, Goto(c, l), UNCHANGED loc \/ \E r : Bind(c, r),
               UNCHANGED <<veth, jobs>>, Live' \subseteq Live, OnRecord',
               loc'[c].pid = loc[c].pid, loc'[c].leave = loc[c].leave,
               loc'[c].buf \in {loc[c].buf, None},
               Live' # {} => file'.status = "checkpointing",
               l = "supwait" => Live' = {},
               l \in {"pack", "fill", "commit"} /\ ~loc[c].leave => Live' = {},
               l = "undump" /\ ~loc'[c].flag => Live' = {}
        PROVE  CopyInv'
    <2>1. pc'[c] = l /\ \A s \in Sups : pc'[s] = pc[s] /\ loc'[s] = loc[s]
      BY <1>0, <1>3, CmdOnly DEF Goto
    <2>2. loc'[c].buf # None /\ Live' # {} => loc'[c].buf.pid = loc'[c].pid
      BY <1>0, <1>1, <1>3 DEF CmdInv
    <2>3. CmdInv(c)'
      BY <1>2, <1>3, <2>1, <2>2 DEF CmdInv, Restoring, Building, Sweeping, Dumping, Empty
    <2>. QED  BY <1>0, <1>2, <1>3, <2>1, <2>3, CmdCopy DEF HostInv
  <1>4. ASSUME Return(c), UNCHANGED <<owner, veth, jobs>>, OnRecord'
        PROVE  CopyInv'
    <2>1. Live' = Live
      BY <1>4 DEF Live
    <2>. QED  BY <1>0, <1>2, <1>4, <2>1, ReturnCopy DEF HostInv
  <1>5. OnRecord /\ UNCHANGED <<dir, file>> /\ Live' \subseteq Live => OnRecord'
    BY DEF OnRecord
  <1>6. CASE Mark(c)
    <2>1. loc[c].buf \in State /\ Live' = Live
      BY <1>0, <1>6 DEF Mark, Save, Locals, Live
    <2>2. file'.status = "checkpointing" /\ file'.pid = loc[c].buf.pid /\ dir'
      BY <1>6, <2>1 DEF Mark, Save, State
    <2>3. Live # {} => loc[c].buf.pid = loc[c].pid
      BY <1>0, <1>1, <1>6 DEF Mark, Save, CmdInv
    <2>4. OnRecord'
      BY <1>2, <2>1, <2>2, <2>3 DEF OnRecord, Transient
    <2>5. loc'[c].pid = loc[c].pid /\ loc'[c].leave = loc[c].leave /\ loc'[c].buf = None
      BY <1>0, <1>6 DEF Mark, Bind, Locals
    <2>. QED  BY <1>3, <1>6, <2>1, <2>2, <2>4, <2>5 DEF Mark, Dumping
  <1>7. CASE Stage(c)
    <2>1. UNCHANGED <<dir, file, owner, veth, jobs>> /\ Live' = Live
      BY <1>7 DEF Stage, Live
    <2>2. CASE Return(c)
      BY <1>2, <1>4, <1>5, <2>1, <2>2
    <2>3. CASE Goto(c, "dump") /\ UNCHANGED loc
      <3>1. Live' # {} => file'.status = "checkpointing"
        BY <1>0, <1>7, <2>1 DEF Stage, CmdInv, Dumping
      <3>. QED  BY <1>2, <1>3, <1>5, <2>1, <2>3, <3>1 DEF Dumping
    <2>. QED  BY <1>7, <2>2, <2>3 DEF Stage
  <1>8. CASE DumpOk(c)
    <2>1. UNCHANGED <<dir, file, veth, jobs, loc>>
      BY <1>8 DEF DumpOk
    <2>2. Live # {} => file'.status = "checkpointing"
      BY <1>0, <1>8, <2>1 DEF DumpOk, CmdInv, Dumping
    <2>3. CASE loc[c].leave
      <3>1. Live' = Live
        BY <1>8, <2>3 DEF DumpOk, Live
      <3>. QED  BY <1>2, <1>3, <1>5, <1>8, <2>1, <2>2, <2>3, <3>1 DEF DumpOk, Dumping
    <2>4. CASE ~loc[c].leave
      <3>1. Live' = {}
        BY <1>2, <1>8, <2>4, LiveEnd DEF DumpOk
      <3>. QED  BY <1>2, <1>3, <1>5, <1>8, <2>1, <2>2, <2>4, <3>1 DEF DumpOk, Dumping
    <2>. QED  BY <2>3, <2>4
  <1>9. CASE DumpFail(c)
    <2>. DEFINE f == owner'[loc[c].pid] \in {"ctr", "other"}
    <2>1. /\ UNCHANGED <<dir, file, veth, jobs>> /\ Goto(c, "undump")
          /\ Bind(c, [loc[c] EXCEPT !.flag = f])
      BY <1>9 DEF DumpFail
    <2>2. Live' \subseteq Live
      <3>1. CASE Hit(loc[c].pid)
        BY <3>1, LiveHit
      <3>2. CASE owner' = owner
        BY <3>2 DEF Live
      <3>. QED  BY <1>9, <3>1, <3>2 DEF DumpFail
    <2>3. ~f => Live' = {}
      BY <1>2, <2>2 DEF Live
    <2>. HIDE DEF f
    <2>4. /\ loc'[c].pid = loc[c].pid /\ loc'[c].leave = loc[c].leave /\ loc'[c].buf = loc[c].buf
          /\ loc'[c].flag = f
      BY <1>0, <2>1 DEF Bind, Locals
    <2>5. Live # {} => file'.status = "checkpointing"
      BY <1>0, <1>9, <2>1 DEF DumpFail, CmdInv, Dumping
    <2>. QED  BY <1>2, <1>3, <1>5, <2>1, <2>2, <2>3, <2>4, <2>5 DEF Dumping
  <1>10. CASE Undump(c)
    <2>1. loc[c].buf \in State /\ Live' = Live
      BY <1>0, <1>10 DEF Undump, Save, Locals, Live
    <2>2. /\ loc[c].flag => file'.status = "running"
          /\ file'.pid = loc[c].buf.pid /\ dir'
      BY <1>10, <2>1 DEF Undump, Save, State
    <2>3. Live # {} => loc[c].buf.pid = loc[c].pid /\ loc[c].flag
      BY <1>0, <1>1, <1>10 DEF Undump, Save, CmdInv
    <2>4. OnRecord'
      BY <1>2, <2>1, <2>2, <2>3 DEF OnRecord
    <2>. QED  BY <1>4, <1>10, <2>4 DEF Undump
  <1>11. CASE SupWait(c)
    <2>1. Live' = {} /\ UNCHANGED <<dir, file, veth, jobs, loc>>
      BY <1>0, <1>11 DEF SupWait, CmdInv, Empty, Live
    <2>2. OnRecord'
      BY <2>1 DEF OnRecord
    <2>. QED  BY <1>3, <1>11, <2>1, <2>2 DEF SupWait, Dumping
  <1>12. CASE PackOpen(c) \/ PackDone(c)
    <2>1. /\ Live' = Live /\ UNCHANGED <<dir, file, veth, jobs, loc>>
          /\ Goto(c, "fill") \/ Goto(c, "commit")
      BY <1>12 DEF PackOpen, PackDone, Live
    <2>2. /\ Live # {} => file'.status = "checkpointing"
          /\ ~loc[c].leave => Live = {}
      BY <1>0, <1>12, <2>1 DEF PackOpen, PackDone, CmdInv, Dumping
    <2>. QED  BY <1>2, <1>3, <1>5, <2>1, <2>2 DEF Dumping
  <1>13. CASE PackFail(c)
    <2>1. Live' = Live /\ UNCHANGED <<dir, file, owner, veth, jobs>>
      BY <1>13 DEF PackFail, Live
    <2>. QED  BY <1>2, <1>4, <1>5, <1>13, <2>1 DEF PackFail
  <1>14. CASE Commit(c)
    <2>1. loc[c].buf \in State /\ Live' = Live
      BY <1>0, <1>14 DEF Commit, Save, Locals, Live
    <2>2. loc[c].leave => file'.status = "running" /\ file'.pid = loc[c].buf.pid /\ dir'
      BY <1>14, <2>1 DEF Commit, Save, State, KeptRunning
    <2>3. /\ Live # {} => loc[c].buf.pid = loc[c].pid
          /\ ~loc[c].leave => Live = {}
      BY <1>0, <1>1, <1>14 DEF Commit, Save, CmdInv
    <2>4. OnRecord'
      BY <1>2, <2>1, <2>2, <2>3 DEF OnRecord
    <2>. QED  BY <1>4, <1>14, <2>4 DEF Commit
  <1>. QED  BY <1>6, <1>7, <1>8, <1>9, <1>10, <1>11, <1>12, <1>13, <1>14

\* A supervisor takes a step, with the other supervisors out of the way.
LEMMA SupOwn ==
    ASSUME Careful, TypeOK, CopyInv, NEW s \in Sups, Active(s),
           \E l : Goto(s, l), UNCHANGED loc \/ \E r : Bind(s, r),
           veth' # "host", UNCHANGED jobs, SupInv(s)',
           \/ Live' = {}
           \/ /\ Live' = Live /\ UNCHANGED <<dir, file>>
              /\ Starting(s) => Starting(s)'
           \/ /\ OnRecord' \/ Starting(s)'
              /\ \A c \in Cmds : pc[c] \in {"idle", "await"}
    PROVE  CopyInv'
  <1>1. /\ \A c \in Cmds : pc'[c] = pc[c] /\ loc'[c] = loc[c]
        /\ \A t \in Sups \ {s} : pc'[t] = pc[t] /\ loc'[t] = loc[t]
    BY DistinctActors DEF TypeOK, Goto, Bind, Actors
  <1>2. \A t \in Sups \ {s} : ~Active(t)
    BY DEF CopyInv, HostInv
  <1>3. HostInv'
    BY <1>1, <1>2 DEF CopyInv, HostInv, Active
  <1>4. ASSUME NEW t \in Sups \ {s}  PROVE SupInv(t)'
    BY <1>1, <1>2 DEF CopyInv, SupInv, Active, Starting, Foreground
  <1>5. ASSUME NEW c \in Cmds  PROVE CmdInv(c)'
    <2>0. CmdInv(c) /\ ~Restoring(c) /\ \A t \in Sups : Active(t)' => Active(t)
      BY <1>1, <1>2 DEF CopyInv, CmdInv, Active
    <2>1. CASE Live' = {}
      BY <1>1, <2>0, <2>1, CmdEmpty
    <2>2. CASE Live' = Live /\ UNCHANGED <<dir, file>> /\ (Starting(s) => Starting(s)')
      <3>1. ~Restoring(c)'
        BY <1>1, <2>0 DEF Restoring
      <3>2. (OnRecord => OnRecord') /\ ((\E t \in Sups : Starting(t)) => \E t \in Sups : Starting(t)')
        BY <1>1, <2>2 DEF OnRecord, Starting, Foreground
      <3>. QED  BY <1>1, <2>0, <2>2, <3>1, <3>2 DEF CmdInv
    <2>3. CASE (OnRecord' \/ Starting(s)') /\ pc[c] \in {"idle", "await"}
      BY <1>1, <2>3 DEF CmdInv, Restoring, Building, Sweeping, Dumping, Empty
    <2>. QED  BY <2>1, <2>2, <2>3
  <1>. QED  BY <1>3, <1>4, <1>5 DEF CopyInv

\* The steps of a supervisor.
LEMMA SupCopy ==
    ASSUME Careful, TypeOK, CopyInv, NEW s \in Sups, SupStep(s) \/ SupKilled(s)
    PROVE  CopyInv'
  <1>. USE DEF disk, host, env
  <1>0. /\ loc[s] \in Locals /\ pc \in [Actors -> CmdPc \cup SupPc] /\ loc \in [Actors -> Locals]
        /\ s \in Actors /\ SupInv(s) /\ veth # "host"
    BY DEF TypeOK, Actors, CopyInv, HostInv
  <1>1. pc[s] # "fail"
    BY <1>0 DEF SupInv
  <1>2. Active(s) /\ s \notin Cmds
    BY DistinctActors
    DEF SupStep, SupKilled, SupCgroup, SupCgroupFail, SupFork, SupForkFail, Load, SupFail,
        SupPublish, SupLost, SupReap, SupNetDown, SupCgDown, SupCheck, SupStop, UpdatePc, Active
  <1>3. \A c \in Cmds : \A l : Goto(s, l) => pc'[c] = pc[c]
    BY <1>2 DEF Goto, TypeOK, Actors
  <1>4. ASSUME NEW l \in {"netdown", "cgdown", "check", "stop", "gone"}, Goto(s, l),
               UNCHANGED loc \/ (l = "gone" /\ Bind(s, NoLocals)),
               Live = {}, UNCHANGED <<owner, jobs>>, veth' # "host"
        PROVE  CopyInv'
    <2>1. pc'[s] = l /\ Live' = {}
      BY <1>0, <1>4 DEF Goto, Live
    <2>2. l # "gone" => loc'[s] = loc[s]
      BY <1>4
    <2>3. SupInv(s)'
      BY <1>0, <1>2, <1>3, <1>4, <2>1, <2>2 DEF SupInv, Starting, Active, Foreground
    <2>. QED  BY <1>2, <1>4, <2>1, <2>3, SupOwn
  <1>5. CASE SupCgroup(s)
    <2>1. /\ pc'[s] = "fork" /\ loc'[s] = loc[s] /\ cgroup' /\ Live = {} /\ Live' = {}
          /\ UNCHANGED <<dir, file, veth, jobs>> /\ pc[s] = "cgroup"
      BY <1>0, <1>5 DEF SupCgroup, SupInv, Goto, Live
    <2>2. SupInv(s)'
      BY <1>0, <1>3, <1>5, <2>1 DEF SupCgroup, SupInv, Starting, Active, Foreground
    <2>. QED  BY <1>0, <1>2, <1>5, <2>1, <2>2, SupOwn DEF SupCgroup
  <1>6. CASE SupCgroupFail(s)
    BY <1>6 DEF SupCgroupFail, Careful
  <1>7. ASSUME NEW p \in Pids, SupFork(s, p)  PROVE CopyInv'
    <2>1. /\ pc'[s] = IF Foreground(s) THEN "wait" ELSE "publish"
          /\ UNCHANGED <<dir, file, jobs>> /\ pc[s] = "fork"
      BY <1>0, <1>7 DEF SupFork, Goto
    <2>2. loc'[s].pid = p /\ loc'[s].op = loc[s].op
      BY <1>0, <1>7 DEF SupFork, Bind, Locals
    <2>3. Live' = {p}
      BY <1>0, <1>7, LiveBorn DEF SupFork, SupInv
    <2>4. veth' # "host"
      BY <1>0, <1>7, DistinctActors DEF SupFork
    <2>5. Starting(s)' /\ \A c \in Cmds : pc[c] \in {"idle", "await"}
      BY <1>0, <2>1, <2>2 DEF Starting, Foreground, SupInv
    <2>6. SupInv(s)'
      BY <1>0, <1>3, <1>7, <2>1, <2>2, <2>3 DEF SupFork, SupInv, Starting, Active, Foreground
    <2>. QED  BY <1>2, <1>7, <2>1, <2>4, <2>5, <2>6, SupOwn DEF SupFork
  <1>8. ASSUME NEW p \in Pids, SupForkFail(s, p)  PROVE FALSE
    <2>1. cgroup /\ (Net => veth = "absent") /\ owner[p] = "free"
      BY <1>0, <1>8 DEF SupForkFail, SupInv, Fresh
    <2>2. "spawn" \notin Faults
      BY DEF Careful
    <2>. QED  BY <1>8, <2>1, <2>2 DEF SupForkFail, HalfWired
  <1>9. CASE SupFail(s)
    BY <1>1, <1>9 DEF SupFail
  <1>10. CASE SupPublish(s)
    <2>1. /\ loc[s].buf \in State /\ Live' = Live /\ Live \subseteq {loc[s].pid} /\ pc'[s] = "wait"
          /\ ~Foreground(s) /\ \A c \in Cmds : pc[c] \in {"idle", "await"}
      BY <1>0, <1>10 DEF SupPublish, Save, Locals, Live, SupInv, Goto, Starting
    <2>2. file'.status = "running" /\ file'.pid = loc[s].pid /\ dir'
      BY <1>10, <2>1 DEF SupPublish, Save, SetRunningUnder, State
    <2>3. OnRecord'
      BY <2>1, <2>2 DEF OnRecord
    <2>4. loc'[s].pid = loc[s].pid /\ loc'[s].op = loc[s].op
      BY <1>0, <1>10 DEF SupPublish, Bind, Locals
    <2>5. SupInv(s)'
      BY <2>1, <2>4 DEF SupInv, Starting, Active, Foreground
    <2>. QED  BY <1>0, <1>2, <1>10, <2>1, <2>3, <2>5, SupOwn DEF SupPublish
  <1>11. CASE SupLost(s)
    <2>1. /\ pc'[s] = "gone" /\ Goto(s, "gone") /\ \E r : Bind(s, r)
          /\ UNCHANGED <<dir, file, veth, jobs>> /\ Live' = Live
      BY <1>0, <1>11 DEF SupLost, SupInv, Starting, Goto, Live
    <2>2. SupInv(s)' /\ ~Starting(s)
      BY <1>0, <1>11, <2>1 DEF SupInv, Starting, Active, Foreground, SupLost
    <2>. QED  BY <1>0, <1>2, <2>1, <2>2, SupOwn
  <1>12. CASE SupReap(s)
    <2>1. Live = {}
      BY <1>0, <1>12 DEF SupReap, SupInv
    <2>. QED  BY <1>0, <1>4, <1>12, <2>1 DEF SupReap
  <1>13. CASE SupNetDown(s)
    BY <1>0, <1>4, <1>13 DEF SupNetDown, SupInv
  <1>14. CASE SupCgDown(s)
    BY <1>0, <1>4, <1>14 DEF SupCgDown, SupInv
  <1>15. CASE SupCheck(s)
    BY <1>0, <1>4, <1>15 DEF SupCheck, SupInv
  <1>16. CASE SupStop(s)
    BY <1>0, <1>4, <1>16 DEF SupStop, SupInv
  <1>17. CASE SupKilled(s)
    <2>1. /\ ~Foreground(s) /\ pc[s] \in {"wait", "netdown", "cgdown", "check", "stop"}
          /\ pc'[s] = "gone" /\ Live' = Live
      BY <1>0, <1>17 DEF SupKilled, Careful, Goto, Live
    <2>2. SupInv(s)' /\ ~Starting(s)
      BY <2>1 DEF SupInv, Starting, Active, Foreground
    <2>. QED  BY <1>0, <1>2, <1>17, <2>1, <2>2, SupOwn DEF SupKilled
  <1>18. CASE Load(s)
    <2>1. /\ UNCHANGED <<pc, dir, file, owner, cgroup, veth, jobs>> /\ Live' = Live
          /\ Goto(s, pc[s])
      BY <1>0, <1>18 DEF Load, Live, Goto
    <2>2. loc'[s].pid = loc[s].pid /\ loc'[s].op = loc[s].op
      BY <1>0, <1>18 DEF Load, Bind, Locals
    <2>3. SupInv(s)' /\ (Starting(s) => Starting(s)')
      BY <1>0, <2>1, <2>2 DEF SupInv, Starting, Active, Foreground
    <2>. QED  BY <1>0, <1>2, <1>18, <2>1, <2>3, SupOwn DEF Load
  <1>. QED
    BY <1>5, <1>6, <1>7, <1>8, <1>9, <1>10, <1>11, <1>12, <1>13, <1>14, <1>15, <1>16, <1>17,
       <1>18 DEF SupStep

\* The operator issues a command once earlier work has settled: no supervisor is
\* at work but one whose container runs, and what runs is on record.
LEMMA IssuesCopy ==
    ASSUME Careful, CopyInv, NEW c \in Cmds, NEW op, Issues(c, op)
    PROVE  /\ pc[c] = "idle" /\ OnRecord /\ (\A d \in Cmds : d = c)
           /\ \A s \in Sups : ~Starting(s) /\ ~(Active(s) /\ Foreground(s))
           /\ \A s \in Sups : Active(s) => Live # {}
           /\ Live = {} => veth = "absent" \/ veth \notin Pids
  <1>1. pc[c] = "idle" /\ Settled /\ \A d \in Cmds : d = c
    BY DEF Issues, Careful, OneOperator
  <1>2. \A s \in Sups : ~Starting(s) /\ ~(Active(s) /\ Foreground(s)) /\ (Active(s) => Live # {})
    BY <1>1 DEF Settled, Starting, Active
  <1>3. OnRecord
    BY <1>1, <1>2 DEF CopyInv, CmdInv
  <1>. QED  BY <1>1, <1>2, <1>3 DEF Settled

\* The beginning of a command.
LEMMA InvokeCopy ==
    ASSUME Careful, TypeOK, CopyInv, NEW c \in Cmds, Invoke(c)
    PROVE  CopyInv'
  <1>. USE DEF disk, host, env
  <1>0. /\ pc \in [Actors -> CmdPc \cup SupPc] /\ loc \in [Actors -> Locals]
        /\ c \in Actors /\ CmdInv(c) /\ HostInv /\ \A s \in Sups : SupInv(s)
    BY DEF TypeOK, Actors, CopyInv
  <1>1. \A op : Issues(c, op) => pc[c] = "idle" /\ OnRecord
    BY IssuesCopy
  <1>2. \A op : Issues(c, op) => \A s \in Sups : ~Starting(s) /\ ~(Active(s) /\ Foreground(s))
    BY IssuesCopy
  <1>3. \A op : Issues(c, op) => \A s \in Sups : Active(s) => Live # {}
    BY IssuesCopy
  <1>4. \A d \in Cmds : d = c
    BY DEF Careful, OneOperator
  <1>5. ASSUME UNCHANGED <<owner, veth, jobs>>, CmdInv(c)',
               \A s \in Sups : pc'[s] = pc[s] /\ loc'[s] = loc[s],
               \A s \in Sups : ~Starting(s) /\ ~(Active(s) /\ Foreground(s))
        PROVE  CopyInv'
    <2>1. Live' = Live
      BY <1>5 DEF Live
    <2>2. ASSUME NEW s \in Sups  PROVE SupInv(s)'
      BY <1>0, <1>5, <2>1, SupFrame
    <2>3. HostInv'
      BY <1>0, <1>5 DEF HostInv, Active
    <2>. QED  BY <1>4, <1>5, <2>2, <2>3 DEF CopyInv
  <1>6. CASE Create(c) \/ Rm(c)
    <2>0. file.status # "none"
      BY DEF TypeOK, State, Status, Transient
    <2>1. PICK op \in {"create", "rm"} :
              Issues(c, op) /\ ~(dir /\ file.status \in {"running"} \cup Transient)
      <3>1. CASE Create(c)
        BY <2>0, <3>1 DEF Create, Issues, Careful
      <3>2. CASE Rm(c)
        BY <3>2 DEF Rm, Issues, Careful
      <3>. QED  BY <1>6, <3>1, <3>2
    <2>2. Live = {}
      BY <1>1, <2>1 DEF OnRecord
    <2>3. UNCHANGED <<owner, veth, jobs, pc, loc>>
      BY <1>6 DEF Create, Rm
    <2>4. Live' = {}
      BY <2>2, <2>3 DEF Live
    <2>5. CmdInv(c)'
      BY <1>0, <2>3, <2>4, CmdEmpty DEF Active
    <2>. QED  BY <1>2, <1>5, <2>1, <2>3, <2>5
  <1>7. ASSUME Stop(c) \/ Ps(c)  PROVE CopyInv'
    <2>1. /\ Issues(c, "stop") \/ Issues(c, "ps")
          /\ UNCHANGED <<owner, veth, jobs, dir, file>>
          /\ \E l : Goto(c, l)
          /\ pc'[c] \in {"sigterm", "sweep"}
          /\ \E q : Bind(c, q)
      BY <1>0, <1>7 DEF Stop, Ps, Goto
    <2>2. pc'[c] = "sweep" => loc'[c].op = "ps"
      BY <1>0, <1>7 DEF Stop, Ps, Goto, Bind, NoLocals
    <2>3. OnRecord' /\ \A s \in Sups : ~Starting(s) /\ ~(Active(s) /\ Foreground(s))
      BY <1>1, <1>2, <2>1 DEF OnRecord, Live
    <2>4. CmdInv(c)'
      BY <2>1, <2>2, <2>3 DEF CmdInv, Restoring, Building, Sweeping, Dumping, Empty
    <2>. QED  BY <1>5, <2>1, <2>3, <2>4, CmdOnly
  <1>8. ASSUME NEW s \in Sups, Start(c, s) \/ StartForeground(c, s)  PROVE CopyInv'
    <2>1. /\ Issues(c, "start") \/ Issues(c, "foreground")
          /\ dir /\ file.status = "created" /\ pc[s] = "unused"
          /\ UNCHANGED <<dir, file, owner, veth, jobs, cgroup>>
      BY <1>8 DEF Start, StartForeground, Issues, Careful
    <2>2. Live = {} /\ (\A t \in Sups : ~Active(t)) /\ Live' = {}
      <3>1. Live = {}
        BY <1>1, <2>1 DEF OnRecord, Transient
      <3>. QED  BY <1>3, <2>1, <3>1 DEF Live
    <2>3. veth = "absent"
      BY <1>0, <2>1, <2>2, IssuesCopy DEF HostInv, TypeOK
    <2>4. /\ (pc'[c] = "await" /\ ~Foreground(s)') \/ pc'[c] = "idle"
          /\ pc'[s] = "cgroup"
          /\ \A t \in Sups \ {s} : pc'[t] = pc[t] /\ loc'[t] = loc[t]
      <3>1. CASE Start(c, s)
        <4>1. ~Foreground(s) /\ s # c
          BY <1>0, <2>1, DistinctActors DEF SupInv
        <4>2. loc'[s] = loc[s]
          BY <1>0, <3>1, <4>1, DistinctActors DEF Start, Bind, Actors
        <4>. QED  BY <1>0, <3>1, <4>1, <4>2, DistinctActors DEF Start, Bind, Actors, Foreground
      <3>2. CASE StartForeground(c, s)
        BY <1>0, <1>1, <2>1, <3>2, DistinctActors DEF StartForeground, Goto, Bind, Actors
      <3>. QED  BY <1>8, <3>1, <3>2
    <2>5. SupInv(s)'
      BY <1>4, <2>1, <2>2, <2>3, <2>4 DEF SupInv, Starting, Active, Foreground
    <2>6. ASSUME NEW t \in Sups \ {s}  PROVE SupInv(t)'
      BY <1>0, <2>2, <2>4 DEF SupInv, Active, Starting, Foreground
    <2>7. HostInv'
      BY <1>0, <2>1, <2>2, <2>4 DEF HostInv, Active
    <2>8. CmdInv(c)'
      BY <2>2, <2>4 DEF CmdInv, OnRecord, Restoring, Building, Sweeping, Dumping, Empty
    <2>. QED  BY <1>4, <2>5, <2>6, <2>7, <2>8 DEF CopyInv
  <1>9. ASSUME NEW n \in Names \cup {None}, Restore(c, n)  PROVE CopyInv'
    <2>1. /\ Issues(c, "restore") /\ dir /\ file.status = "checkpointed"
          /\ UNCHANGED <<dir, file, owner, veth, jobs>> /\ pc'[c] = "sweep"
          /\ \E l : Goto(c, l)
          /\ \E q : Bind(c, q)
      BY <1>0, <1>9 DEF Restore, Issues, Careful, Goto
    <2>2. Live = {} /\ \A t \in Sups : ~Active(t)
      <3>1. Live = {}
        BY <1>1, <2>1 DEF OnRecord, Transient
      <3>. QED  BY <1>3, <2>1, <3>1
    <2>3. Live' = {}
      BY <2>1, <2>2 DEF Live
    <2>4. \A s \in Sups : pc'[s] = pc[s] /\ loc'[s] = loc[s]
      BY <2>1, CmdOnly
    <2>5. CmdInv(c)'
      BY <2>1, <2>2, <2>3, <2>4 DEF CmdInv, OnRecord, Building, Sweeping, Dumping, Empty, Active
    <2>. QED  BY <1>2, <1>5, <2>1, <2>4, <2>5
  <1>10. ASSUME NEW n \in Names, NEW leave \in BOOLEAN, Checkpoint(c, n, leave)
         PROVE  CopyInv'
    <2>1. /\ Issues(c, "checkpoint") /\ UNCHANGED <<dir, file, owner, veth, jobs>>
          /\ pc'[c] = "mark"
          /\ \E l : Goto(c, l)
          /\ \E q : Bind(c, q)
      BY <1>0, <1>10 DEF Checkpoint, Goto
    <2>2. loc'[c].pid = file.pid /\ loc'[c].buf = None
      BY <1>0, <1>10 DEF Checkpoint, Bind, NoLocals
    <2>3. Live' = Live /\ OnRecord' /\ Live \subseteq {file.pid}
      BY <1>1, <2>1 DEF Live, OnRecord
    <2>4. CmdInv(c)'
      BY <2>1, <2>2, <2>3 DEF CmdInv, Restoring, Building, Sweeping, Dumping, Empty
    <2>. QED  BY <1>2, <1>5, <2>1, <2>4, CmdOnly
  <1>. QED  BY <1>6, <1>7, <1>8, <1>9, <1>10 DEF Invoke

\* The kernel, and commands that are killed.
LEMMA OthersCopy ==
    ASSUME Careful, TypeOK, CopyInv, (\E c \in Cmds : Crash(c)) \/ Kernel
    PROVE  CopyInv'
  <1>. USE DEF disk, host, env
  <1>1. ASSUME NEW c \in Cmds, Crash(c)  PROVE CopyInv'
    <2>1. /\ pc[c] \notin {"idle", "engine", "build", "rollback", "restored"}
          /\ Return(c) /\ UNCHANGED <<dir, file, owner, cgroup, veth>>
      BY <1>1, EnvironmentAssumption DEF Crash, Careful
    <2>2. /\ \A j \in jobs' : j.kind = "dump"
          /\ pc[c] = "await" => jobs' = jobs
      BY <1>1, <2>1 DEF Crash, CopyInv, HostInv
    <2>3. CASE pc[c] = "await"
      BY <2>1, <2>2, <2>3, AwaitCopy
    <2>4. CASE pc[c] # "await"
      <3>1. OnRecord /\ Live' = Live
        BY <2>1, <2>4 DEF CopyInv, CmdInv, SupInv, Live
      <3>2. OnRecord'
        BY <2>1, <3>1 DEF OnRecord
      <3>. QED  BY <2>1, <2>2, <2>4, <3>1, <3>2, ReturnCopy DEF CopyInv, HostInv
    <2>. QED  BY <2>3, <2>4
  <1>2. ASSUME UNCHANGED <<dir, file, cgroup, pc, loc>>, Live' \subseteq Live,
               veth' \in {veth, "absent"}, jobs' \subseteq jobs
        PROVE  CopyInv'
    <2>1. HostInv'
      BY <1>2 DEF CopyInv, HostInv, Active
    <2>2. ASSUME NEW s \in Sups  PROVE SupInv(s)'
      BY <1>2 DEF CopyInv, SupInv, Active, Starting, Foreground
    <2>3. ASSUME NEW c \in Cmds  PROVE CmdInv(c)'
      <3>1. /\ OnRecord => OnRecord'
            /\ (\E s \in Sups : Starting(s)) => \E s \in Sups : Starting(s)'
            /\ Restoring(c)' <=> Restoring(c)
            /\ \A s \in Sups : Active(s)' <=> Active(s)
        BY <1>2 DEF OnRecord, Starting, Foreground, Restoring, Active
      <3>. QED  BY <1>2, <3>1 DEF CopyInv, CmdInv
    <2>. QED  BY <2>1, <2>2, <2>3 DEF CopyInv
  <1>3. CASE NetnsGone
    BY <1>2, <1>3 DEF NetnsGone, Live
  <1>4. ASSUME NEW p \in Pids, Exit(p)  PROVE CopyInv'
    <2>1. Live' \subseteq Live
      BY <1>4, LiveEnd DEF Exit
    <2>. QED  BY <1>2, <1>4, <2>1 DEF Exit
  <1>5. ASSUME NEW p \in Pids, Recycle(p)  PROVE FALSE
    BY <1>5 DEF Recycle, Careful
  <1>6. ASSUME NEW j \in jobs, OrphanDump(j)  PROVE CopyInv'
    <2>1. Live' \subseteq Live
      <3>1. CASE End({j.pid}, "dumped")
        BY <3>1, LiveEnd
      <3>2. CASE owner' = owner
        BY <3>2 DEF Live
      <3>. QED  BY <1>6, <3>1, <3>2 DEF OrphanDump
    <2>. QED  BY <1>2, <1>6, <2>1 DEF OrphanDump
  <1>7. ASSUME NEW j \in jobs, OrphanRestore(j)  PROVE FALSE
    BY <1>7 DEF OrphanRestore, CopyInv, HostInv
  <1>. QED  BY <1>1, <1>3, <1>4, <1>5, <1>6, <1>7 DEF Kernel

\* Every step keeps CopyInv.
LEMMA CopyStep ==
    ASSUME Careful, TypeOK, CopyInv, [Next]_vars
    PROVE  CopyInv'
  <1>1. ASSUME UNCHANGED vars  PROVE CopyInv'
    <2>1. UNCHANGED <<dir, file, owner, cgroup, veth, pc, loc, jobs>>
      BY <1>1 DEF vars, disk, host, env
    <2>. QED
      BY <2>1 DEF CopyInv, HostInv, SupInv, CmdInv, OnRecord, Starting, Active, Foreground,
                  Restoring, Live
  <1>2. ASSUME NEW c \in Cmds, CmdStep(c)  PROVE CopyInv'
    <2>1. ASSUME AwaitUp(c) \/ AwaitDead(c) \/ AwaitTimeout(c)  PROVE CopyInv'
      BY <2>1, AwaitCopy DEF AwaitUp, AwaitDead, AwaitTimeout, disk, host, env
    <2>. QED  BY <1>2, <2>1, LoadCopy, SweepCopy, RestoreCopy, DumpCopy DEF CmdStep
  <1>. QED  BY <1>1, <1>2, SupCopy, InvokeCopy, OthersCopy DEF Next

\* CopyInv is an invariant under a careful operator.
LEMMA CopyAlways ==
    ASSUME Careful
    PROVE  Spec => [](TypeOK /\ CopyInv)
  <1>1. Init => CopyInv
    <2>. SUFFICES ASSUME Init  PROVE CopyInv
      OBVIOUS
    <2>1. Live = {} /\ veth = "absent" /\ jobs = {}
      BY DEF Init, Live
    <2>2. /\ \A s \in Sups : pc[s] = "unused" /\ ~Foreground(s)
          /\ \A c \in Cmds : pc[c] = "idle"
      BY DistinctActors DEF Init, Actors, Foreground, NoLocals
    <2>. QED
      BY <2>1, <2>2 DEF CopyInv, HostInv, SupInv, CmdInv, OnRecord, Starting, Active, Restoring,
                        Building, Sweeping, Dumping, Empty
  <1>2. TypeOK /\ CopyInv /\ [Next]_vars => CopyInv'
    BY CopyStep
  <1>. QED  BY <1>1, <1>2, TypeCorrect, PTL DEF Spec

\* A careful operator never has two copies of the container, whatever fails or
\* is killed besides (restore.rs:84-91): a restore begins with nothing running,
\* and its rollback kills what its engine brought up.
THEOREM SingleCopyAlways ==
    ASSUME Careful
    PROVE  Spec => []SingleCopy
  <1>1. TypeOK /\ CopyInv => SingleCopy
    <2>. SUFFICES ASSUME CopyInv, NEW p \in Live, NEW q \in Live  PROVE p = q
      BY DEF SingleCopy
    <2>1. PICK c \in Cmds : CmdInv(c)
      BY DEF Careful, CopyInv
    <2>2. ASSUME NEW s \in Sups, Starting(s)  PROVE p = q
      BY <2>2 DEF CopyInv, SupInv, Starting
    <2>. QED  BY <2>1, <2>2 DEF CmdInv, OnRecord
  <1>. QED  BY <1>1, CopyAlways, PTL

\* A careful operator finds what runs in state.json once all is quiet.
THEOREM TrackedAlways ==
    ASSUME Careful
    PROVE  Spec => []Tracked
  <1>1. CopyInv => Tracked
    <2>. SUFFICES ASSUME CopyInv, Quiet  PROVE OnRecord
      BY DEF Tracked, OnRecord
    <2>1. PICK c \in Cmds : TRUE
      BY DEF Careful
    <2>2. \A s \in Sups : ~Starting(s)
      BY DEF Quiet, Settled, Starting
    <2>. QED  BY <2>1, <2>2 DEF Quiet, CopyInv, CmdInv
  <1>. QED  BY <1>1, CopyAlways, PTL

-----------------------------------------------------------------------------
(* What the actions write *)

\* The record that a save leaves in the file.
LEMMA FileWrites ==
    ASSUME TypeOK, NEW a \in Actors
    PROVE  /\ Settle(a) => /\ dir /\ dir' /\ file'.pid = None
                           /\ file'.status = IF loc[a].flag THEN "checkpointed" ELSE "failed"
           /\ MarkRestoring(a) => /\ dir /\ dir' /\ file'.status = "restoring"
                                  /\ loc[a].buf # None /\ file'.pid = loc[a].buf.pid
           /\ Unrestore(a) => /\ dir /\ dir' /\ file'.status = "checkpointed"
                              /\ loc[a].buf # None /\ file'.pid = loc[a].buf.pid
           /\ CommitRestored(a) => dir /\ dir' /\ file'.status = "running" /\ file'.pid = loc[a].pid
           /\ Mark(a) => /\ dir /\ dir' /\ file'.status = "checkpointing"
                         /\ loc[a].buf # None /\ file'.pid = loc[a].buf.pid
           /\ Undump(a) => /\ dir /\ dir' /\ file'.status = IF loc[a].flag THEN "running" ELSE "failed"
                           /\ loc[a].buf # None /\ file'.pid = loc[a].buf.pid
           /\ Commit(a) => /\ dir /\ dir' /\ loc[a].buf # None
                           /\ loc[a].leave => file'.status = "running" /\ file'.pid = loc[a].buf.pid
                           /\ ~loc[a].leave => file'.status = "checkpointed" /\ file'.pid = None
           /\ SupPublish(a) => dir /\ dir' /\ file'.status = "running" /\ file'.pid = loc[a].pid
           /\ SupStop(a) => /\ dir /\ dir' /\ file'.status = "stopped"
                            /\ loc[a].buf # None /\ file'.pid = loc[a].buf.pid
  <1>1. loc[a] \in Locals
    BY DEF TypeOK
  <1>2. loc[a].buf # None => loc[a].buf \in State
    BY <1>1 DEF Locals
  <1>3. CASE loc[a].buf = None
    BY <1>3 DEF Settle, MarkRestoring, Unrestore, CommitRestored, Mark, Undump, Commit, SupPublish,
                SupStop, Save
  <1>4. CASE loc[a].buf \in State
    <2>1. Settle(a) => /\ dir /\ dir' /\ file'.pid = None
                       /\ file'.status = IF loc[a].flag THEN "checkpointed" ELSE "failed"
      BY <1>4 DEF Settle, Save, State
    <2>2. /\ MarkRestoring(a) => dir /\ dir' /\ file'.status = "restoring" /\ file'.pid = loc[a].buf.pid
          /\ Unrestore(a) => dir /\ dir' /\ file'.status = "checkpointed" /\ file'.pid = loc[a].buf.pid
      BY <1>4 DEF MarkRestoring, Unrestore, Save, State
    <2>7. CommitRestored(a) => dir /\ dir' /\ file'.status = "running" /\ file'.pid = loc[a].pid
      BY <1>4 DEF CommitRestored, SetRestored, Save, State
    <2>3. /\ Mark(a) => dir /\ dir' /\ file'.status = "checkpointing" /\ file'.pid = loc[a].buf.pid
          /\ Undump(a) => /\ dir /\ dir' /\ file'.pid = loc[a].buf.pid
                          /\ file'.status = IF loc[a].flag THEN "running" ELSE "failed"
      BY <1>4 DEF Mark, Undump, Save, State
    <2>4. Commit(a) => /\ dir /\ dir'
                       /\ loc[a].leave => file'.status = "running" /\ file'.pid = loc[a].buf.pid
                       /\ ~loc[a].leave => file'.status = "checkpointed" /\ file'.pid = None
      BY <1>4 DEF Commit, KeptRunning, SetCheckpointed, Save, State
    <2>5. SupPublish(a) => dir /\ dir' /\ file'.status = "running" /\ file'.pid = loc[a].pid
      BY <1>4 DEF SupPublish, SetRunningUnder, Save, State
    <2>8. SupStop(a) => dir /\ dir' /\ file'.status = "stopped" /\ file'.pid = loc[a].buf.pid
      BY <1>4 DEF SupStop, SetStopped, Save, State
    <2>6. \/ MarkRestoring(a) \/ Unrestore(a) \/ Mark(a) \/ Undump(a) \/ Commit(a) \/ SupStop(a)
          => loc[a].buf # None
      BY DEF MarkRestoring, Unrestore, Mark, Undump, Commit, SupStop, Save
    <2>. QED  BY <2>1, <2>2, <2>3, <2>4, <2>5, <2>6, <2>7, <2>8
  <1>. QED  BY <1>2, <1>3, <1>4

\* The locals that are not being edited stay.
Rest(a) == loc'[a].op = loc[a].op /\ loc'[a].leave = loc[a].leave

\* What an edit of the locals changes.
LEMMA LocWrites ==
    ASSUME TypeOK, NEW a \in Actors
    PROVE  /\ Load(a) \/ (Sweep(a) /\ dir /\ Stale(file))
              => /\ Rest(a) /\ loc'[a].buf = file /\ loc'[a].pid = loc[a].pid
                 /\ loc'[a].name = loc[a].name /\ loc'[a].flag = loc[a].flag
           /\ MarkRestoring(a) \/ CommitRestored(a) \/ Mark(a) \/ SupPublish(a)
              => /\ Rest(a) /\ loc'[a].buf = None /\ loc'[a].pid = loc[a].pid
                 /\ loc'[a].name = loc[a].name
           /\ SweepDebris(a)
              => Rest(a) /\ loc'[a].buf = None /\ loc'[a].flag = HasSnapshot(loc[a].buf)
           /\ \A p \in Pids : EngineOk(a, p) \/ SupFork(a, p)
              => Rest(a) /\ loc'[a].pid = p /\ loc'[a].buf = loc[a].buf
           /\ DumpFail(a)
              => /\ Rest(a) /\ loc'[a].buf = loc[a].buf /\ loc'[a].pid = loc[a].pid
                 /\ loc'[a].name = loc[a].name
           /\ Return(a) \/ Bind(a, NoLocals)
              => /\ loc'[a].op = "none" /\ loc'[a].buf = None /\ loc'[a].name = None
                 /\ loc'[a].pid = None
  <1>0. loc[a] \in Locals /\ loc \in [Actors -> Locals]
    BY DEF TypeOK
  <1>. USE <1>0 DEF Rest, Bind, Locals
  <1>1. Load(a) \/ (Sweep(a) /\ dir /\ Stale(file))
        => /\ Rest(a) /\ loc'[a].buf = file /\ loc'[a].pid = loc[a].pid
           /\ loc'[a].name = loc[a].name /\ loc'[a].flag = loc[a].flag
    BY DEF Load, Sweep
  <1>2. MarkRestoring(a) \/ CommitRestored(a) \/ Mark(a) \/ SupPublish(a)
        => /\ Rest(a) /\ loc'[a].buf = None /\ loc'[a].pid = loc[a].pid
           /\ loc'[a].name = loc[a].name
    BY DEF MarkRestoring, CommitRestored, Mark, SupPublish
  <1>3. SweepDebris(a)
        => Rest(a) /\ loc'[a].buf = None /\ loc'[a].flag = HasSnapshot(loc[a].buf)
    <2>. DEFINE f == HasSnapshot(loc[a].buf)
    <2>1. SweepDebris(a) => loc' = [loc EXCEPT ![a] = [loc[a] EXCEPT !.buf = None, !.flag = f]]
      BY DEF SweepDebris
    <2>0. f \in BOOLEAN
      BY DEF HasSnapshot, Exists
    <2>. HIDE DEF f
    <2>2. \A g \in BOOLEAN : [loc[a] EXCEPT !.buf = None, !.flag = g].flag = g
      OBVIOUS
    <2>3. \A g \in BOOLEAN : LET l == [loc[a] EXCEPT !.buf = None, !.flag = g]
                             IN  l.op = loc[a].op /\ l.leave = loc[a].leave /\ l.buf = None
      OBVIOUS
    <2>4. SweepDebris(a) => loc'[a] = [loc[a] EXCEPT !.buf = None, !.flag = f]
      BY <2>1
    <2>6. SweepDebris(a) => Rest(a) /\ loc'[a].buf = None
      BY <2>0, <2>4, <2>3, Zenon
    <2>5. SweepDebris(a) => loc'[a].flag = f
      BY <2>0, <2>2, <2>4, Zenon
    <2>. QED  BY <2>5, <2>6 DEF f
  <1>4. \A p \in Pids : EngineOk(a, p) \/ SupFork(a, p)
        => Rest(a) /\ loc'[a].pid = p /\ loc'[a].buf = loc[a].buf
    BY DEF EngineOk, SupFork
  <1>5. DumpFail(a)
        => /\ Rest(a) /\ loc'[a].buf = loc[a].buf /\ loc'[a].pid = loc[a].pid
           /\ loc'[a].name = loc[a].name
    <2>. DEFINE f == owner'[loc[a].pid] \in {"ctr", "other"}
    <2>1. DumpFail(a) => loc' = [loc EXCEPT ![a] = [loc[a] EXCEPT !.flag = f]]
      BY DEF DumpFail
    <2>. HIDE DEF f
    <2>. QED  BY <2>1
  <1>6. Return(a) \/ Bind(a, NoLocals)
        => loc'[a].op = "none" /\ loc'[a].buf = None /\ loc'[a].name = None /\ loc'[a].pid = None
    BY DEF Return, NoLocals
  <1>. QED  BY <1>1, <1>2, <1>3, <1>4, <1>5, <1>6

-----------------------------------------------------------------------------
(* Nothing is left on the host *)

\* The cgroup holds container processes only, and every pid is the container's.
Joined == incg \subseteq Live /\ \A p \in Pids : owner[p] # "other"

Halted == {"stopped", "checkpointed"}
Packing == {"pack", "fill", "commit"}

(* The leaf is gone before the record says so: whoever is about to write   *)
(* `stopped` or `checkpointed` has removed it, and it is made again only   *)
(* under `created` or `restoring`.                                         *)
LeakInv ==
    /\ Joined
    /\ dir /\ file.status \in Halted => ~cgroup
    /\ \A s \in Sups : pc[s] \in {"check", "stop"} => ~cgroup
    /\ \A c \in Cmds : /\ pc[c] \in {"settle", "unrestore"} => ~cgroup
                       /\ pc[c] \in Packing /\ ~loc[c].leave => ~cgroup
                       /\ pc[c] = "prep" => file.status = "restoring"

\* Processes that end leave the cgroup.
LEMMA JoinedEnd ==
    ASSUME TypeOK, Joined, NEW ps, NEW how \in {"dead", "dumped"}, End(ps, how)
    PROVE  Joined'
  <1>1. Live' = Live \ ps
    BY LiveEnd
  <1>2. \A p \in Pids : owner'[p] # "other"
    BY DEF Joined, End
  <1>. QED  BY <1>1, <1>2 DEF Joined, End

\* So do those that are killed.
LEMMA JoinedHit ==
    ASSUME TypeOK, Joined, NEW p, Hit(p)
    PROVE  Joined'
  BY JoinedEnd DEF Hit

\* A step of a command that makes no leaf.
LEMMA LeakCmd ==
    ASSUME Careful, TypeOK, LeakInv, NEW c \in Cmds,
           \E l : Goto(c, l), UNCHANGED loc \/ \E r : Bind(c, r),
           Joined', cgroup' => cgroup,
           dir' /\ file'.status \in Halted => ~cgroup' \/ (dir /\ file.status \in Halted),
           pc'[c] \in {"settle", "unrestore"} => ~cgroup' \/ pc[c] = pc'[c],
           pc'[c] \in Packing /\ ~loc'[c].leave => ~cgroup' \/ (pc[c] \in Packing /\ ~loc[c].leave),
           pc'[c] = "prep" => file'.status = "restoring"
    PROVE  LeakInv'
  <1>1. \A s \in Sups : pc'[s] = pc[s]
    BY CmdOnly
  <1>2. \A d \in Cmds : d = c
    BY DEF Careful, OneOperator
  <1>. QED  BY <1>1, <1>2 DEF LeakInv

\* A command in flight leaves nothing behind.
LEMMA CmdLeak ==
    ASSUME Careful, TypeOK, CopyInv, LeakInv, NEW c \in Cmds, CmdStep(c)
    PROVE  LeakInv'
  <1>. USE DEF disk, host, env
  <1>0. /\ c \in Actors /\ CmdInv(c) /\ pc \in [Actors -> CmdPc \cup SupPc] /\ Joined
        /\ loc \in [Actors -> Locals]
    BY DEF TypeOK, Actors, CopyInv, LeakInv
  <1>1. UNCHANGED <<owner, incg>> => Joined'
    BY <1>0 DEF Joined, Live
  <1>2. ASSUME Return(c), Joined', cgroup' => cgroup,
               dir' /\ file'.status \in Halted => ~cgroup' \/ (dir /\ file.status \in Halted)
        PROVE  LeakInv'
    <2>1. pc'[c] = "idle"
      BY <1>0, <1>2 DEF Return, Goto
    <2>. QED  BY <1>2, <2>1, LeakCmd DEF Return, Packing
  <1>3. CASE \/ AwaitUp(c) \/ AwaitDead(c) \/ AwaitTimeout(c) \/ PackFail(c)
             \/ Clean(c)
    BY <1>1, <1>2, <1>3 DEF AwaitUp, AwaitDead, AwaitTimeout, PackFail, Clean
  <1>4. CASE SigTerm(c)
    <2>1. Joined'
      BY <1>0, <1>1, <1>4, JoinedHit DEF SigTerm
    <2>. QED  BY <1>0, <1>4, <2>1, LeakCmd DEF SigTerm, Goto, Packing
  <1>5. CASE SigKill(c)
    BY <1>0, <1>2, <1>5, JoinedHit DEF SigKill
  <1>6. CASE Load(c)
    <2>1. pc' = pc /\ Goto(c, pc[c])
      BY <1>0, <1>6 DEF Load, Goto
    <2>2. loc'[c].leave = loc[c].leave
      BY <1>0, <1>6, LocWrites DEF Rest
    <2>3. pc[c] # "prep"
      BY <1>6 DEF Load, UpdatePc
    <2>. QED  BY <1>1, <1>6, <2>1, <2>2, <2>3, LeakCmd DEF Load
  <1>7. ASSUME AfterSweep(c), Joined', UNCHANGED cgroup,
               dir' /\ file'.status \in Halted => ~cgroup' \/ (dir /\ file.status \in Halted)
        PROVE  LeakInv'
    <2>1. CASE Return(c)
      BY <1>2, <1>7, <2>1
    <2>2. CASE Goto(c, "pick") /\ \E r : Bind(c, r)
      BY <1>0, <1>7, <2>2, LeakCmd DEF Goto, Packing
    <2>. QED  BY <1>7, <2>1, <2>2 DEF AfterSweep
  <1>8. CASE Sweep(c)
    <2>1. CASE AfterSweep(c)
      BY <1>1, <1>7, <1>8, <2>1 DEF Sweep
    <2>2. CASE Goto(c, "reap") /\ \E r : Bind(c, r)
      BY <1>0, <1>1, <1>8, <2>2, LeakCmd DEF Sweep, Goto, Packing
    <2>. QED  BY <1>8, <2>1, <2>2 DEF Sweep
  <1>9. CASE SweepReap(c)
    <2>1. Joined'
      BY <1>0, <1>9, JoinedHit DEF SweepReap, SweepHit
    <2>. QED  BY <1>0, <1>9, <2>1, LeakCmd DEF SweepReap, Goto, Packing
  <1>10. CASE SweepDebris(c)
    <2>1. incg = {}
      BY <1>0, <1>10 DEF SweepDebris, CmdInv, Empty, Joined
    <2>2. ~cgroup' /\ pc'[c] = "settle"
      BY <1>0, <1>10, <2>1 DEF SweepDebris, Rmdir, Goto
    <2>. QED  BY <1>1, <1>10, <2>2, LeakCmd DEF SweepDebris
  <1>11. CASE Settle(c)
    <2>1. ~cgroup'
      BY <1>11 DEF Settle, LeakInv
    <2>. QED  BY <1>1, <1>7, <1>11, <2>1 DEF Settle
  <1>12. CASE Pick(c) \/ Verify(c) \/ Unpack(c)
    <2>1. CASE Return(c)
      BY <1>1, <1>2, <1>12, <2>1 DEF Pick, Verify, Unpack
    <2>0. UNCHANGED <<dir, file, cgroup>> /\ Joined'
      BY <1>1, <1>12 DEF Pick, Verify, Unpack
    <2>2. ASSUME NEW l \in {"verify", "unpack", "restoring"}, Goto(c, l),
                 UNCHANGED loc \/ \E r : Bind(c, r)
          PROVE  LeakInv'
      <3>1. pc'[c] = l
        BY <1>0, <2>2 DEF Goto
      <3>. QED  BY <2>0, <2>2, <3>1, LeakCmd DEF Packing
    <2>. QED  BY <1>12, <2>1, <2>2 DEF Pick, Verify, Unpack
  <1>13. CASE MarkRestoring(c)
    <2>1. file'.status = "restoring" /\ pc'[c] = "prep"
      BY <1>0, <1>13, FileWrites DEF MarkRestoring, Goto
    <2>. QED  BY <1>1, <1>13, <2>1, LeakCmd DEF MarkRestoring, Halted, Packing
  <1>14. CASE Prep(c) \/ PrepFail(c)
    <2>1. /\ UNCHANGED <<dir, file, owner, incg>> /\ pc'[c] \in {"engine", "idle"}
          /\ file.status = "restoring" /\ Restoring(c)
          /\ \E l : Goto(c, l)
          /\ UNCHANGED loc \/ \E r : Bind(c, r)
      BY <1>0, <1>14 DEF Prep, PrepFail, Return, Goto, LeakInv, Restoring, Building
    <2>2. \A s \in Sups : ~Active(s) /\ pc'[s] = pc[s]
      BY <1>0, <2>1, CmdOnly DEF CmdInv
    <2>3. \A d \in Cmds : d = c
      BY DEF Careful, OneOperator
    <2>. QED  BY <1>1, <2>1, <2>2, <2>3 DEF LeakInv, Halted, Packing, Active
  <1>15. CASE EngineFail(c)
    BY <1>0, <1>1, <1>15, LeakCmd DEF EngineFail, Goto, Packing
  <1>16. CASE CommitRestored(c)
    <2>1. file'.status = "running"
      BY <1>0, <1>16, FileWrites
    <2>. QED  BY <1>0, <1>1, <1>16, <2>1, LeakCmd DEF CommitRestored, Goto, Packing, Halted
  <1>17. ASSUME NEW p \in Pids, EngineOk(c, p)  PROVE LeakInv'
    <2>1. Joined'
      BY <1>0, <1>17, LiveBorn DEF EngineOk, Joined, TypeOK
    <2>. QED  BY <1>0, <1>17, <2>1, LeakCmd DEF EngineOk, Goto, Packing
  <1>18. ASSUME NEW p \in Pids, EngineBlind(c, p)  PROVE FALSE
    BY <1>18 DEF EngineBlind, Careful
  <1>19. CASE Build(c)
    <2>1. Joined'
      BY <1>0, <1>19 DEF Build, Joined, Alive, Live
    <2>. QED  BY <1>0, <1>19, <2>1, LeakCmd DEF Build, Goto, Packing
  <1>20. CASE BuildFail(c)
    <2>1. Joined'
      BY <1>0, <1>20 DEF BuildFail, Joined, Alive, Live
    <2>. QED  BY <1>0, <1>20, <2>1, LeakCmd DEF BuildFail, Goto, Packing
  <1>21. CASE Rollback(c)
    <2>1. incg \subseteq {loc[c].pid}
      BY <1>0, <1>21 DEF Rollback, CmdInv, Joined
    <2>2. ~cgroup'
      BY <1>21, <2>1 DEF Rollback, Rmdir, LeftInCgroup
    <2>3. Joined'
      BY <1>0, <1>21, JoinedHit DEF Rollback, RollbackHit
    <2>. QED  BY <1>0, <1>21, <2>2, <2>3, LeakCmd DEF Rollback, Goto, Packing
  <1>22. CASE Unrestore(c)
    <2>1. ~cgroup'
      BY <1>22 DEF Unrestore, LeakInv
    <2>. QED  BY <1>1, <1>2, <1>22, <2>1 DEF Unrestore
  <1>23. CASE Mark(c)
    <2>1. file'.status = "checkpointing"
      BY <1>0, <1>23, FileWrites
    <2>. QED  BY <1>0, <1>1, <1>23, <2>1, LeakCmd DEF Mark, Goto, Packing, Halted
  <1>24. CASE Stage(c)
    <2>1. CASE Return(c)
      BY <1>1, <1>2, <1>24, <2>1 DEF Stage
    <2>2. CASE Goto(c, "dump") /\ UNCHANGED loc
      BY <1>0, <1>1, <1>24, <2>2, LeakCmd DEF Stage, Goto, Packing
    <2>. QED  BY <1>24, <2>1, <2>2 DEF Stage
  <1>25. CASE DumpOk(c)
    <2>1. Joined'
      BY <1>0, <1>1, <1>25, JoinedEnd DEF DumpOk
    <2>2. loc' = loc /\ (pc'[c] = "supwait" \/ (pc'[c] = "pack" /\ loc[c].leave))
      BY <1>0, <1>25 DEF DumpOk, Goto
    <2>. QED  BY <1>25, <2>1, <2>2, LeakCmd DEF DumpOk, Packing
  <1>26. CASE DumpFail(c)
    <2>1. Joined'
      BY <1>0, <1>1, <1>26, JoinedHit DEF DumpFail
    <2>. QED  BY <1>0, <1>26, <2>1, LeakCmd DEF DumpFail, Goto, Packing
  <1>27. CASE Undump(c)
    <2>1. file'.status \notin Halted
      BY <1>0, <1>27, FileWrites DEF Halted
    <2>. QED  BY <1>1, <1>2, <1>27, <2>1 DEF Undump
  <1>28. CASE SupWait(c)
    <2>1. incg = {}
      BY <1>0, <1>28 DEF SupWait, CmdInv, Empty, Joined
    <2>2. ~cgroup'
      BY <1>28, <2>1 DEF SupWait, Rmdir
    <2>. QED  BY <1>0, <1>1, <1>28, <2>2, LeakCmd DEF SupWait, Goto
  <1>29. CASE PackOpen(c) \/ PackDone(c)
    <2>1. /\ pc[c] \in Packing /\ pc'[c] \in Packing /\ loc' = loc /\ UNCHANGED <<dir, file, cgroup>>
          /\ Joined' /\ \E l : Goto(c, l)
      BY <1>0, <1>1, <1>29 DEF PackOpen, PackDone, Goto, Packing
    <2>. QED  BY <2>1, LeakCmd DEF Packing
  <1>30. CASE Commit(c)
    <2>1. /\ loc[c].leave => file'.status \notin Halted
          /\ ~loc[c].leave => ~cgroup'
      BY <1>0, <1>30, FileWrites DEF Commit, LeakInv, Halted, Packing
    <2>. QED  BY <1>1, <1>2, <1>30, <2>1 DEF Commit
  <1>. QED
    BY <1>3, <1>4, <1>5, <1>6, <1>8, <1>9, <1>10, <1>11, <1>12, <1>13, <1>14, <1>15, <1>16,
       <1>17, <1>18, <1>19, <1>20, <1>21, <1>22, <1>23, <1>24, <1>25, <1>26, <1>27, <1>28,
       <1>29, <1>30 DEF CmdStep

\* A supervisor leaves nothing behind.
LEMMA SupLeak ==
    ASSUME Careful, TypeOK, CopyInv, LeakInv, NEW s \in Sups, SupStep(s) \/ SupKilled(s)
    PROVE  LeakInv'
  <1>. USE DEF disk, host, env
  <1>0. /\ s \in Actors /\ SupInv(s) /\ pc \in [Actors -> CmdPc \cup SupPc] /\ Joined
        /\ loc \in [Actors -> Locals] /\ s \notin Cmds
    BY DistinctActors DEF TypeOK, Actors, CopyInv, LeakInv
  <1>1. UNCHANGED <<owner, incg>> => Joined'
    BY <1>0 DEF Joined, Live
  <1>2. ASSUME NEW l, Goto(s, l), UNCHANGED loc \/ \E r : Bind(s, r), Joined', cgroup' => cgroup,
               \/ UNCHANGED <<dir, file>>
               \/ (file'.status \in Halted => ~cgroup') /\ file.status # "restoring",
               l \in {"check", "stop"} => pc[s] \in {"check", "stop"} \/ ~cgroup'
        PROVE  LeakInv'
    <2>1. pc'[s] = l /\ \A a \in Actors \ {s} : pc'[a] = pc[a] /\ loc'[a] = loc[a]
      BY <1>0, <1>2 DEF Goto, Bind
    <2>2. \A c \in Cmds : pc'[c] = pc[c] /\ loc'[c] = loc[c]
      BY <1>0, <2>1 DEF Actors
    <2>3. \A t \in Sups \ {s} : pc'[t] = pc[t]
      BY <2>1 DEF Actors
    <2>. QED  BY <1>2, <2>1, <2>2, <2>3 DEF LeakInv
  <1>3. CASE SupCgroup(s)
    <2>1. /\ UNCHANGED <<dir, file>> /\ file.status = "created" /\ pc'[s] = "fork" /\ Joined'
          /\ \A c \in Cmds : pc[c] \in {"idle", "await"} /\ pc'[c] = pc[c]
      BY <1>0, <1>1, <1>3 DEF SupCgroup, SupInv, Starting, Goto, Actors
    <2>2. \A t \in Sups \ {s} : pc'[t] = pc[t] /\ ~Active(t)
      BY <1>0, <1>3 DEF SupCgroup, Goto, CopyInv, HostInv, Active, Actors
    <2>. QED  BY <2>1, <2>2 DEF LeakInv, Halted, Packing, Active
  <1>4. CASE SupCgroupFail(s)
    BY <1>4 DEF SupCgroupFail, Careful
  <1>5. ASSUME NEW p \in Pids, SupFork(s, p)  PROVE LeakInv'
    <2>1. Joined'
      BY <1>0, <1>5, LiveBorn DEF SupFork, Joined, TypeOK
    <2>. QED  BY <1>2, <1>5, <2>1 DEF SupFork
  <1>6. ASSUME NEW p \in Pids, SupForkFail(s, p)  PROVE FALSE
    <2>1. cgroup /\ (Net => veth = "absent") /\ owner[p] = "free"
      BY <1>0, <1>6 DEF SupForkFail, SupInv, Fresh
    <2>2. "spawn" \notin Faults
      BY DEF Careful
    <2>. QED  BY <1>6, <2>1, <2>2 DEF SupForkFail, HalfWired
  <1>7. CASE SupFail(s)
    BY <1>0, <1>7 DEF SupFail, SupInv
  <1>8. CASE SupPublish(s)
    <2>1. file'.status = "running" /\ file.status = "created"
      BY <1>0, <1>8, FileWrites DEF SupPublish, SupInv, Starting
    <2>. QED  BY <1>1, <1>2, <1>8, <2>1 DEF SupPublish, Halted
  <1>9. CASE SupLost(s) \/ SupReap(s) \/ SupNetDown(s) \/ SupKilled(s)
    <2>1. /\ UNCHANGED <<dir, file, owner, incg, cgroup>>
          /\ UNCHANGED loc \/ \E r : Bind(s, r)
          /\ \E l \in {"wait", "gone", "netdown", "cgdown"} : Goto(s, l)
      BY <1>9 DEF SupLost, SupReap, SupNetDown, SupKilled
    <2>. QED  BY <1>1, <1>2, <2>1
  <1>10. CASE SupCgDown(s)
    <2>1. incg = {}
      BY <1>0, <1>10 DEF SupCgDown, SupInv, Joined
    <2>2. ~cgroup'
      BY <1>10, <2>1 DEF SupCgDown, Rmdir
    <2>. QED  BY <1>1, <1>2, <1>10, <2>2 DEF SupCgDown
  <1>11. CASE SupCheck(s)
    BY <1>1, <1>2, <1>11 DEF SupCheck
  <1>12. CASE SupStop(s)
    <2>1. ~cgroup' /\ pc[s] = "stop" /\ Joined' /\ file'.status = "stopped"
      BY <1>0, <1>1, <1>12, FileWrites DEF SupStop, LeakInv
    <2>2. \A c \in Cmds : pc'[c] = pc[c] /\ pc[c] # "prep"
      <3>1. \A c \in Cmds : ~Restoring(c)
        BY <2>1 DEF CopyInv, CmdInv, Active
      <3>. QED  BY <1>0, <1>12, <3>1 DEF SupStop, Goto, Actors, Restoring, Building
    <2>. QED  BY <2>1, <2>2 DEF LeakInv
  <1>13. CASE Load(s)
    <2>1. Goto(s, pc[s])
      BY <1>0, <1>13 DEF Load, Goto
    <2>. QED  BY <1>1, <1>2, <1>13, <2>1 DEF Load
  <1>. QED
    BY <1>3, <1>4, <1>5, <1>6, <1>7, <1>8, <1>9, <1>10, <1>11, <1>12, <1>13 DEF SupStep

\* Neither do the beginning of a command, its death, or the kernel.
LEMMA OthersLeak ==
    ASSUME Careful, TypeOK, CopyInv, LeakInv,
           (\E c \in Cmds : Invoke(c) \/ Crash(c)) \/ Kernel
    PROVE  LeakInv'
  <1>. USE DEF disk, host, env
  <1>0. pc \in [Actors -> CmdPc \cup SupPc] /\ loc \in [Actors -> Locals] /\ Cmds \subseteq Actors
        /\ Sups \subseteq Actors
    BY DEF TypeOK, Actors
  <1>1. UNCHANGED <<owner, incg>> => Joined'
    BY DEF LeakInv, Joined, Live
  <1>2. ASSUME NEW c \in Cmds,
               \/ Stop(c) \/ Ps(c)
               \/ \E n \in Names \cup {None} : Restore(c, n)
               \/ \E n \in Names, leave \in BOOLEAN : Checkpoint(c, n, leave)
               \/ Crash(c)
        PROVE  LeakInv'
    <2>1. /\ UNCHANGED <<dir, file, owner, incg, cgroup>> /\ \E r : Bind(c, r)
          /\ \E l \in {"sigterm", "sweep", "mark", "idle"} : Goto(c, l)
      BY <1>2 DEF Stop, Ps, Restore, Checkpoint, Crash, Return
    <2>2. pc'[c] \in {"sigterm", "sweep", "mark", "idle"}
      BY <1>0, <2>1 DEF Goto
    <2>. QED  BY <1>1, <2>1, <2>2, LeakCmd DEF Packing
  <1>3. ASSUME NEW c \in Cmds, Create(c) \/ Rm(c)  PROVE LeakInv'
    <2>1. /\ UNCHANGED <<owner, incg, cgroup, pc, loc>> /\ file'.status = "created"
          /\ \A d \in Cmds : pc[d] = "idle"
      BY <1>3 DEF Create, Rm, NewState, Issues, Careful, OneOperator
    <2>. QED  BY <1>1, <2>1 DEF LeakInv, Halted
  <1>4. ASSUME NEW c \in Cmds, NEW s \in Sups, Start(c, s) \/ StartForeground(c, s)
        PROVE  LeakInv'
    <2>1. /\ UNCHANGED <<owner, incg, cgroup, dir, file>> /\ \A t \in Sups \ {s} : pc'[t] = pc[t]
          /\ pc'[s] = "cgroup" /\ pc[c] = "idle" /\ pc'[c] \in {"idle", "await"}
      BY <1>0, <1>4, DistinctActors DEF Start, StartForeground, Goto, Issues
    <2>2. \A d \in Cmds : d = c
      BY DEF Careful, OneOperator
    <2>. QED  BY <1>1, <2>1, <2>2 DEF LeakInv, Packing
  <1>5. ASSUME UNCHANGED <<dir, file, cgroup, pc, loc>>, Joined'  PROVE LeakInv'
    BY <1>5 DEF LeakInv
  <1>6. CASE NetnsGone
    BY <1>1, <1>5, <1>6 DEF NetnsGone
  <1>7. ASSUME NEW p \in Pids, Exit(p)  PROVE LeakInv'
    BY <1>5, <1>7, JoinedEnd DEF Exit, LeakInv
  <1>8. ASSUME NEW p \in Pids, Recycle(p)  PROVE FALSE
    BY <1>8 DEF Recycle, Careful
  <1>9. ASSUME NEW j \in jobs, OrphanDump(j)  PROVE LeakInv'
    BY <1>1, <1>5, <1>9, JoinedEnd DEF OrphanDump, LeakInv
  <1>10. ASSUME NEW j \in jobs, OrphanRestore(j)  PROVE FALSE
    BY <1>10 DEF OrphanRestore, CopyInv, HostInv
  <1>. QED  BY <1>2, <1>3, <1>4, <1>6, <1>7, <1>8, <1>9, <1>10 DEF Invoke, Kernel

\* LeakInv is an invariant under a careful operator.
LEMMA LeakAlways ==
    ASSUME Careful
    PROVE  Spec => [](TypeOK /\ CopyInv /\ LeakInv)
  <1>1. Init => LeakInv
    BY DistinctActors DEF Init, LeakInv, Joined, Live, Halted, Packing, NewState, Actors
  <1>2. TypeOK /\ CopyInv /\ LeakInv /\ [Next]_vars => LeakInv'
    <2>1. LeakInv /\ UNCHANGED vars => LeakInv'
      BY DEF vars, disk, host, env, LeakInv, Joined, Live
    <2>. QED  BY <2>1, CmdLeak, SupLeak, OthersLeak DEF Next
  <1>. QED  BY <1>1, <1>2, CopyAlways, PTL DEF Spec

\* A careful operator who sees `stopped` or `checkpointed` once all is quiet has
\* nothing of the container left on the host: no process, no cgroup leaf, no
\* stray veth.
THEOREM NoLeakAlways ==
    ASSUME Careful
    PROVE  Spec => []NoLeak
  <1>1. CopyInv /\ Tracked /\ LeakInv => NoLeak
    BY DEF CopyInv, HostInv, LeakInv, Tracked, NoLeak, Transient, Halted
  <1>. QED  BY <1>1, LeakAlways, TrackedAlways, PTL

-----------------------------------------------------------------------------
(* What is checkpointed can be restored *)

SomeWhole == \E n \in Names : snaps[n] = "ok"
\* Where a restore has checked its snapshot and its record is not written yet.
Holding == {"unpack", "restoring", "prep", "engine", "build", "rollback", "unrestore", "restored"}

(* A snapshot is torn only while a checkpoint fills it, and no checkpoint  *)
(* runs on a container that is recorded as checkpointed; whoever is about  *)
(* to write that has seen a whole snapshot.                                *)
SnapInv ==
    /\ \A n \in Names : snaps[n] = "torn" => \E c \in Cmds : pc[c] = "fill" /\ loc[c].name = n
    /\ dir /\ file.status = "checkpointed" => SomeWhole /\ \A c \in Cmds : pc[c] \notin Dumping
    /\ \A c \in Cmds : /\ pc[c] = "settle" /\ loc[c].flag => SomeWhole
                       /\ pc[c] \in Holding => SomeWhole
                       /\ pc[c] \in Dumping \cup {"verify"} => loc[c].name \in Names
                       /\ pc[c] = "commit" => snaps[loc[c].name] = "ok"

\* A snapshot that is begun is finished.
Finishes == "pack" \notin Faults /\ "fill" \notin CrashPoints

\* A step that writes no snapshot.
LEMMA SnapCmd ==
    ASSUME Careful, TypeOK, SnapInv, NEW c \in Cmds, snaps' = snaps, pc[c] # "fill",
           dir' /\ file'.status = "checkpointed" => SomeWhole /\ pc'[c] \notin Dumping,
           pc'[c] = "settle" /\ loc'[c].flag => SomeWhole,
           pc'[c] \in Holding => SomeWhole,
           pc'[c] \in Dumping \cup {"verify"} => loc'[c].name \in Names,
           pc'[c] = "commit" => pc[c] = "commit" /\ loc'[c].name = loc[c].name
    PROVE  SnapInv'
  <1>1. \A d \in Cmds : d = c
    BY DEF Careful, OneOperator
  <1>. QED  BY <1>1 DEF SnapInv, SomeWhole

\* A step that no command takes.
LEMMA SnapFrame ==
    ASSUME SnapInv, snaps' = snaps, \A c \in Cmds : pc'[c] = pc[c] /\ loc'[c] = loc[c],
           UNCHANGED <<dir, file>> \/ file'.status # "checkpointed"
    PROVE  SnapInv'
  BY DEF SnapInv, SomeWhole

\* A file that is there and is not being filled is whole.
LEMMA ExistsWhole ==
    ASSUME Careful, TypeOK, SnapInv, NEW c \in Cmds, pc[c] # "fill", NEW n, Exists(n)
    PROVE  snaps[n] = "ok" /\ SomeWhole
  BY DEF Careful, OneOperator, TypeOK, SnapInv, Exists, SomeWhole

\* A command in flight keeps SnapInv.
LEMMA CmdSnap ==
    ASSUME Careful, Finishes, TypeOK, SnapInv, NEW c \in Cmds, CmdStep(c)
    PROVE  SnapInv'
  <1>. USE DEF disk, host, env
  <1>0. /\ c \in Actors /\ pc \in [Actors -> CmdPc \cup SupPc] /\ loc \in [Actors -> Locals]
        /\ loc[c] \in Locals
    BY DEF TypeOK, Actors
  <1>1. ASSUME Return(c), snaps' = snaps, pc[c] # "fill",
               UNCHANGED <<dir, file>> \/ (file'.status = "checkpointed" => SomeWhole)
        PROVE  SnapInv'
    <2>1. pc'[c] = "idle"
      BY <1>0, <1>1 DEF Return, Goto
    <2>2. dir' /\ file'.status = "checkpointed" => SomeWhole
      BY <1>1 DEF SnapInv
    <2>. QED  BY <1>1, <2>1, <2>2, SnapCmd DEF Dumping, Holding
  <1>2. ASSUME NEW l \in CmdPc \ (Dumping \cup {"verify", "settle"}), Goto(c, l), snaps' = snaps,
               pc[c] # "fill", l \in Holding => SomeWhole,
               UNCHANGED <<dir, file>> \/ (file'.status = "checkpointed" => SomeWhole)
        PROVE  SnapInv'
    <2>1. pc'[c] = l
      BY <1>0, <1>2 DEF Goto
    <2>2. dir' /\ file'.status = "checkpointed" => SomeWhole
      BY <1>2 DEF SnapInv
    <2>. QED  BY <1>2, <2>1, <2>2, SnapCmd DEF Dumping
  <1>3. ASSUME NEW l \in Dumping \ {"commit"}, Goto(c, l), snaps' = snaps, pc[c] \in Dumping \ {"fill"},
               UNCHANGED <<dir, file>> \/ file'.status # "checkpointed",
               loc'[c].name = loc[c].name
        PROVE  SnapInv'
    <2>1. pc'[c] = l
      BY <1>0, <1>3 DEF Goto
    <2>. QED  BY <1>3, <2>1, SnapCmd DEF Dumping, Holding, SnapInv
  <1>4. CASE \/ AwaitUp(c) \/ AwaitDead(c) \/ AwaitTimeout(c) \/ SigKill(c) \/ PrepFail(c)
             \/ Clean(c) \/ PackFail(c)
    <2>1. Return(c) /\ snaps' = snaps /\ pc[c] # "fill" /\ UNCHANGED <<dir, file>>
      BY <1>4 DEF AwaitUp, AwaitDead, AwaitTimeout, SigKill, PrepFail, Clean, PackFail, Finishes
    <2>. QED  BY <1>1, <2>1
  <1>5. CASE SigTerm(c) \/ SweepReap(c)
    <2>1. /\ snaps' = snaps /\ pc[c] # "fill" /\ UNCHANGED <<dir, file>>
          /\ Goto(c, "sigkill") \/ Goto(c, "debris")
      BY <1>5 DEF SigTerm, SweepReap
    <2>. QED  BY <1>2, <2>1 DEF CmdPc, Dumping, Holding
  <1>6. CASE Load(c)
    <2>1. pc' = pc /\ loc'[c].name = loc[c].name /\ loc'[c].flag = loc[c].flag
      BY <1>0, <1>6, LocWrites DEF Load
    <2>2. pc[c] # "fill" /\ snaps' = snaps /\ UNCHANGED <<dir, file>>
      BY <1>6 DEF Load, UpdatePc
    <2>. QED  BY <2>1, <2>2, SnapCmd DEF SnapInv
  <1>7. ASSUME AfterSweep(c), snaps' = snaps, pc[c] # "fill",
               UNCHANGED <<dir, file>> \/ (file'.status = "checkpointed" => SomeWhole)
        PROVE  SnapInv'
    BY <1>1, <1>2, <1>7 DEF AfterSweep, CmdPc, Dumping, Holding
  <1>8. CASE Sweep(c)
    <2>1. CASE AfterSweep(c)
      BY <1>7, <1>8, <2>1 DEF Sweep
    <2>2. CASE Goto(c, "reap")
      BY <1>2, <1>8, <2>2 DEF Sweep, CmdPc, Dumping, Holding
    <2>. QED  BY <1>8, <2>1, <2>2 DEF Sweep
  <1>9. CASE SweepDebris(c)
    <2>1. pc'[c] = "settle" /\ pc[c] = "debris" /\ snaps' = snaps /\ UNCHANGED <<dir, file>>
      BY <1>0, <1>9 DEF SweepDebris, Goto
    <2>2. loc'[c].flag => Exists(loc[c].buf.snapshot) \/ Exists(Latest)
      BY <1>0, <1>9, LocWrites DEF HasSnapshot
    <2>3. loc'[c].flag => SomeWhole
      BY <2>1, <2>2, ExistsWhole
    <2>. QED  BY <2>1, <2>3, SnapCmd DEF Dumping, Holding, SnapInv
  <1>10. CASE Settle(c)
    <2>1. file'.status = "checkpointed" => SomeWhole
      BY <1>0, <1>10, FileWrites DEF Settle, SnapInv
    <2>. QED  BY <1>7, <1>10, <2>1 DEF Settle, Save
  <1>11. CASE Pick(c)
    <2>1. pc[c] = "pick" /\ snaps' = snaps /\ UNCHANGED <<dir, file>>
      BY <1>11 DEF Pick
    <2>2. CASE Return(c)
      BY <1>1, <2>1, <2>2
    <2>3. CASE ~Return(c)
      <3>1. Resolve(loc[c].name) \in Names \cup {None}
        BY <1>0, ResolveType DEF Locals
      <3>2. pc'[c] = "verify" /\ loc'[c].name \in Names
        BY <1>0, <1>11, <2>3, <3>1 DEF Pick, Goto, Bind, Locals
      <3>. QED  BY <2>1, <3>2, SnapCmd DEF Dumping, Holding, SnapInv
    <2>. QED  BY <2>2, <2>3
  <1>12. CASE Verify(c) \/ Unpack(c)
    <2>1. pc[c] \in {"verify", "unpack"} /\ snaps' = snaps /\ UNCHANGED <<dir, file>>
      BY <1>12 DEF Verify, Unpack
    <2>2. CASE Return(c)
      BY <1>1, <2>1, <2>2
    <2>3. CASE ~Return(c)
      <3>1. SomeWhole /\ (Goto(c, "unpack") \/ Goto(c, "restoring"))
        BY <1>12, <2>3 DEF Verify, Unpack, Whole, SnapInv, SomeWhole, Holding
      <3>. QED  BY <1>2, <2>1, <3>1 DEF CmdPc, Dumping
    <2>. QED  BY <2>2, <2>3
  <1>13. CASE \/ MarkRestoring(c) \/ Prep(c) \/ EngineFail(c) \/ Build(c) \/ BuildFail(c)
              \/ Rollback(c) \/ CommitRestored(c)
              \/ \E p \in Pids : EngineOk(c, p) \/ EngineBlind(c, p)
    <2>1. pc[c] \in Holding /\ snaps' = snaps
      BY <1>13 DEF MarkRestoring, Prep, EngineFail, Build, BuildFail, Rollback, CommitRestored,
                   EngineOk, EngineBlind, Holding, Save
    <2>2. UNCHANGED <<dir, file>> \/ file'.status # "checkpointed"
      BY <1>0, <1>13, FileWrites
         DEF Prep, EngineFail, Build, BuildFail, Rollback, EngineOk, EngineBlind
    <2>3. \E l \in Holding \cup {"clean"} : Goto(c, l)
      BY <1>13 DEF MarkRestoring, Prep, EngineFail, Build, BuildFail, Rollback, CommitRestored,
                   EngineOk, EngineBlind, Holding
    <2>4. SomeWhole /\ pc[c] # "fill"
      BY <2>1 DEF SnapInv, Holding
    <2>5. Holding \cup {"clean"} \subseteq CmdPc \ (Dumping \cup {"verify", "settle"})
      BY DEF Holding, CmdPc, Dumping
    <2>. QED  BY <1>2, <2>1, <2>2, <2>3, <2>4, <2>5
  <1>14. CASE Unrestore(c)
    <2>1. SomeWhole
      BY <1>14 DEF Unrestore, SnapInv, Holding
    <2>. QED  BY <1>1, <1>14, <2>1 DEF Unrestore, Save
  <1>15. CASE Mark(c)
    <2>1. file'.status # "checkpointed" /\ loc'[c].name = loc[c].name
      BY <1>0, <1>15, FileWrites, LocWrites
    <2>. QED  BY <1>3, <1>15, <2>1 DEF Mark, Save, Dumping
  <1>16. CASE Stage(c)
    <2>1. pc[c] = "stage" /\ snaps' = snaps /\ UNCHANGED <<dir, file>>
      BY <1>16 DEF Stage
    <2>2. CASE Return(c)
      BY <1>1, <2>1, <2>2
    <2>3. CASE Goto(c, "dump") /\ UNCHANGED loc
      BY <1>3, <2>1, <2>3 DEF Dumping
    <2>. QED  BY <1>16, <2>2, <2>3 DEF Stage
  <1>17. CASE DumpOk(c) \/ DumpFail(c) \/ SupWait(c)
    <2>1. /\ pc[c] \in Dumping \ {"fill"} /\ snaps' = snaps /\ UNCHANGED <<dir, file>>
          /\ \E l \in Dumping \ {"commit"} : Goto(c, l)
      BY <1>17 DEF DumpOk, DumpFail, SupWait, Dumping
    <2>2. loc'[c].name = loc[c].name
      BY <1>0, <1>17, LocWrites DEF DumpOk, SupWait
    <2>. QED  BY <1>3, <2>1, <2>2
  <1>18. CASE Undump(c)
    <2>1. file'.status # "checkpointed"
      BY <1>0, <1>18, FileWrites
    <2>. QED  BY <1>1, <1>18, <2>1 DEF Undump, Save
  <1>19. CASE Commit(c)
    <2>1. SomeWhole
      BY <1>19 DEF Commit, SnapInv, SomeWhole, Dumping
    <2>. QED  BY <1>1, <1>19, <2>1 DEF Commit, Save
  <1>20. CASE PackOpen(c) \/ PackDone(c)
    <2>1. /\ pc[c] \in {"pack", "fill"} /\ UNCHANGED <<dir, file, loc>>
          /\ \/ /\ pc'[c] = "fill" /\ pc[c] = "pack"
                /\ snaps' = [snaps EXCEPT ![loc[c].name] = "torn"]
             \/ /\ pc'[c] = "commit" /\ pc[c] = "fill"
                /\ snaps' = [snaps EXCEPT ![loc[c].name] = "ok"]
      BY <1>0, <1>20 DEF PackOpen, PackDone, Goto
    <2>2. loc[c].name \in Names /\ ~(dir /\ file.status = "checkpointed") /\ \A d \in Cmds : d = c
      BY <2>1 DEF SnapInv, Dumping, Careful, OneOperator
    <2>3. \A n \in Names : n # loc[c].name => snaps[n] # "torn"
      BY <2>1, <2>2 DEF SnapInv
    <2>4. CASE pc[c] = "pack"
      BY <2>1, <2>2, <2>3, <2>4 DEF SnapInv, TypeOK, Holding
    <2>5. CASE pc[c] = "fill"
      BY <2>1, <2>2, <2>3, <2>5 DEF SnapInv, TypeOK, Holding
    <2>. QED  BY <2>1, <2>4, <2>5
  <1>. QED
    BY <1>4, <1>5, <1>6, <1>8, <1>9, <1>10, <1>11, <1>12, <1>13, <1>14, <1>15, <1>16, <1>17,
       <1>18, <1>19, <1>20 DEF CmdStep

\* So does everything else.
LEMMA OthersSnap ==
    ASSUME Careful, Finishes, TypeOK, CopyInv, SnapInv,
           \/ \E c \in Cmds : Invoke(c) \/ Crash(c)
           \/ \E s \in Sups : SupStep(s) \/ SupKilled(s)
           \/ Kernel
    PROVE  SnapInv'
  <1>. USE DEF disk, host, env
  <1>0. pc \in [Actors -> CmdPc \cup SupPc] /\ loc \in [Actors -> Locals] /\ Cmds \subseteq Actors
        /\ Sups \subseteq Actors
    BY DEF TypeOK, Actors
  <1>1. CASE Kernel
    BY <1>1, SnapFrame DEF Kernel, NetnsGone, Exit, Recycle, OrphanDump, OrphanRestore
  <1>2. ASSUME NEW s \in Sups, SupStep(s) \/ SupKilled(s)  PROVE SnapInv'
    <2>1. pc[s] # "fail" /\ s \in Actors /\ s \notin Cmds
      BY <1>0, DistinctActors DEF CopyInv, SupInv
    <2>2. snaps' = snaps /\ (UNCHANGED <<dir, file>> \/ file'.status # "checkpointed")
      BY <1>2, <2>1, FileWrites
         DEF SupStep, SupKilled, SupCgroup, SupCgroupFail, SupFork, SupForkFail, Load, SupFail,
             SupPublish, SupLost, SupReap, SupNetDown, SupCgDown, SupCheck, SupStop, Save
    <2>3. (\E l : Goto(s, l)) \/ pc' = pc
      BY <1>2 DEF SupStep, SupKilled, SupCgroup, SupCgroupFail, SupFork, SupForkFail, Load, SupFail,
             SupPublish, SupLost, SupReap, SupNetDown, SupCgDown, SupCheck, SupStop
    <2>4. (\E r : Bind(s, r)) \/ loc' = loc
      BY <1>2 DEF SupStep, SupKilled, SupCgroup, SupCgroupFail, SupFork, SupForkFail, Load, SupFail,
             SupPublish, SupLost, SupReap, SupNetDown, SupCgDown, SupCheck, SupStop
    <2>5. \A c \in Cmds : pc'[c] = pc[c] /\ loc'[c] = loc[c]
      BY <1>0, <2>1, <2>3, <2>4 DEF Goto, Bind
    <2>. QED  BY <2>2, <2>5, SnapFrame
  <1>3. ASSUME NEW c \in Cmds, Crash(c)  PROVE SnapInv'
    <2>1. pc[c] # "fill" /\ pc'[c] = "idle" /\ UNCHANGED <<dir, file, snaps>>
      BY <1>0, <1>3 DEF Crash, Finishes, Return, Goto
    <2>. QED  BY <2>1, SnapCmd DEF SnapInv, Dumping, Holding
  <1>4. ASSUME NEW c \in Cmds, Create(c)  PROVE SnapInv'
    BY <1>4, SnapFrame DEF Create, NewState
  <1>5. ASSUME NEW c \in Cmds, Rm(c)  PROVE SnapInv'
    BY <1>5 DEF Rm, SnapInv, Holding, Dumping
  <1>6. ASSUME NEW c \in Cmds, NEW s \in Sups, Start(c, s) \/ StartForeground(c, s)
        PROVE  SnapInv'
    <2>1. pc[c] = "idle" /\ pc'[c] \in {"idle", "await"} /\ UNCHANGED <<dir, file, snaps>>
      BY <1>0, <1>6, DistinctActors DEF Start, StartForeground, Issues, Goto
    <2>. QED  BY <2>1, SnapCmd DEF SnapInv, Dumping, Holding
  <1>7. ASSUME NEW c \in Cmds, Stop(c) \/ Ps(c) \/ \E n \in Names \cup {None} : Restore(c, n)
        PROVE  SnapInv'
    <2>1. pc[c] = "idle" /\ pc'[c] \in {"sigterm", "sweep"} /\ UNCHANGED <<dir, file, snaps>>
      BY <1>0, <1>7 DEF Stop, Ps, Restore, Issues, Goto
    <2>. QED  BY <2>1, SnapCmd DEF SnapInv, Dumping, Holding
  <1>8. ASSUME NEW c \in Cmds, NEW n \in Names, NEW leave \in BOOLEAN, Checkpoint(c, n, leave)
        PROVE  SnapInv'
    <2>1. /\ pc[c] = "idle" /\ pc'[c] = "mark" /\ UNCHANGED <<dir, file, snaps>>
          /\ file.status = "running" /\ loc'[c].name = n
      BY <1>0, <1>8 DEF Checkpoint, Issues, Goto, Bind, NoLocals
    <2>. QED  BY <2>1, SnapCmd DEF Holding
  <1>. QED  BY <1>1, <1>2, <1>3, <1>4, <1>5, <1>6, <1>7, <1>8 DEF Invoke

\* What a careful operator sees as `checkpointed` can be brought back: there is
\* a whole snapshot, and a plain `restore` does not pick a torn one, at whatever
\* point commands were killed or failed (restore.rs:352), as long as no checkpoint
\* fails or is killed while it writes over a snapshot.
THEOREM RestorableAlways ==
    ASSUME Careful, Finishes
    PROVE  Spec => []Restorable
  <1>1. Init => SnapInv
    BY DistinctActors DEF Init, SnapInv, Holding, Dumping, NewState, Actors
  <1>2. TypeOK /\ CopyInv /\ SnapInv /\ [Next]_vars => SnapInv'
    <2>1. SnapInv /\ UNCHANGED vars => SnapInv'
      BY SnapFrame DEF vars, disk
    <2>. QED  BY <2>1, CmdSnap, OthersSnap DEF Next
  <1>3. TypeOK /\ SnapInv => Restorable
    <2>. SUFFICES ASSUME TypeOK, SnapInv, dir, file.status = "checkpointed"  PROVE Restorable
      BY DEF Restorable
    <2>1. SomeWhole /\ \A n \in Names : snaps[n] # "torn"
      BY DEF SnapInv, Dumping
    <2>2. \A n : Exists(n) => snaps[n] = "ok"
      BY <2>1 DEF Exists, TypeOK
    <2>3. Resolve(None) # None => Exists(Resolve(None))
      BY DEF Resolve
    <2>. QED  BY <2>1, <2>2, <2>3 DEF Restorable, SomeWhole
  <1>. QED  BY <1>1, <1>2, <1>3, CopyAlways, PTL DEF Spec

-----------------------------------------------------------------------------
(* Reconciliation spares what runs *)

\* Where no command that writes a transient label is under way.
Outside == {"idle", "await", "sigterm", "sigkill", "sweep", "clean"}

(* Unless a checkpoint ended with its mark in place, a transient label that *)
(* outlives its command is over a container that is gone.                   *)
SweepInv ==
    \A c \in Cmds :
      /\ ~botched /\ pc[c] \in Outside /\ dir /\ file.status \in Transient => Live = {}
      /\ ~botched /\ pc[c] = "reap" => Live = {}

\* A step of a command keeps SweepInv.
LEMMA CmdSweep ==
    ASSUME Careful, TypeOK, CopyInv, SweepInv, NEW c \in Cmds, CmdStep(c)
    PROVE  SweepInv'
  <1>. USE DEF disk, host, env
  <1>0. /\ c \in Actors /\ pc \in [Actors -> CmdPc \cup SupPc] /\ CmdInv(c)
        /\ \A d \in Cmds : d = c
    BY DEF TypeOK, Actors, CopyInv, Careful, OneOperator
  <1>1. ASSUME botched' = botched,
               ~botched /\ pc'[c] \in Outside /\ dir' /\ file'.status \in Transient => Live' = {},
               ~botched /\ pc'[c] = "reap" => Live' = {}
        PROVE  SweepInv'
    BY <1>0, <1>1 DEF SweepInv
  <1>2. ASSUME NEW l, Goto(c, l), Live' = {},
               botched' = botched
        PROVE  SweepInv'
    BY <1>0, <1>1, <1>2 DEF Goto
  <1>3. ASSUME NEW l \in Outside, Goto(c, l), pc[c] \in Outside, Live' \subseteq Live,
               UNCHANGED <<botched, dir, file>>
        PROVE  SweepInv'
    <2>1. pc'[c] = l
      BY <1>0, <1>3 DEF Goto
    <2>. QED  BY <1>1, <1>3, <2>1 DEF SweepInv, Outside
  <1>4. ASSUME NEW l, Goto(c, l), l # "reap",
               l \notin Outside \/ file'.status \notin Transient,
               botched' = botched
        PROVE  SweepInv'
    BY <1>0, <1>1, <1>4 DEF Goto
  <1>5. CASE AwaitUp(c) \/ AwaitDead(c) \/ AwaitTimeout(c) \/ Clean(c)
    <2>1. Goto(c, "idle") /\ pc[c] \in Outside /\ UNCHANGED <<botched, dir, file, owner>>
      BY <1>5 DEF AwaitUp, AwaitDead, AwaitTimeout, Clean, Return, Outside
    <2>. QED  BY <1>3, <2>1 DEF Live, Outside
  <1>6. CASE SigTerm(c) \/ SigKill(c)
    <2>1. /\ Goto(c, "sigkill") \/ Goto(c, "idle")
          /\ pc[c] \in Outside /\ UNCHANGED <<botched, dir, file>>
      BY <1>6 DEF SigTerm, SigKill, Return, Outside
    <2>2. Live' \subseteq Live
      <3>1. CASE Hit(loc[c].pid)
        BY <3>1, LiveHit
      <3>2. CASE owner' = owner
        BY <3>2 DEF Live
      <3>. QED  BY <1>6, <3>1, <3>2 DEF SigTerm, SigKill
    <2>. QED  BY <1>3, <2>1, <2>2 DEF Outside
  <1>7. CASE Load(c)
    <2>1. Goto(c, pc[c]) /\ pc[c] \in UpdatePc /\ UNCHANGED botched
      BY <1>0, <1>7 DEF Load, Goto
    <2>. QED  BY <1>4, <2>1 DEF UpdatePc, Outside
  <1>8. CASE Sweep(c)
    <2>1. Live' = Live /\ UNCHANGED <<botched, dir, file>> /\ pc[c] = "sweep"
      BY <1>8 DEF Sweep, Live
    <2>2. CASE ~(dir /\ Stale(file))
      <3>1. CASE Goto(c, "idle")
        BY <1>3, <2>1, <3>1 DEF Outside
      <3>2. CASE Goto(c, "pick")
        BY <1>4, <2>1, <3>2 DEF Outside
      <3>. QED  BY <1>8, <2>2, <3>1, <3>2 DEF Sweep, AfterSweep, Return
    <2>3. CASE dir /\ Stale(file)
      <3>1. ~botched => Live = {}
        <4>1. CASE file.status \in Transient
          BY <2>1, <2>3, <4>1 DEF SweepInv, Outside
        <4>2. CASE ~Alive(file.pid)
          <5>1. OnRecord
            BY <1>0, <2>1 DEF CmdInv, CopyInv, SupInv
          <5>. QED  BY <4>2, <5>1 DEF OnRecord, Alive, Live
        <4>. QED  BY <2>3, <4>1, <4>2 DEF Stale
      <3>2. pc'[c] = "reap"
        BY <1>0, <1>8, <2>3 DEF Sweep, Goto
      <3>. QED  BY <1>1, <2>1, <3>1, <3>2 DEF Outside
    <2>. QED  BY <2>2, <2>3
  <1>9. CASE SweepReap(c) \/ SweepDebris(c)
    <2>1. /\ UNCHANGED botched
          /\ Goto(c, "debris") \/ Goto(c, "settle")
      BY <1>9 DEF SweepReap, SweepDebris
    <2>. QED  BY <1>4, <2>1 DEF Outside
  <1>10. CASE Settle(c)
    <2>1. file'.status \notin Transient
      BY <1>0, <1>10, FileWrites DEF Transient
    <2>. QED  BY <1>4, <1>10, <2>1 DEF Settle, AfterSweep, Return
  <1>11. CASE \/ Pick(c) \/ Verify(c) \/ Unpack(c) \/ MarkRestoring(c) \/ Prep(c) \/ PrepFail(c)
              \/ EngineFail(c) \/ Unrestore(c)
    <2>1. UNCHANGED <<owner, botched>>
      BY <1>11 DEF Pick, Verify, Unpack, MarkRestoring, Prep, PrepFail, EngineFail, Unrestore
    <2>2. Live = {}
      BY <1>0, <1>11 DEF Pick, Verify, Unpack, MarkRestoring, Prep, PrepFail, EngineFail, Unrestore,
                         CmdInv, Empty
    <2>3. Live' = {}
      BY <2>1, <2>2 DEF Live
    <2>4. \E l \in Building \cup {"idle"} : Goto(c, l)
      BY <1>11 DEF Pick, Verify, Unpack, MarkRestoring, Prep, PrepFail, EngineFail, Unrestore,
                   Return, Building
    <2>. QED  BY <1>2, <2>1, <2>3, <2>4 DEF Building
  <1>12. ASSUME NEW p \in Pids, EngineOk(c, p) \/ EngineBlind(c, p)  PROVE SweepInv'
    BY <1>4, <1>12 DEF EngineOk, EngineBlind, Outside
  <1>13. CASE Build(c) \/ BuildFail(c) \/ Rollback(c)
    <2>1. /\ UNCHANGED botched
          /\ Goto(c, "restored") \/ Goto(c, "rollback") \/ Goto(c, "unrestore")
      BY <1>13 DEF Build, BuildFail, Rollback
    <2>. QED  BY <1>4, <2>1 DEF Outside
  <1>14. CASE CommitRestored(c)
    <2>1. file'.status \notin Transient
      BY <1>0, <1>14, FileWrites DEF Transient
    <2>. QED  BY <1>4, <1>14, <2>1 DEF CommitRestored
  <1>15. CASE Mark(c)
    BY <1>4, <1>15 DEF Mark, Outside
  <1>16. CASE Stage(c)
    <2>1. CASE Goto(c, "dump") /\ UNCHANGED botched
      BY <1>4, <2>1 DEF Outside
    <2>2. CASE botched'
      BY <2>2 DEF SweepInv
    <2>. QED  BY <1>16, <2>1, <2>2 DEF Stage
  <1>17. CASE DumpOk(c) \/ SupWait(c)
    <2>1. UNCHANGED botched /\ (Goto(c, "supwait") \/ Goto(c, "pack"))
      BY <1>17 DEF DumpOk, SupWait
    <2>. QED  BY <1>4, <2>1 DEF Outside
  <1>18. CASE DumpFail(c) \/ PackOpen(c) \/ PackDone(c)
    <2>1. /\ UNCHANGED botched
          /\ Goto(c, "undump") \/ Goto(c, "fill") \/ Goto(c, "commit")
      BY <1>18 DEF DumpFail, PackOpen, PackDone
    <2>. QED  BY <1>4, <2>1 DEF Outside
  <1>19. CASE Undump(c) \/ Commit(c)
    <2>1. file'.status \notin Transient /\ UNCHANGED botched /\ Goto(c, "idle")
      BY <1>0, <1>19, FileWrites DEF Transient, Undump, Commit, Return
    <2>. QED  BY <1>4, <2>1
  <1>20. CASE PackFail(c)
    BY <1>20 DEF PackFail, SweepInv
  <1>. QED
    BY <1>5, <1>6, <1>7, <1>8, <1>9, <1>10, <1>11, <1>12, <1>13, <1>14, <1>15, <1>16, <1>17,
       <1>18, <1>19, <1>20 DEF CmdStep

\* So does everything else.
LEMMA OthersSweep ==
    ASSUME Careful, TypeOK, CopyInv, SweepInv,
           \/ \E c \in Cmds : Invoke(c) \/ Crash(c)
           \/ \E s \in Sups : SupStep(s) \/ SupKilled(s)
           \/ Kernel
    PROVE  SweepInv'
  <1>. USE DEF disk, host, env
  <1>0. pc \in [Actors -> CmdPc \cup SupPc] /\ loc \in [Actors -> Locals] /\ Cmds \subseteq Actors
        /\ Sups \subseteq Actors
    BY DEF TypeOK, Actors
  <1>1. ASSUME UNCHANGED <<botched, staging>>, \A c \in Cmds : pc'[c] = pc[c],
               \/ Live' \subseteq Live /\ UNCHANGED <<dir, file>>
               \/ /\ Live' \subseteq Live \/ \A c \in Cmds : pc[c] \in {"idle", "await"}
                  /\ file'.status \notin Transient
        PROVE  SweepInv'
    BY <1>1 DEF SweepInv
  <1>2. CASE Kernel
    <2>1. CASE NetnsGone
      BY <1>1, <2>1 DEF NetnsGone, Live
    <2>2. ASSUME NEW p \in Pids, Exit(p)  PROVE SweepInv'
      BY <1>1, <2>2, LiveEnd DEF Exit
    <2>3. ASSUME NEW p \in Pids, Recycle(p)  PROVE FALSE
      BY <2>3 DEF Recycle, Careful
    <2>4. ASSUME NEW j \in jobs, OrphanDump(j)  PROVE SweepInv'
      <3>1. Live' \subseteq Live
        <4>1. CASE End({j.pid}, "dumped")
          BY <4>1, LiveEnd
        <4>2. CASE owner' = owner
          BY <4>2 DEF Live
        <4>. QED  BY <2>4, <4>1, <4>2 DEF OrphanDump
      <3>. QED  BY <1>1, <2>4, <3>1 DEF OrphanDump
    <2>5. ASSUME NEW j \in jobs, OrphanRestore(j)  PROVE FALSE
      BY <2>5 DEF OrphanRestore, CopyInv, HostInv
    <2>. QED  BY <1>2, <2>1, <2>2, <2>3, <2>4, <2>5 DEF Kernel
  <1>3. ASSUME NEW s \in Sups, SupStep(s) \/ SupKilled(s)  PROVE SweepInv'
    <2>1. SupInv(s) /\ s \in Actors /\ s \notin Cmds
      BY <1>0, DistinctActors DEF CopyInv
    <2>2. (\E l : Goto(s, l)) \/ pc' = pc
      BY <1>3 DEF SupStep, SupKilled, SupCgroup, SupCgroupFail, SupFork, SupForkFail, Load, SupFail,
             SupPublish, SupLost, SupReap, SupNetDown, SupCgDown, SupCheck, SupStop
    <2>3. \A c \in Cmds : pc'[c] = pc[c]
      BY <1>0, <2>1, <2>2 DEF Goto
    <2>4. UNCHANGED <<botched, staging>>
      BY <1>3 DEF SupStep, SupKilled, SupCgroup, SupCgroupFail, SupFork, SupForkFail, Load, SupFail,
             SupPublish, SupLost, SupReap, SupNetDown, SupCgDown, SupCheck, SupStop
    <2>5. ASSUME NEW p \in Pids, SupFork(s, p) \/ SupForkFail(s, p)  PROVE SweepInv'
      <3>1. /\ \A c \in Cmds : pc[c] \in {"idle", "await"}
            /\ file'.status = "created"
        BY <2>1, <2>5 DEF SupFork, SupForkFail, SupInv, Starting
      <3>. QED  BY <1>1, <2>3, <2>4, <3>1 DEF Transient
    <2>6. CASE SupPublish(s) \/ SupStop(s)
      <3>1. Live' = Live /\ file'.status \notin Transient
        BY <2>1, <2>6, FileWrites DEF SupPublish, SupStop, Live, Transient
      <3>. QED  BY <1>1, <2>3, <2>4, <3>1
    <2>7. CASE SupFail(s)
      BY <2>1, <2>7 DEF SupFail, SupInv
    <2>8. CASE \/ SupCgroup(s) \/ SupCgroupFail(s) \/ Load(s) \/ SupLost(s) \/ SupReap(s)
               \/ SupNetDown(s) \/ SupCgDown(s) \/ SupCheck(s) \/ SupKilled(s)
      <3>1. UNCHANGED <<dir, file, owner>>
        BY <2>8 DEF SupCgroup, SupCgroupFail, Load, SupLost, SupReap, SupNetDown, SupCgDown, SupCheck,
                    SupKilled
      <3>. QED  BY <1>1, <2>3, <2>4, <3>1 DEF Live
    <2>. QED  BY <1>3, <2>5, <2>6, <2>7, <2>8 DEF SupStep
  <1>4. ASSUME NEW c \in Cmds, Invoke(c) \/ Crash(c)  PROVE SweepInv'
    <2>0. \A d \in Cmds : d = c
      BY DEF Careful, OneOperator
    <2>1. CASE Crash(c)
      <3>1. pc'[c] = "idle" /\ UNCHANGED <<owner, dir, file>>
        BY <1>0, <2>1 DEF Crash, Return, Goto
      <3>2. CASE pc[c] \in CheckpointPc
        BY <2>1, <3>2 DEF Crash, SweepInv
      <3>3. CASE pc[c] \in Outside
        <4>1. pc[c] \notin CheckpointPc
          BY <3>3 DEF CheckpointPc, Outside
        <4>2. botched' = (botched \/ pc[c] \in CheckpointPc)
          BY <2>1 DEF Crash
        <4>3. botched' <=> botched
          BY <4>1, <4>2
        <4>. QED  BY <2>0, <3>1, <3>3, <4>3 DEF SweepInv, Live
      <3>4. CASE pc[c] \in Empty \cup {"reap"}
        <4>1. ~botched' => ~botched /\ Live = {}
          BY <2>1, <3>4 DEF Crash, SweepInv, CopyInv, CmdInv
        <4>. QED  BY <2>0, <3>1, <4>1 DEF SweepInv, Live
      <3>5. pc[c] \in CheckpointPc \cup Outside \cup Empty \cup {"reap"}
        BY <2>1, EnvironmentAssumption DEF Crash, Careful, CmdPc, CheckpointPc, Outside, Empty
      <3>. QED  BY <3>2, <3>3, <3>4, <3>5
    <2>2. CASE Create(c) \/ Rm(c)
      <3>1. /\ file'.status = "created" /\ UNCHANGED <<owner, pc, botched>>
            /\ pc[c] = "idle"
        BY <2>2 DEF Create, Rm, NewState, Issues
      <3>. QED  BY <2>0, <3>1 DEF SweepInv, Transient
    <2>3. CASE \/ Stop(c) \/ Ps(c) \/ \E n \in Names \cup {None} : Restore(c, n)
               \/ \E s \in Sups : Start(c, s) \/ StartForeground(c, s)
               \/ \E n \in Names, leave \in BOOLEAN : Checkpoint(c, n, leave)
      <3>1. /\ UNCHANGED <<owner, dir, file, staging, botched>> /\ pc[c] = "idle"
        BY <2>3 DEF Stop, Ps, Restore, Start, StartForeground, Checkpoint, Issues
      <3>2. pc'[c] \in {"idle", "await", "sigterm", "sweep", "mark"}
        BY <1>0, <2>3, <3>1, DistinctActors
           DEF Stop, Ps, Restore, Start, StartForeground, Checkpoint, Goto
      <3>. QED  BY <2>0, <3>1, <3>2 DEF SweepInv, Outside, Live
    <2>. QED  BY <1>4, <2>1, <2>2, <2>3 DEF Invoke
  <1>. QED  BY <1>2, <1>3, <1>4

\* The reconciliation that a careful operator runs kills a container process only
\* after a checkpoint that failed, or was killed, with its mark in place
\* (checkpoint.rs:121, 189): what runs under a label that is in order, or what a
\* checkpoint deliberately kept running (checkpoint.rs:197-200), is left alone,
\* whatever else has failed or was killed.
THEOREM SweepAlwaysSparesLive ==
    ASSUME Careful
    PROVE  Spec => SweepSparesLive
  <1>1. Init => SweepInv
    BY DEF Init, SweepInv, Live, NewState, Actors, Transient
  <1>2. TypeOK /\ CopyInv /\ SweepInv /\ [Next]_vars => SweepInv'
    <2>1. SweepInv /\ UNCHANGED vars => SweepInv'
      BY DEF vars, disk, host, env, SweepInv, Live
    <2>. QED  BY <2>1, CmdSweep, OthersSweep DEF Next
  <1>3. TypeOK /\ CopyInv /\ SweepInv /\ [Next]_vars =>
            [\A c \in Cmds : ~botched /\ pc[c] = "reap" /\ pc'[c] # "reap" => Live' = Live]_vars
    <2>. SUFFICES ASSUME TypeOK, CopyInv, SweepInv, Next, NEW c \in Cmds,
                         ~botched, pc[c] = "reap", pc'[c] # "reap"
                  PROVE  Live' = Live
      BY DEF vars
    <2>0. /\ pc \in [Actors -> CmdPc \cup SupPc] /\ c \in Actors
          /\ \A d \in Cmds : d = c
      BY DEF TypeOK, Actors, Careful, OneOperator
    <2>1. Live = {}
      BY DEF SweepInv
    <2>2. ~Invoke(c)
      BY DEF Invoke, Create, Rm, Stop, Ps, Start, StartForeground, Restore, Checkpoint, Issues
    <2>3. ASSUME CmdStep(c)  PROVE SweepReap(c)
      BY <2>3 DEF CmdStep, AwaitUp, AwaitDead, AwaitTimeout, SigTerm, SigKill, Load, UpdatePc, Sweep,
           SweepDebris, Settle, Pick, Verify, Unpack, MarkRestoring, Prep, PrepFail, EngineOk,
           EngineBlind, EngineFail, Build, BuildFail, Rollback, Unrestore, CommitRestored, Clean,
           Mark, Stage, DumpOk, DumpFail, Undump, SupWait, PackOpen, PackDone, PackFail, Commit
    <2>4. ASSUME NEW s \in Sups, SupStep(s) \/ SupKilled(s)  PROVE FALSE
      <3>1. (\E l : Goto(s, l)) \/ pc' = pc
        BY <2>4 DEF SupStep, SupKilled, SupCgroup, SupCgroupFail, SupFork, SupForkFail, Load, SupFail,
             SupPublish, SupLost, SupReap, SupNetDown, SupCgDown, SupCheck, SupStop
      <3>. QED  BY <2>0, <3>1, DistinctActors DEF Goto
    <2>5. ~Kernel
      BY DEF Kernel, NetnsGone, Exit, Recycle, OrphanDump, OrphanRestore
    <2>6. CASE SweepReap(c)
      BY <2>1, <2>6, LiveHit DEF SweepReap, SweepHit
    <2>7. CASE Crash(c)
      BY <2>7 DEF Crash, host, Live
    <2>. QED  BY <2>0, <2>2, <2>3, <2>4, <2>5, <2>6, <2>7 DEF Next
  <1>. QED  BY <1>1, <1>2, <1>3, CopyAlways, PTL DEF Spec, SweepSparesLive

-----------------------------------------------------------------------------
(* What is frozen is not recorded as stopped *)

\* The dump did not take process p, which may be none.
Intact(p) == p = None \/ owner[p] # "dumped"
\* p is the pid of a process, past or present.
Used(p) == p \in Pids /\ owner[p] # "free"

\* Where the record of a command still speaks of a process that was not dumped.
Keeps(c) ==
    \/ Restoring(c)
    \/ pc[c] \in {"mark", "stage", "dump", "undump"}
    \/ pc[c] \in Packing /\ loc[c].leave
\* Where a command may be while a dump runs on without its checkpoint.
Calm == {"idle", "sigterm", "sigkill", "sweep", "reap"}

\* What a command relies on ...
CmdFrozen(c) ==
    /\ Keeps(c) => Intact(file.pid) /\ (loc[c].buf # None => Intact(loc[c].buf.pid))
    /\ pc[c] \in {"build", "restored"} => Intact(loc[c].pid)
    /\ pc[c] = "supwait" => ~loc[c].leave
    /\ pc[c] \in {"mark", "stage", "dump"} => Used(loc[c].pid)

\* ... a supervisor ...
SupFrozen(s) ==
    /\ pc[s] \in SupPc
    /\ pc[s] \notin {"publish", "stop", "fail"} => loc[s].buf = None
    /\ pc[s] = "publish" => Intact(loc[s].pid)
    /\ pc[s] = "stop" => Intact(file.pid) /\ (loc[s].buf # None => Intact(loc[s].buf.pid))
    /\ Active(s) /\ Foreground(s) => Intact(file.pid)

\* ... and a dump whose checkpoint was killed: the process it may yet take is on
\* record, under the label of that checkpoint.
JobFrozen(j) ==
    /\ Used(j.pid)
    /\ j.pid \in Live => /\ dir /\ file.pid = j.pid /\ file.status = "checkpointing"
                         /\ \A c \in Cmds : pc[c] \in Calm /\ ~Restoring(c)
                         /\ \A s \in Sups : ~Starting(s)

\* A dumped process is in the file under `checkpointing` only, and nobody is
\* about to write another label over its pid.
FrozenInv ==
    /\ ~dir => file.pid = None
    /\ ~Intact(file.pid) => file.status = "checkpointing"
    /\ \A c \in Cmds : CmdFrozen(c)
    /\ \A s \in Sups : SupFrozen(s)
    /\ \A j \in jobs : JobFrozen(j)

\* No process is dumped, and none comes to life but a new one.
Fades ==
    \A p \in Pids : /\ owner'[p] = "dumped" => owner[p] = "dumped"
                    /\ owner'[p] = "free" => owner[p] = "free"
                    /\ owner'[p] = "ctr" => owner[p] \in {"ctr", "free"}

\* The steps that dump nothing.
LEMMA FadesOf ==
    ASSUME TypeOK
    PROVE  /\ UNCHANGED owner => Fades
           /\ \A p : Hit(p) => Fades
           /\ \A ps : End(ps, "dead") => Fades
           /\ \A p \in Pids : Fresh(p) /\ owner' = [owner EXCEPT ![p] = "ctr"] => Fades
  <1>1. UNCHANGED owner => Fades
    BY DEF Fades
  <1>2. ASSUME NEW ps, End(ps, "dead")  PROVE Fades
    BY <1>2 DEF Fades, End
  <1>3. ASSUME NEW p, Hit(p)  PROVE Fades
    BY <1>2, <1>3 DEF Hit
  <1>4. ASSUME NEW p \in Pids, Fresh(p), owner' = [owner EXCEPT ![p] = "ctr"]  PROVE Fades
    BY <1>4 DEF Fades, Fresh, TypeOK
  <1>. QED  BY <1>1, <1>2, <1>3, <1>4

\* What was intact stays so.
LEMMA StillIntact ==
    ASSUME Fades, NEW p \in Pids \cup {None}
    PROVE  /\ Intact(p) => p = None \/ owner'[p] # "dumped"
           /\ Used(p) => p \in Pids /\ owner'[p] # "free"
           /\ Used(p) /\ p \in Live' => p \in Live
  BY DistinctActors DEF Fades, Intact, Used, Live

\* A step of a command that dumps nothing.
LEMMA FrozenOwn ==
    ASSUME Careful, TypeOK, TypeOK', FrozenInv, NEW c \in Cmds,
           \E l : Goto(c, l), UNCHANGED loc \/ \E r : Bind(c, r),
           Fades, UNCHANGED jobs, CmdFrozen(c)',
           UNCHANGED <<dir, file>> \/ (dir' /\ Intact(file.pid)'),
           \/ pc[c] \notin Calm \/ Restoring(c) \/ Live' = {}
           \/ UNCHANGED <<dir, file>> /\ pc'[c] \in Calm /\ ~Restoring(c)'
    PROVE  FrozenInv'
  <1>0. /\ \A s \in Sups : pc'[s] = pc[s] /\ loc'[s] = loc[s] /\ loc[s] \in Locals
        /\ \A d \in Cmds : d = c
        /\ file.pid \in Pids \cup {None} /\ jobs \subseteq Jobs
    BY CmdOnly DEF Careful, OneOperator, TypeOK, State, Actors
  <1>1. Intact(file.pid) => Intact(file.pid)'
    BY <1>0, StillIntact DEF Intact
  <1>2. ASSUME NEW s \in Sups  PROVE SupFrozen(s)'
    <2>1. Intact(loc[s].pid) => Intact(loc[s].pid)'
      BY <1>0, StillIntact DEF Intact, Locals
    <2>2. loc[s].buf # None => (Intact(loc[s].buf.pid) => Intact(loc[s].buf.pid)')
      <3>1. loc[s].buf # None => loc[s].buf.pid \in Pids \cup {None}
        BY <1>0 DEF Locals, State
      <3>. QED  BY <1>0, <3>1, StillIntact DEF Intact
    <2>. QED  BY <1>0, <1>1, <2>1, <2>2 DEF FrozenInv, SupFrozen, Active, Foreground
  <1>3. ASSUME NEW j \in jobs  PROVE JobFrozen(j)'
    <2>1. j.pid \in Pids \cup {None} /\ JobFrozen(j)
      BY <1>0 DEF Jobs, FrozenInv
    <2>2. Used(j.pid)' /\ (j.pid \in Live' => j.pid \in Live)
      BY <2>1, StillIntact DEF JobFrozen, Used
    <2>3. ASSUME j.pid \in Live'
          PROVE  UNCHANGED <<dir, file>> /\ pc'[c] \in Calm /\ ~Restoring(c)'
      BY <2>1, <2>2, <2>3 DEF JobFrozen
    <2>. QED  BY <1>0, <2>1, <2>2, <2>3 DEF JobFrozen, Starting, Foreground
  <1>4. (~Intact(file.pid) => file.status = "checkpointing")' /\ (~dir => file.pid = None)'
    BY <1>1 DEF FrozenInv
  <1>. QED  BY <1>0, <1>2, <1>3, <1>4 DEF FrozenInv

\* A command in flight keeps FrozenInv.
LEMMA CmdStepFrozen ==
    ASSUME Careful, TypeOK, TypeOK', CopyInv, LeakInv, FrozenInv, NEW c \in Cmds, CmdStep(c)
    PROVE  FrozenInv'
  <1>. USE DEF disk, host, env
  <1>0. /\ c \in Actors /\ pc \in [Actors -> CmdPc \cup SupPc] /\ loc[c] \in Locals /\ CmdInv(c)
        /\ CmdFrozen(c) /\ loc \in [Actors -> Locals]
        /\ file.pid \in Pids \cup {None}
        /\ \A d \in Cmds : d = c
    BY DEF TypeOK, Actors, CopyInv, FrozenInv, State, Careful, OneOperator
  <1>a. loc[c].pid \in Pids \cup {None}
    BY <1>0 DEF Locals
  <1>b. loc[c].buf # None => loc[c].buf.pid \in Pids \cup {None}
    BY <1>0 DEF Locals, State
  <1>c. Fades /\ UNCHANGED <<dir, file>> /\ Intact(file.pid) => Intact(file.pid)'
    BY <1>0, StillIntact DEF Intact
  <1>1. ASSUME Return(c), Fades, UNCHANGED jobs,
               UNCHANGED <<dir, file>> \/ (dir' /\ Intact(file.pid)'),
               \/ pc[c] \notin Calm \/ Restoring(c) \/ Live' = {}
               \/ UNCHANGED <<dir, file>>
        PROVE  FrozenInv'
    <2>1. pc'[c] = "idle"
      BY <1>0, <1>1 DEF Return, Goto
    <2>2. CmdFrozen(c)' /\ ~Restoring(c)' /\ pc'[c] \in Calm
      BY <2>1 DEF CmdFrozen, Keeps, Restoring, Building, Sweeping, Packing, Calm
    <2>. QED  BY <1>1, <2>2, FrozenOwn DEF Return
  <1>2. ASSUME Keeps(c), NEW l, Goto(c, l), UNCHANGED <<loc, dir, file, jobs>>, Fades, pc[c] \notin Calm,
               l \in {"build", "restored"} => pc[c] \in {"build", "restored"},
               l # "supwait",
               l \in {"mark", "stage", "dump"} => pc[c] \in {"mark", "stage", "dump"}
        PROVE  FrozenInv'
    <2>1. pc'[c] = l
      BY <1>0, <1>2 DEF Goto
    <2>2. Intact(file.pid)' /\ (loc[c].buf # None => Intact(loc[c].buf.pid)')
      BY <1>0, <1>b, <1>c, <1>2, StillIntact DEF CmdFrozen, Intact
    <2>3. /\ l \in {"build", "restored"} => Intact(loc[c].pid)'
          /\ l \in {"mark", "stage", "dump"} => Used(loc[c].pid)'
      BY <1>0, <1>a, <1>2, StillIntact DEF CmdFrozen, Intact, Used
    <2>4. CmdFrozen(c)'
      BY <1>2, <2>1, <2>2, <2>3 DEF CmdFrozen
    <2>. QED  BY <1>2, <2>4, FrozenOwn
  <1>3. CASE AwaitUp(c) \/ AwaitDead(c) \/ AwaitTimeout(c) \/ PackFail(c) \/ PrepFail(c) \/ Clean(c)
    <2>1. Return(c) /\ UNCHANGED <<jobs, dir, file, owner>>
      BY <1>3 DEF AwaitUp, AwaitDead, AwaitTimeout, PackFail, PrepFail, Clean
    <2>. QED  BY <1>1, <2>1, FadesOf
  <1>4. CASE SigTerm(c)
    <2>1. Fades
      BY <1>4, FadesOf DEF SigTerm
    <2>2. pc'[c] = "sigkill"
      BY <1>0, <1>4 DEF SigTerm, Goto
    <2>3. CmdFrozen(c)' /\ ~Restoring(c)' /\ pc'[c] \in Calm
      BY <2>2 DEF CmdFrozen, Keeps, Restoring, Building, Sweeping, Packing, Calm
    <2>. QED  BY <1>4, <2>1, <2>3, FrozenOwn DEF SigTerm
  <1>5. CASE SigKill(c)
    BY <1>1, <1>5, FadesOf DEF SigKill
  <1>6. CASE Load(c)
    <2>1. /\ pc' = pc /\ Goto(c, pc[c]) /\ loc'[c].buf = file /\ Rest(c) /\ loc'[c].pid = loc[c].pid
          /\ Fades /\ UNCHANGED <<dir, file, jobs, owner>> /\ pc[c] \in UpdatePc
      BY <1>0, <1>6, LocWrites, FadesOf DEF Load, Goto
    <2>2. CmdFrozen(c)' /\ pc[c] \notin Calm
      BY <1>0, <2>1 DEF CmdFrozen, Keeps, Restoring, Rest, Intact, Used, UpdatePc, Calm
    <2>. QED  BY <1>6, <2>1, <2>2, FrozenOwn DEF Load
  <1>7. ASSUME AfterSweep(c), UNCHANGED <<owner, jobs>>,
               loc[c].op = "restore" => Intact(file.pid)',
               UNCHANGED <<dir, file>> \/ (dir' /\ Intact(file.pid)'),
               UNCHANGED <<dir, file>> \/ pc[c] \notin Calm,
               pc[c] \in Sweeping
        PROVE  FrozenInv'
    <2>1. CASE Return(c)
      BY <1>1, <1>7, <2>1, FadesOf
    <2>2. CASE loc[c].op = "restore"
      <3>1. Goto(c, "pick") /\ Bind(c, [NoLocals EXCEPT !.name = loc[c].name]) /\ Restoring(c)
        BY <1>7, <2>2 DEF AfterSweep, Restoring
      <3>2. pc'[c] = "pick" /\ loc'[c].buf = None
        BY <1>0, <3>1 DEF Goto, Bind, NoLocals
      <3>3. CmdFrozen(c)'
        BY <1>7, <2>2, <3>2 DEF CmdFrozen
      <3>. QED  BY <1>7, <3>1, <3>3, FadesOf, FrozenOwn
    <2>. QED  BY <1>7, <2>1, <2>2 DEF AfterSweep
  <1>8. CASE Sweep(c)
    <2>1. UNCHANGED <<owner, jobs, dir, file>> /\ pc[c] = "sweep" /\ Fades
      BY <1>8, FadesOf DEF Sweep
    <2>2. loc[c].op = "restore" => Intact(file.pid)' /\ Intact(file.pid)
      BY <1>0, <1>c, <2>1 DEF CmdFrozen, Keeps, Restoring, Sweeping
    <2>3. CASE AfterSweep(c)
      BY <1>7, <2>1, <2>2, <2>3 DEF Sweeping
    <2>4. CASE dir /\ Stale(file)
      <3>1. pc'[c] = "reap" /\ loc'[c].buf = file /\ Rest(c)
        BY <1>0, <1>8, <2>4, LocWrites DEF Sweep, Goto
      <3>2. CmdFrozen(c)'
        BY <2>1, <2>2, <3>1 DEF CmdFrozen, Keeps, Restoring, Building, Packing, Rest
      <3>3. Restoring(c)' <=> Restoring(c)
        BY <2>1, <3>1 DEF Restoring, Building, Sweeping, Rest
      <3>. QED  BY <1>8, <2>1, <2>4, <3>1, <3>2, <3>3, FrozenOwn DEF Sweep, Calm
    <2>. QED  BY <1>8, <2>3, <2>4 DEF Sweep
  <1>9. CASE SweepReap(c)
    <2>1. /\ pc'[c] = "debris" /\ pc[c] = "reap" /\ Fades /\ UNCHANGED <<loc, dir, file, jobs>>
          /\ Goto(c, "debris")
      BY <1>0, <1>9, FadesOf DEF SweepReap, SweepHit, Goto
    <2>2. Live' = {}
      BY <1>0, <1>9, <2>1, LiveHit DEF SweepReap, SweepHit, CmdInv
    <2>3. CmdFrozen(c)'
      <3>1. Restoring(c)' <=> Restoring(c)
        BY <2>1 DEF Restoring, Building, Sweeping
      <3>2. Restoring(c) => Intact(file.pid)' /\ (loc[c].buf # None => Intact(loc[c].buf.pid)')
        BY <1>0, <1>b, <1>c, <2>1, StillIntact DEF CmdFrozen, Intact, Keeps
      <3>. QED  BY <2>1, <3>1, <3>2 DEF CmdFrozen, Keeps, Packing
    <2>. QED  BY <2>1, <2>2, <2>3, FrozenOwn
  <1>10. CASE SweepDebris(c)
    <2>1. /\ pc'[c] = "settle" /\ pc[c] = "debris" /\ Fades /\ UNCHANGED <<dir, file, jobs, owner>>
          /\ Goto(c, "settle") /\ loc'[c].buf = None /\ Rest(c)
          /\ \E r : Bind(c, r)
      BY <1>0, <1>10, FadesOf, LocWrites DEF SweepDebris, Goto
    <2>2. Restoring(c)' => Intact(file.pid)'
      BY <1>0, <1>c, <2>1 DEF CmdFrozen, Keeps, Restoring, Building, Sweeping, Rest
    <2>3. CmdFrozen(c)' /\ pc[c] \notin Calm
      BY <2>1, <2>2 DEF CmdFrozen, Keeps, Packing, Calm
    <2>. QED  BY <2>1, <2>3, FrozenOwn
  <1>11. CASE Settle(c)
    <2>1. dir' /\ Intact(file.pid)' /\ pc[c] = "settle" /\ UNCHANGED <<owner, jobs>>
      BY <1>0, <1>11, FileWrites DEF Settle, Intact
    <2>. QED  BY <1>7, <1>11, <2>1 DEF Settle, Sweeping, Calm
  <1>12. ASSUME pc[c] \in Building  PROVE Keeps(c) /\ pc[c] \notin Calm
    BY <1>12 DEF Keeps, Restoring, Building, Calm
  <1>13. CASE Pick(c) \/ Verify(c) \/ Unpack(c)
    <2>1. /\ pc[c] \in Building /\ UNCHANGED <<owner, dir, file, jobs>> /\ Fades
      BY <1>13, FadesOf DEF Pick, Verify, Unpack, Building
    <2>2. CASE Return(c)
      BY <1>1, <2>1, <2>2
    <2>3. CASE ~Return(c) /\ Pick(c)
      <3>1. /\ Goto(c, "verify") /\ pc'[c] = "verify"
            /\ Bind(c, [loc[c] EXCEPT !.name = Resolve(loc[c].name)])
        BY <1>0, <2>3 DEF Pick, Goto
      <3>2. loc'[c].buf = loc[c].buf
        BY <1>0, <3>1 DEF Bind, Locals
      <3>3. Intact(file.pid)' /\ (loc[c].buf # None => Intact(loc[c].buf.pid)')
        BY <1>0, <1>b, <1>c, <1>12, <2>1, <3>2, StillIntact DEF CmdFrozen, Intact
      <3>4. CmdFrozen(c)'
        BY <3>1, <3>2, <3>3 DEF CmdFrozen
      <3>. QED  BY <1>12, <2>1, <3>1, <3>4, FrozenOwn
    <2>4. CASE ~Return(c) /\ ~Pick(c)
      <3>1. UNCHANGED loc /\ (Goto(c, "unpack") \/ Goto(c, "restoring"))
        BY <1>13, <2>4 DEF Verify, Unpack
      <3>. QED  BY <1>2, <1>12, <2>1, <3>1
    <2>. QED  BY <2>2, <2>3, <2>4
  <1>14. CASE Prep(c) \/ EngineFail(c) \/ Build(c) \/ BuildFail(c) \/ Rollback(c)
    <2>1. /\ pc[c] \in Building /\ UNCHANGED <<loc, dir, file, jobs>>
          /\ \/ Goto(c, "engine") \/ Goto(c, "rollback") \/ Goto(c, "unrestore")
             \/ pc[c] = "build" /\ Goto(c, "restored")
      BY <1>14 DEF Prep, EngineFail, Build, BuildFail, Rollback, Building
    <2>2. Fades
      BY <1>14, FadesOf DEF Prep, EngineFail, Build, BuildFail, Rollback, RollbackHit
    <2>. QED  BY <1>2, <1>12, <2>1, <2>2
  <1>15. CASE MarkRestoring(c) \/ CommitRestored(c)
    <2>1. /\ pc[c] \in Building /\ UNCHANGED <<owner, jobs>> /\ dir' /\ loc'[c].buf = None
          /\ \/ pc'[c] = "prep" /\ Goto(c, "prep") /\ file'.pid = loc[c].buf.pid /\ loc[c].buf # None
             \/ pc'[c] = "clean" /\ Goto(c, "clean") /\ file'.pid = loc[c].pid /\ pc[c] = "restored"
          /\ \E r : Bind(c, r)
      BY <1>0, <1>15, FileWrites, LocWrites DEF MarkRestoring, CommitRestored, Goto, Building
    <2>2. Intact(file.pid)'
      BY <1>0, <1>12, <2>1 DEF CmdFrozen, Intact
    <2>3. CmdFrozen(c)'
      BY <2>1, <2>2 DEF CmdFrozen
    <2>. QED  BY <1>12, <2>1, <2>2, <2>3, FadesOf, FrozenOwn
  <1>16. CASE Unrestore(c)
    <2>1. dir' /\ Intact(file.pid)' /\ UNCHANGED <<owner, jobs>> /\ pc[c] \in Building /\ Return(c)
      <3>1. /\ dir' /\ loc[c].buf # None /\ file'.pid = loc[c].buf.pid /\ UNCHANGED <<owner, jobs>>
            /\ pc[c] \in Building /\ Return(c)
        BY <1>0, <1>16, FileWrites DEF Unrestore, Building
      <3>. QED  BY <1>0, <1>12, <3>1 DEF CmdFrozen, Intact
    <2>. QED  BY <1>1, <1>12, <2>1, FadesOf
  <1>17. ASSUME NEW p \in Pids, EngineOk(c, p)  PROVE FrozenInv'
    <2>1. /\ pc[c] \in Building /\ Goto(c, "build") /\ pc'[c] = "build" /\ loc'[c].pid = p
          /\ loc'[c].buf = loc[c].buf /\ Fades /\ UNCHANGED <<dir, file, jobs>>
          /\ \E r : Bind(c, r)
      BY <1>0, <1>17, LocWrites, FadesOf DEF EngineOk, Goto, Building
    <2>2. Intact(file.pid)' /\ (loc[c].buf # None => Intact(loc[c].buf.pid)')
      BY <1>0, <1>b, <1>c, <1>12, <2>1, StillIntact DEF CmdFrozen, Intact
    <2>3. owner'[p] = "ctr"
      BY <1>17 DEF EngineOk, TypeOK
    <2>4. CmdFrozen(c)'
      BY <2>1, <2>2, <2>3 DEF CmdFrozen, Intact
    <2>. QED  BY <1>12, <2>1, <2>4, FrozenOwn
  <1>18. ASSUME NEW p \in Pids, EngineBlind(c, p)  PROVE FALSE
    BY <1>18 DEF EngineBlind, Careful
  <1>19. CASE Mark(c)
    <2>1. /\ pc[c] = "mark" /\ pc'[c] = "stage" /\ Goto(c, "stage") /\ UNCHANGED <<owner, jobs>> /\ dir'
          /\ loc[c].buf # None /\ file'.pid = loc[c].buf.pid
          /\ loc'[c].buf = None /\ loc'[c].pid = loc[c].pid
          /\ \E r : Bind(c, r)
      BY <1>0, <1>19, FileWrites, LocWrites DEF Mark, Goto
    <2>2. Intact(file.pid)' /\ Used(loc[c].pid)'
      BY <1>0, <2>1 DEF CmdFrozen, Keeps, Intact, Used
    <2>3. CmdFrozen(c)' /\ pc[c] \notin Calm
      BY <2>1, <2>2 DEF CmdFrozen, Calm
    <2>. QED  BY <2>1, <2>2, <2>3, FadesOf, FrozenOwn
  <1>20. CASE Stage(c)
    <2>1. UNCHANGED <<owner, dir, file, jobs>> /\ Fades /\ pc[c] = "stage"
      BY <1>20, FadesOf DEF Stage
    <2>2. CASE Return(c)
      BY <1>1, <2>1, <2>2
    <2>3. CASE Goto(c, "dump") /\ UNCHANGED loc
      BY <1>2, <2>1, <2>3 DEF Keeps, Calm
    <2>. QED  BY <1>20, <2>2, <2>3 DEF Stage
  <1>21. CASE DumpOk(c) /\ loc[c].leave
    <2>1. UNCHANGED <<owner, dir, file, jobs, loc>> /\ Fades /\ pc[c] = "dump" /\ Goto(c, "pack")
      BY <1>21, FadesOf DEF DumpOk
    <2>. QED  BY <1>2, <2>1 DEF Keeps, Calm
  <1>22. CASE DumpOk(c) /\ ~loc[c].leave
    <2>1. /\ pc[c] = "dump" /\ pc'[c] = "supwait" /\ UNCHANGED <<dir, file, jobs, loc>>
          /\ End({loc[c].pid}, "dumped") /\ loc[c].pid \in Pids /\ Alive(loc[c].pid)
      BY <1>0, <1>22 DEF DumpOk, Goto, Alive
    <2>2. loc[c].pid \in Live /\ Live' = {}
      BY <1>0, <2>1, LiveEnd DEF Alive, Live, LeakInv, Joined, CmdInv, Dumping
    <2>3. /\ \A p \in Pids : p # loc[c].pid => owner'[p] = owner[p]
          /\ owner'[loc[c].pid] = "dumped"
      BY <2>1 DEF End
    <2>4. file.status = "checkpointing" /\ dir
      BY <1>0, <2>1, <2>2 DEF CmdInv, CopyInv, SupInv, OnRecord, Dumping
    <2>5. ASSUME NEW s \in Sups  PROVE SupFrozen(s)'
      <3>1. /\ pc'[s] = pc[s] /\ loc'[s] = loc[s] /\ pc[s] # "publish" /\ pc[s] # "stop"
            /\ ~(Active(s) /\ Foreground(s))
        <4>1. SupInv(s)
          BY DEF CopyInv
        <4>2. pc[s] # "publish" /\ pc[s] # "stop" /\ ~(Active(s) /\ Foreground(s))
          BY <2>1, <2>2, <4>1 DEF SupInv, Starting
        <4>3. pc'[s] = pc[s]
          BY <1>22, CmdOnly DEF DumpOk
        <4>. QED  BY <2>1, <4>2, <4>3
      <3>. QED  BY <3>1 DEF FrozenInv, SupFrozen, Active, Foreground
    <2>6. ASSUME NEW j \in jobs  PROVE JobFrozen(j)'
      BY <2>2, <2>3 DEF FrozenInv, JobFrozen, Used
    <2>7. CmdFrozen(c)'
      BY <1>22, <2>1 DEF CmdFrozen, Keeps, Restoring, Building, Sweeping, Packing
    <2>. QED  BY <1>0, <2>1, <2>4, <2>5, <2>6, <2>7 DEF FrozenInv
  <1>23. CASE DumpFail(c)
    <2>1. /\ pc[c] = "dump" /\ pc'[c] = "undump" /\ Goto(c, "undump") /\ UNCHANGED <<dir, file, jobs>>
          /\ loc'[c].buf = loc[c].buf /\ Fades
          /\ \E r : Bind(c, r)
      BY <1>0, <1>23, LocWrites, FadesOf DEF DumpFail, Goto
    <2>2. Intact(file.pid)' /\ (loc[c].buf # None => Intact(loc[c].buf.pid)')
      BY <1>0, <1>b, <1>c, <2>1, StillIntact DEF CmdFrozen, Intact, Keeps
    <2>3. CmdFrozen(c)' /\ pc[c] \notin Calm
      BY <2>1, <2>2 DEF CmdFrozen, Calm
    <2>. QED  BY <2>1, <2>3, FrozenOwn
  <1>24. CASE Undump(c) \/ Commit(c)
    <2>1. /\ dir' /\ UNCHANGED <<owner, jobs>> /\ pc[c] \notin Calm /\ Return(c)
          /\ file'.pid = None \/ (file'.pid = loc[c].buf.pid /\ loc[c].buf # None /\ Keeps(c))
      BY <1>0, <1>24, FileWrites DEF Undump, Commit, Calm, Keeps, Packing
    <2>2. Intact(file.pid)'
      BY <1>0, <2>1 DEF CmdFrozen, Intact
    <2>. QED  BY <1>1, <2>1, <2>2, FadesOf
  <1>25. CASE SupWait(c)
    <2>1. /\ pc[c] = "supwait" /\ pc'[c] = "pack" /\ Goto(c, "pack")
          /\ UNCHANGED <<loc, dir, file, jobs, owner>> /\ ~loc[c].leave
      BY <1>0, <1>25 DEF SupWait, Goto, CmdFrozen
    <2>2. CmdFrozen(c)' /\ pc[c] \notin Calm
      BY <2>1 DEF CmdFrozen, Keeps, Restoring, Building, Sweeping, Calm
    <2>. QED  BY <2>1, <2>2, FadesOf, FrozenOwn
  <1>26. CASE PackOpen(c) \/ PackDone(c)
    <2>1. /\ pc[c] \in Packing /\ pc'[c] \in {"fill", "commit"}
          /\ UNCHANGED <<loc, dir, file, jobs, owner>>
          /\ \E l : Goto(c, l)
      BY <1>0, <1>26 DEF PackOpen, PackDone, Goto, Packing
    <2>2. CmdFrozen(c)' /\ pc[c] \notin Calm
      BY <1>0, <2>1 DEF CmdFrozen, Keeps, Restoring, Building, Sweeping, Packing, Intact, Calm
    <2>. QED  BY <2>1, <2>2, FadesOf, FrozenOwn
  <1>. QED
    BY <1>3, <1>4, <1>5, <1>6, <1>8, <1>9, <1>10, <1>11, <1>13, <1>14, <1>15, <1>16, <1>17,
       <1>18, <1>19, <1>20, <1>21, <1>22, <1>23, <1>24, <1>25, <1>26 DEF CmdStep

\* A step of a supervisor dumps nothing, and what it writes is intact.
LEMMA FrozenSup ==
    ASSUME Careful, TypeOK, TypeOK', CopyInv, FrozenInv, NEW s \in Sups, Active(s),
           \E l : Goto(s, l), UNCHANGED loc \/ \E r : Bind(s, r),
           Fades, UNCHANGED jobs, SupFrozen(s)', Starting(s)' => Starting(s),
           \/ UNCHANGED <<dir, file>>
           \/ dir' /\ Intact(file.pid)' /\ (Starting(s) \/ Live' = {})
    PROVE  FrozenInv'
  <1>0. /\ \A c \in Cmds : pc'[c] = pc[c] /\ loc'[c] = loc[c] /\ loc[c] \in Locals
        /\ \A t \in Sups \ {s} : pc'[t] = pc[t] /\ loc'[t] = loc[t]
        /\ file.pid \in Pids \cup {None} /\ jobs \subseteq Jobs
    BY DistinctActors DEF TypeOK, Goto, Bind, Actors, State
  <1>1. \A t \in Sups \ {s} : ~Active(t)
    BY DEF CopyInv, HostInv
  <1>2. Intact(file.pid) => Intact(file.pid)'
    BY <1>0, StillIntact DEF Intact
  <1>3. ASSUME NEW t \in Sups \ {s}  PROVE SupFrozen(t)' /\ ~Starting(t)'
    BY <1>0, <1>1 DEF FrozenInv, SupFrozen, Active, Starting, Foreground
  <1>4. ASSUME NEW c \in Cmds  PROVE CmdFrozen(c)'
    <2>1. loc[c].pid \in Pids \cup {None} /\ CmdFrozen(c)
      BY <1>0 DEF Locals, FrozenInv
    <2>2. (Intact(loc[c].pid) => Intact(loc[c].pid)') /\ (Used(loc[c].pid) => Used(loc[c].pid)')
      BY <1>0, <2>1, StillIntact DEF Intact, Used
    <2>3. loc[c].buf # None => (Intact(loc[c].buf.pid) => Intact(loc[c].buf.pid)')
      <3>1. loc[c].buf # None => loc[c].buf.pid \in Pids \cup {None}
        BY <1>0 DEF Locals, State
      <3>. QED  BY <1>0, <3>1, StillIntact DEF Intact
    <2>4. Keeps(c)' => Keeps(c)
      BY <1>0 DEF Keeps, Restoring
    <2>. QED  BY <1>0, <1>2, <2>1, <2>2, <2>3, <2>4 DEF CmdFrozen
  <1>5. ASSUME NEW j \in jobs  PROVE JobFrozen(j)'
    <2>1. j.pid \in Pids \cup {None} /\ JobFrozen(j)
      BY <1>0 DEF Jobs, FrozenInv
    <2>2. Used(j.pid)' /\ (j.pid \in Live' => j.pid \in Live)
      BY <2>1, StillIntact DEF JobFrozen, Used
    <2>3. ASSUME j.pid \in Live'  PROVE UNCHANGED <<dir, file>> /\ ~Starting(s)'
      BY <2>1, <2>2, <2>3 DEF JobFrozen
    <2>4. ASSUME NEW c \in Cmds  PROVE Restoring(c)' => Restoring(c)
      BY <1>0 DEF Restoring
    <2>. QED  BY <1>0, <1>3, <2>1, <2>2, <2>3, <2>4 DEF JobFrozen
  <1>6. (~Intact(file.pid) => file.status = "checkpointing")' /\ (~dir => file.pid = None)'
    BY <1>2 DEF FrozenInv
  <1>. QED  BY <1>3, <1>4, <1>5, <1>6 DEF FrozenInv

\* A supervisor keeps FrozenInv.
LEMMA SupStepFrozen ==
    ASSUME Careful, TypeOK, TypeOK', CopyInv, FrozenInv, NEW s \in Sups, SupStep(s) \/ SupKilled(s)
    PROVE  FrozenInv'
  <1>. USE DEF disk, host, env
  <1>0. /\ s \in Actors /\ SupInv(s) /\ pc \in [Actors -> CmdPc \cup SupPc] /\ SupFrozen(s)
        /\ loc \in [Actors -> Locals] /\ loc[s] \in Locals /\ file.pid \in Pids \cup {None}
    BY DEF TypeOK, Actors, CopyInv, FrozenInv, State
  <1>a. Fades /\ UNCHANGED file /\ Intact(file.pid) => Intact(file.pid)'
    BY <1>0, StillIntact DEF Intact
  <1>1. Active(s)
    BY DEF SupStep, SupKilled, SupCgroup, SupCgroupFail, SupFork, SupForkFail, Load, SupFail,
           SupPublish, SupLost, SupReap, SupNetDown, SupCgDown, SupCheck, SupStop, UpdatePc, Active
  <1>b. NoLocals.buf = None
    BY DEF NoLocals
  <1>2. ASSUME Goto(s, "gone"), NEW r, Bind(s, r), r.buf = None, UNCHANGED <<jobs, owner>>,
               UNCHANGED <<dir, file>> \/ (dir' /\ Intact(file.pid)' /\ Live' = {})
        PROVE  FrozenInv'
    <2>1. pc'[s] = "gone" /\ loc'[s].buf = None
      BY <1>0, <1>2 DEF Goto, Bind
    <2>2. SupFrozen(s)' /\ ~Starting(s)'
      BY <2>1 DEF SupFrozen, SupPc, Active, Starting
    <2>. QED  BY <1>1, <1>2, <2>2, FadesOf, FrozenSup
  <1>3. ASSUME NEW l \in {"fork", "netdown", "cgdown", "check", "stop"}, Goto(s, l),
               UNCHANGED <<loc, dir, file, jobs, owner>>,
               pc[s] \notin {"publish", "stop", "fail"},
               l = "stop" => Intact(file.pid), l = "fork" => Starting(s)
        PROVE  FrozenInv'
    <2>1. pc'[s] = l /\ loc[s].buf = None
      BY <1>0, <1>3 DEF Goto, SupFrozen
    <2>2. SupFrozen(s)' /\ (Starting(s)' => Starting(s))
      BY <1>0, <1>1, <1>3, <2>1 DEF SupFrozen, SupPc, Active, Starting, Foreground, Intact
    <2>. QED  BY <1>1, <1>3, <2>2, FadesOf, FrozenSup
  <1>4. CASE SupCgroup(s)
    BY <1>3, <1>4 DEF SupCgroup, Starting
  <1>5. CASE SupCgroupFail(s)
    BY <1>5 DEF SupCgroupFail, Careful
  <1>6. ASSUME NEW p \in Pids, SupFork(s, p)  PROVE FrozenInv'
    <2>1. /\ pc'[s] \in {"wait", "publish"} /\ pc[s] = "fork" /\ Fades
          /\ UNCHANGED <<dir, file, jobs>>
      BY <1>0, <1>6, FadesOf DEF SupFork, Goto
    <2>2. loc'[s].pid = p /\ loc'[s].op = loc[s].op /\ loc'[s].buf = None
      BY <1>0, <1>6, <2>1, LocWrites DEF Rest, SupFrozen
    <2>3. owner'[p] = "ctr"
      BY <1>6 DEF SupFork, TypeOK
    <2>4. Foreground(s)' => Intact(file.pid)'
      BY <1>0, <1>1, <1>a, <2>1, <2>2 DEF SupFrozen, Foreground
    <2>5. SupFrozen(s)' /\ Starting(s)
      BY <2>1, <2>2, <2>3, <2>4 DEF SupFrozen, SupPc, Intact, Starting
    <2>. QED  BY <1>1, <1>6, <2>1, <2>5, FrozenSup DEF SupFork
  <1>7. ASSUME NEW p \in Pids, SupForkFail(s, p)  PROVE FALSE
    <2>1. cgroup /\ (Net => veth = "absent") /\ owner[p] = "free"
      BY <1>0, <1>7 DEF SupForkFail, SupInv, Fresh
    <2>2. "spawn" \notin Faults
      BY DEF Careful
    <2>. QED  BY <1>7, <2>1, <2>2 DEF SupForkFail, HalfWired
  <1>8. CASE SupFail(s)
    BY <1>0, <1>8 DEF SupFail, SupInv
  <1>9. CASE SupPublish(s)
    <2>1. /\ pc[s] = "publish" /\ pc'[s] = "wait" /\ Goto(s, "wait") /\ UNCHANGED <<owner, jobs>>
          /\ \E r : Bind(s, r)
      BY <1>0, <1>9 DEF SupPublish, Goto
    <2>2. dir' /\ file'.pid = loc[s].pid /\ loc'[s].buf = None
      BY <1>0, <1>9, FileWrites, LocWrites
    <2>3. Intact(file.pid)' /\ Starting(s)
      BY <1>0, <2>1, <2>2 DEF SupFrozen, Intact, Starting
    <2>4. SupFrozen(s)'
      BY <2>1, <2>2, <2>3 DEF SupFrozen, SupPc
    <2>. QED  BY <1>1, <2>1, <2>2, <2>3, <2>4, FadesOf, FrozenSup
  <1>10. CASE SupLost(s)
    <2>1. pc[s] # "publish"
      BY <1>0, <1>10 DEF SupLost, SupInv, Starting
    <2>2. Goto(s, "gone") /\ Bind(s, [NoLocals EXCEPT !.pid = None])
      BY <1>10, <2>1 DEF SupLost
    <2>3. [NoLocals EXCEPT !.pid = None].buf = None
      BY DEF NoLocals
    <2>. QED  BY <1>2, <1>10, <2>2, <2>3 DEF SupLost
  <1>11. CASE SupReap(s) \/ SupNetDown(s) \/ SupCgDown(s)
    BY <1>3, <1>11 DEF SupReap, SupNetDown, SupCgDown
  <1>12. CASE SupCheck(s)
    <2>1. CASE dir /\ Frozen(file) /\ ~Foreground(s)
      BY <1>2, <1>b, <1>12, <2>1 DEF SupCheck
    <2>2. CASE ~(dir /\ Frozen(file) /\ ~Foreground(s))
      <3>1. Intact(file.pid)
        BY <1>0, <1>1, <2>2 DEF FrozenInv, Frozen, SupFrozen, Intact
      <3>. QED  BY <1>3, <1>12, <2>2, <3>1 DEF SupCheck
    <2>. QED  BY <2>1, <2>2
  <1>13. CASE SupStop(s)
    <2>1. /\ dir' /\ loc[s].buf # None /\ file'.pid = loc[s].buf.pid /\ UNCHANGED <<owner, jobs>>
          /\ pc[s] = "stop"
      BY <1>0, <1>13, FileWrites DEF SupStop
    <2>2. Intact(file.pid)' /\ Live' = {}
      BY <1>0, <2>1 DEF SupFrozen, SupInv, Intact, Live
    <2>. QED  BY <1>2, <1>b, <1>13, <2>1, <2>2 DEF SupStop
  <1>14. CASE SupKilled(s)
    BY <1>2, <1>b, <1>14 DEF SupKilled
  <1>15. CASE Load(s)
    <2>1. /\ pc' = pc /\ Goto(s, pc[s]) /\ loc'[s].buf = file /\ Rest(s) /\ loc'[s].pid = loc[s].pid
          /\ UNCHANGED <<dir, file, jobs, owner>> /\ pc[s] \in UpdatePc
      BY <1>0, <1>15, LocWrites DEF Load, Goto
    <2>2. SupFrozen(s)' /\ (Starting(s)' => Starting(s))
      BY <1>0, <2>1 DEF SupFrozen, Rest, Intact, UpdatePc, SupPc, Active, Foreground, Starting
    <2>. QED  BY <1>1, <1>15, <2>1, <2>2, FadesOf, FrozenSup DEF Load
  <1>. QED
    BY <1>4, <1>5, <1>6, <1>7, <1>8, <1>9, <1>10, <1>11, <1>12, <1>13, <1>14, <1>15 DEF SupStep

\* The beginning of a command keeps FrozenInv.
LEMMA InvokeFrozen ==
    ASSUME Careful, TypeOK, TypeOK', CopyInv, LeakInv, FrozenInv, NEW c \in Cmds, Invoke(c)
    PROVE  FrozenInv'
  <1>. USE DEF disk, host, env
  <1>0. /\ pc \in [Actors -> CmdPc \cup SupPc] /\ loc \in [Actors -> Locals] /\ c \in Actors
        /\ Cmds \subseteq Actors /\ Sups \subseteq Actors /\ c \notin Sups
        /\ \A d \in Cmds : d = c
    BY DistinctActors DEF TypeOK, Actors, Careful, OneOperator
  <1>1. ASSUME NEW op, Issues(c, op)
        PROVE  /\ pc[c] = "idle"
               /\ \A s \in Sups : ~Starting(s) /\ ~(Active(s) /\ Foreground(s))
               /\ \A s \in Sups : Active(s) => Live # {}
    BY <1>1, IssuesCopy
  <1>2. ASSUME UNCHANGED <<owner, jobs>>, \A s \in Sups : pc'[s] = pc[s] /\ loc'[s] = loc[s],
               CmdFrozen(c)', ~dir' => file'.pid = None,
               ~Intact(file.pid)' => file'.status = "checkpointing",
               \/ UNCHANGED <<dir, file>> /\ pc'[c] \in Calm /\ ~Restoring(c)'
               \/ UNCHANGED <<dir, file>> /\ \A j \in jobs : j.pid \notin Live
               \/ Live = {} /\ file'.pid = None
        PROVE  FrozenInv'
    <2>1. Live' = Live
      BY <1>2 DEF Live
    <2>2. ASSUME NEW s \in Sups  PROVE SupFrozen(s)'
      <3>1. Intact(file.pid) => Intact(file.pid)'
        BY <1>2 DEF Intact
      <3>. QED  BY <1>2, <3>1 DEF FrozenInv, SupFrozen, Active, Foreground, Intact
    <2>3. ASSUME NEW j \in jobs  PROVE JobFrozen(j)'
      BY <1>0, <1>2, <2>1 DEF FrozenInv, JobFrozen, Used, Starting, Foreground
    <2>. QED  BY <1>0, <1>2, <2>2, <2>3 DEF FrozenInv
  <1>3. CASE Create(c) \/ Rm(c)
    <2>0. file.status # "none"
      BY DEF TypeOK, State, Status, Transient
    <2>1. PICK op \in {"create", "rm"} :
              Issues(c, op) /\ ~(dir /\ file.status \in {"running"} \cup Transient)
      <3>1. CASE Create(c)
        BY <2>0, <3>1 DEF Create, Issues, Careful
      <3>2. CASE Rm(c)
        BY <3>2 DEF Rm, Issues, Careful
      <3>. QED  BY <1>3, <3>1, <3>2
    <2>2. Live = {}
      BY <2>1, IssuesCopy DEF OnRecord
    <2>3. UNCHANGED <<owner, jobs, pc, loc>> /\ file'.pid = None
      BY <1>3 DEF Create, Rm, NewState
    <2>4. CmdFrozen(c)' /\ Intact(file.pid)'
      BY <1>1, <2>1, <2>3
         DEF CmdFrozen, Keeps, Restoring, Building, Sweeping, Packing, Intact
    <2>. QED  BY <1>2, <2>2, <2>3, <2>4
  <1>4. ASSUME UNCHANGED <<dir, file, owner>>  PROVE (Intact(file.pid)' <=> Intact(file.pid))
    BY <1>4 DEF Intact
  <1>5. CASE Stop(c) \/ Ps(c)
    <2>1. /\ UNCHANGED <<dir, file, owner, jobs>> /\ pc'[c] \in {"sigterm", "sweep"}
          /\ \E l : Goto(c, l)
          /\ \E r : Bind(c, r)
      BY <1>0, <1>5 DEF Stop, Ps, Goto
    <2>2. loc'[c].op # "restore"
      BY <1>0, <1>5 DEF Stop, Ps, Bind, NoLocals
    <2>3. CmdFrozen(c)' /\ pc'[c] \in Calm /\ ~Restoring(c)'
      BY <2>1, <2>2 DEF CmdFrozen, Keeps, Restoring, Building, Sweeping, Packing, Calm
    <2>. QED  BY <1>2, <1>4, <2>1, <2>3, CmdOnly DEF FrozenInv
  <1>6. ASSUME NEW s \in Sups, Start(c, s) \/ StartForeground(c, s)  PROVE FrozenInv'
    <2>1. /\ Issues(c, "start") \/ Issues(c, "foreground")
          /\ dir /\ file.status = "created" /\ pc[s] = "unused"
          /\ UNCHANGED <<dir, file, owner, jobs>>
      BY <1>6 DEF Start, StartForeground, Issues, Careful
    <2>2. Live = {} /\ Live' = {}
      <3>1. OnRecord
        BY <2>1, IssuesCopy
      <3>. QED  BY <2>1, <3>1 DEF OnRecord, Live, Transient
    <2>3. Intact(file.pid)'
      BY <1>4, <2>1 DEF FrozenInv
    <2>4. /\ pc'[s] = "cgroup" /\ pc'[c] \in {"idle", "await"}
          /\ \A t \in Sups \ {s} : pc'[t] = pc[t] /\ loc'[t] = loc[t]
      BY <1>0, <1>6, DistinctActors DEF Start, StartForeground, Goto, Bind, Issues
    <2>5. loc'[s].buf = None
      <3>1. loc[s].buf = None
        BY <2>1 DEF FrozenInv, SupFrozen
      <3>. QED  BY <1>0, <1>6, <3>1 DEF Start, StartForeground, Bind, NoLocals
    <2>6. SupFrozen(s)'
      BY <2>3, <2>4, <2>5 DEF SupFrozen, SupPc
    <2>7. ASSUME NEW t \in Sups \ {s}  PROVE SupFrozen(t)'
      BY <2>1, <2>3, <2>4 DEF FrozenInv, SupFrozen, Active, Foreground, Intact
    <2>8. CmdFrozen(c)'
      BY <2>4 DEF CmdFrozen, Keeps, Restoring, Building, Sweeping, Packing
    <2>9. ASSUME NEW j \in jobs  PROVE JobFrozen(j)'
      BY <2>1, <2>2 DEF FrozenInv, JobFrozen, Used
    <2>. QED  BY <1>0, <2>1, <2>3, <2>6, <2>7, <2>8, <2>9 DEF FrozenInv
  <1>7. ASSUME NEW n \in Names \cup {None}, Restore(c, n)  PROVE FrozenInv'
    <2>1. /\ Issues(c, "restore") /\ dir /\ file.status = "checkpointed"
          /\ UNCHANGED <<dir, file, owner, jobs>> /\ pc'[c] = "sweep"
          /\ \E l : Goto(c, l)
          /\ \E q : Bind(c, q)
      BY <1>0, <1>7 DEF Restore, Issues, Careful, Goto
    <2>2. loc'[c].buf = None
      BY <1>0, <1>7 DEF Restore, Bind, NoLocals
    <2>3. Intact(file.pid)'
      BY <1>4, <2>1 DEF FrozenInv
    <2>4. CmdFrozen(c)'
      BY <2>1, <2>2, <2>3 DEF CmdFrozen
    <2>5. \A j \in jobs : j.pid \notin Live
      BY <2>1 DEF FrozenInv, JobFrozen
    <2>. QED  BY <1>2, <2>1, <2>3, <2>4, <2>5, CmdOnly
  <1>8. ASSUME NEW n \in Names, NEW leave \in BOOLEAN, Checkpoint(c, n, leave)
        PROVE  FrozenInv'
    <2>1. /\ dir /\ file.status = "running" /\ Alive(file.pid)
          /\ UNCHANGED <<dir, file, owner, jobs>> /\ pc'[c] = "mark"
          /\ \E l : Goto(c, l)
          /\ \E q : Bind(c, q)
      BY <1>0, <1>8 DEF Checkpoint, Goto
    <2>2. loc'[c].pid = file.pid /\ loc'[c].buf = None
      BY <1>0, <1>8 DEF Checkpoint, Bind, NoLocals
    <2>3. Intact(file.pid)' /\ Used(loc[c].pid)'
      BY <1>4, <2>1, <2>2 DEF FrozenInv, Used, Alive
    <2>4. CmdFrozen(c)'
      BY <2>1, <2>2, <2>3 DEF CmdFrozen
    <2>5. \A j \in jobs : j.pid \notin Live
      BY <2>1 DEF FrozenInv, JobFrozen
    <2>. QED  BY <1>2, <2>1, <2>3, <2>4, <2>5, CmdOnly
  <1>. QED  BY <1>3, <1>5, <1>6, <1>7, <1>8 DEF Invoke

\* So do the death of a command and the kernel: a dump that runs on without its
\* command takes a process that nobody else is about to write a label for.
LEMMA OthersFrozen ==
    ASSUME Careful, TypeOK, TypeOK', CopyInv, LeakInv, FrozenInv,
           (\E c \in Cmds : Crash(c)) \/ Kernel
    PROVE  FrozenInv'
  <1>. USE DEF disk, host, env
  <1>0. /\ pc \in [Actors -> CmdPc \cup SupPc] /\ loc \in [Actors -> Locals]
        /\ file.pid \in Pids \cup {None} /\ jobs \subseteq Jobs /\ Cmds \subseteq Actors
        /\ Sups \subseteq Actors
    BY DEF TypeOK, Actors, State
  <1>1. ASSUME NEW c \in Cmds, Crash(c)  PROVE FrozenInv'
    <2>0. /\ Return(c) /\ pc'[c] = "idle" /\ UNCHANGED <<dir, file, owner>> /\ Live' = Live
          /\ \A d \in Cmds : d = c
          /\ \A s \in Sups : pc'[s] = pc[s] /\ loc'[s] = loc[s]
      BY <1>0, <1>1, CmdOnly DEF Crash, Return, Goto, Live, Careful, OneOperator
    <2>1. CmdFrozen(c)' /\ pc'[c] \in Calm /\ ~Restoring(c)'
      BY <2>0 DEF CmdFrozen, Keeps, Restoring, Building, Sweeping, Packing, Calm
    <2>2. ASSUME NEW s \in Sups  PROVE SupFrozen(s)'
      BY <2>0 DEF FrozenInv, SupFrozen, Active, Foreground, Intact
    <2>3. ASSUME NEW j \in jobs  PROVE JobFrozen(j)'
      BY <2>0, <2>1 DEF FrozenInv, JobFrozen, Used, Starting, Foreground
    <2>4. ASSUME NEW j \in jobs' \ jobs  PROVE JobFrozen(j)'
      <3>1. pc[c] = "dump" /\ j.pid = loc[c].pid
        <4>1. pc[c] \notin {"engine"}
          BY <1>1 DEF Crash, Careful
        <4>. QED  BY <1>1, <2>4, <4>1 DEF Crash
      <3>2. Used(j.pid)'
        BY <2>0, <3>1 DEF FrozenInv, CmdFrozen, Used
      <3>3. ASSUME NEW s \in Sups  PROVE ~Starting(s) /\ ~Starting(s)'
        <4>1. ~Starting(s)
          BY <3>1 DEF CopyInv, SupInv
        <4>. QED  BY <2>0, <4>1 DEF Starting, Foreground
      <3>4. OnRecord /\ (Live # {} => file.status = "checkpointing")
        BY <3>1, <3>3 DEF CopyInv, CmdInv, Dumping
      <3>. QED  BY <2>0, <2>1, <3>2, <3>3, <3>4 DEF JobFrozen, OnRecord
    <2>5. (~Intact(file.pid) => file.status = "checkpointing")' /\ (~dir => file.pid = None)'
      BY <2>0 DEF FrozenInv, Intact
    <2>. QED  BY <2>0, <2>1, <2>2, <2>3, <2>4, <2>5 DEF FrozenInv
  <1>2. ASSUME UNCHANGED <<dir, file, pc, loc>>, Fades, jobs' \subseteq jobs  PROVE FrozenInv'
    <2>1. Intact(file.pid) => Intact(file.pid)'
      BY <1>0, <1>2, StillIntact DEF Intact
    <2>2. ASSUME NEW a \in Actors
          PROVE  /\ Intact(loc[a].pid) => Intact(loc[a].pid)'
                 /\ Used(loc[a].pid) => Used(loc[a].pid)'
                 /\ loc[a].buf # None => (Intact(loc[a].buf.pid) => Intact(loc[a].buf.pid)')
      <3>1. loc[a].pid \in Pids \cup {None}
        BY <1>0 DEF Locals
      <3>2. loc[a].buf # None => loc[a].buf.pid \in Pids \cup {None}
        BY <1>0 DEF Locals, State
      <3>. QED  BY <1>2, <3>1, <3>2, StillIntact DEF Intact, Used
    <2>3. ASSUME NEW s \in Sups  PROVE SupFrozen(s)'
      BY <1>0, <1>2, <2>1, <2>2 DEF FrozenInv, SupFrozen, Active, Foreground
    <2>4. ASSUME NEW c \in Cmds  PROVE CmdFrozen(c)'
      <3>1. CmdFrozen(c) /\ (Keeps(c)' => Keeps(c))
        BY <1>2 DEF FrozenInv, Keeps, Restoring
      <3>. QED  BY <1>0, <1>2, <2>1, <2>2, <3>1 DEF CmdFrozen
    <2>5. ASSUME NEW j \in jobs  PROVE JobFrozen(j)'
      <3>1. j.pid \in Pids \cup {None} /\ JobFrozen(j)
        BY <1>0 DEF Jobs, FrozenInv
      <3>2. Used(j.pid)' /\ (j.pid \in Live' => j.pid \in Live)
        BY <1>2, <3>1, StillIntact DEF JobFrozen, Used
      <3>. QED  BY <1>2, <3>1, <3>2 DEF JobFrozen, Restoring, Starting, Foreground
    <2>. QED  BY <1>2, <2>1, <2>3, <2>4, <2>5 DEF FrozenInv
  <1>3. CASE NetnsGone
    BY <1>2, <1>3, FadesOf DEF NetnsGone
  <1>4. ASSUME NEW p \in Pids, Exit(p)  PROVE FrozenInv'
    BY <1>2, <1>4, FadesOf DEF Exit
  <1>5. ASSUME NEW p \in Pids, Recycle(p)  PROVE FALSE
    BY <1>5 DEF Recycle, Careful
  <1>6. ASSUME NEW j \in jobs, OrphanDump(j)  PROVE FrozenInv'
    <2>1. UNCHANGED <<dir, file, pc, loc>> /\ jobs' \subseteq jobs
      BY <1>6 DEF OrphanDump
    <2>2. CASE UNCHANGED owner
      BY <1>2, <2>1, <2>2, FadesOf
    <2>3. CASE j.pid \in Live /\ End({j.pid}, "dumped")
      <3>1. /\ dir /\ file.pid = j.pid /\ file.status = "checkpointing"
            /\ \A c \in Cmds : pc[c] \in Calm /\ ~Restoring(c)
            /\ \A s \in Sups : ~Starting(s)
        BY <2>3 DEF FrozenInv, JobFrozen
      <3>2. \A p \in Pids : p # j.pid => owner'[p] = owner[p]
        BY <2>3 DEF End
      <3>3. /\ owner'[j.pid] = "dumped"
            /\ Live' = Live \ {j.pid}
        BY <2>3, LiveEnd DEF End, Live
      <3>4. ASSUME NEW c \in Cmds  PROVE CmdFrozen(c)'
        BY <2>1, <3>1 DEF CmdFrozen, Keeps, Restoring, Calm, Packing
      <3>5. ASSUME NEW s \in Sups  PROVE SupFrozen(s)'
        <4>1. SupInv(s) /\ SupFrozen(s)
          BY DEF CopyInv, FrozenInv
        <4>2. pc[s] \notin {"publish", "stop"}
          BY <2>3, <3>1, <4>1 DEF SupInv, Starting
        <4>3. ~(Active(s) /\ Foreground(s))
          BY <2>3, <3>1, <4>1 DEF SupInv, Starting, Active, SupFrozen, SupPc
        <4>. QED  BY <2>1, <4>1, <4>2, <4>3 DEF SupFrozen, Active, Foreground
      <3>6. ASSUME NEW k \in jobs  PROVE JobFrozen(k)'
        <4>1. JobFrozen(k)
          BY DEF FrozenInv
        <4>2. Used(k.pid)'
          BY <3>2, <3>3, <4>1 DEF JobFrozen, Used
        <4>3. k.pid \notin Live'
          BY <3>1, <3>3, <4>1 DEF JobFrozen
        <4>. QED  BY <4>2, <4>3 DEF JobFrozen
      <3>. QED  BY <2>1, <3>1, <3>4, <3>5, <3>6 DEF FrozenInv
    <2>. QED  BY <1>6, <2>2, <2>3 DEF OrphanDump
  <1>7. ASSUME NEW j \in jobs, OrphanRestore(j)  PROVE FALSE
    BY <1>7 DEF OrphanRestore, CopyInv, HostInv
  <1>. QED  BY <1>1, <1>3, <1>4, <1>5, <1>6, <1>7 DEF Kernel

\* A container whose processes a dump killed is never recorded as stopped: the
\* supervisor that reaps them finds the mark of the checkpoint and leaves the
\* record alone (state.rs:11-15), and so does every other command.
THEOREM FrozenNeverStopped ==
    ASSUME Careful
    PROVE  Spec => []FrozenNotStopped
  <1>1. Init => FrozenInv
    <2>. SUFFICES ASSUME Init  PROVE FrozenInv
      OBVIOUS
    <2>1. /\ file.pid = None /\ jobs = {}
          /\ \A c \in Cmds : pc[c] = "idle"
          /\ \A s \in Sups : pc[s] = "unused" /\ loc[s].buf = None
      BY DistinctActors DEF Init, NewState, NoLocals, Actors
    <2>. QED
      BY <2>1 DEF FrozenInv, CmdFrozen, SupFrozen, Keeps, Restoring, Building, Sweeping, Packing,
                  Intact, SupPc, Active
  <1>2. TypeOK /\ TypeOK' /\ CopyInv /\ LeakInv /\ FrozenInv /\ [Next]_vars => FrozenInv'
    <2>1. FrozenInv /\ UNCHANGED vars => FrozenInv'
      BY DEF vars, disk, host, env, FrozenInv, CmdFrozen, SupFrozen, JobFrozen, Keeps, Restoring,
             Intact, Used, Active, Starting, Foreground, Live
    <2>. QED  BY <2>1, CmdStepFrozen, SupStepFrozen, InvokeFrozen, OthersFrozen DEF Next
  <1>3. FrozenInv => FrozenNotStopped
    BY DEF FrozenInv, FrozenNotStopped, Intact
  <1>. QED  BY <1>1, <1>2, <1>3, LeakAlways, PTL DEF Spec

=============================================================================
