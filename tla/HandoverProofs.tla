--------------------------- MODULE HandoverProofs ---------------------------
(***************************************************************************)
(* What holds of Migration until the operator acts without looking at every  *)
(* node, or without waiting for an engine that outlived a killed restore: the *)
(* container runs in one place, is not lost, is recorded where it runs, and  *)
(* the whole implements the promise of Handover.                             *)
(***************************************************************************)
EXTENDS MigrationProofs

(* What a step does to the commands, the receivers and the processes *)

\* How a command moves.
LEMMA PcMoves ==
    ASSUME TypeOK, [Next]_vars, NEW m \in Mig
    PROVE  \/ pc'[m] = pc[m]
           \/ pc'[m] = "done"
           \/ /\ pc[m] = "unused"
              /\ \E n, to \in Nodes, existing \in BOOLEAN : Migrate(m, n, to, existing)
           \/ Freeze(m) /\ pc[m] = "freeze" /\ pc'[m] = "hash"
           \/ pc[m] \in {"hash", "connect", "ack"} /\ pc'[m] \in {"connect", "ack", "stream"}
           \/ StreamEnd(m) /\ ~Returns(m) /\ pc[m] = "stream" /\ pc'[m] = "result"
           \/ ReadResult(m) /\ ~Returns(m) /\ pc[m] = "result" /\ pc'[m] = "release"
  <1>0. pc \in [Mig -> TxPc]
    BY DEF TypeOK
  <1>1. ASSUME NEW o \in Mig, Leaves(o)  PROVE pc'[m] = pc[m] \/ pc'[m] = "done"
    BY <1>1, ReturnsEffect DEF Leaves
  <1>2. ASSUME NEW o \in Mig, NEW n \in Nodes, NEW to \in Nodes, NEW existing \in BOOLEAN,
               Migrate(o, n, to, existing)
        PROVE  pc'[m] = pc[m] \/ (o = m /\ pc[m] = "unused")
    BY <1>0, <1>2 DEF Migrate
  <1>3. ASSUME NEW o \in Mig, Freeze(o)
        PROVE  pc'[m] = pc[m] \/ (Freeze(m) /\ pc[m] = "freeze" /\ pc'[m] = "hash")
    BY <1>0, <1>3 DEF Freeze
  <1>4. ASSUME NEW o \in Mig, Hash(o) \/ Connect(o) \/ (ReadAck(o) /\ ~Returns(o))
        PROVE  \/ pc'[m] = pc[m]
               \/ pc[m] \in {"hash", "connect", "ack"} /\ pc'[m] \in {"connect", "ack", "stream"}
    BY <1>0, <1>4 DEF Hash, Connect, ReadAck
  <1>5. ASSUME NEW o \in Mig, StreamEnd(o), ~Returns(o)
        PROVE  \/ pc'[m] = pc[m]
               \/ StreamEnd(m) /\ ~Returns(m) /\ pc[m] = "stream" /\ pc'[m] = "result"
    <2>1. pc[o] = "stream" /\ pc' = [pc EXCEPT ![o] = "result"]
      BY <1>5 DEF StreamEnd
    <2>. QED  BY <1>0, <1>5, <2>1
  <1>6. ASSUME NEW o \in Mig, ReadResult(o), ~Returns(o)
        PROVE  \/ pc'[m] = pc[m]
               \/ ReadResult(m) /\ ~Returns(m) /\ pc[m] = "result" /\ pc'[m] = "release"
    <2>1. pc[o] = "result" /\ pc' = [pc EXCEPT ![o] = "release"]
      BY <1>6 DEF ReadResult
    <2>. QED  BY <1>0, <1>6, <2>1
  <1>7. ASSUME NEW o \in Mig, NEW n \in Nodes, Stray(o, n)
        PROVE  pc'[m] = pc[m] \/ pc'[m] = "done"
    BY <1>0, <1>7 DEF Stray
  <1>8. ASSUME NEW n \in Nodes,
               \/ Hangs(n) \/ Moves(n) \/ RxBuild(n) \/ (\E o \in Mig : Accept(n, o))
               \/ ReadHello(n) \/ ReadChunk(n) \/ ReadEof(n)
        PROVE  pc'[m] = pc[m]
    BY <1>8 DEF Hangs, Moves, RxBuild, Accept, ReadHello, ReadChunk, ReadEof
  <1>9. ASSUME NEW o \in Mig, Stream(o) \/ Cut(o)  PROVE pc'[m] = pc[m]
    BY <1>9 DEF Stream, Cut
  <1>10. Quiet => pc'[m] = pc[m]
    BY DEF Quiet
  <1>. QED  BY <1>1, <1>2, <1>3, <1>4, <1>5, <1>6, <1>7, <1>8, <1>9, <1>10, Kinds

\* A command keeps its locals while it runs, and its nodes for good.
LEMMA JobMoves ==
    ASSUME TypeOK, [Next]_vars, NEW m \in Mig, pc[m] # "unused"
    PROVE  /\ job'[m].from = job[m].from /\ job'[m].to = job[m].to
           /\ pc'[m] # "done" => /\ job'[m].path = job[m].path
                                 /\ pc[m] # "hash" => job'[m].crc = job[m].crc
  <1>. DEFINE Goal == /\ job'[m].from = job[m].from /\ job'[m].to = job[m].to
                      /\ pc'[m] # "done" => /\ job'[m].path = job[m].path
                                            /\ pc[m] # "hash" => job'[m].crc = job[m].crc
  <1>0. job \in [Mig -> Job] /\ job[m] \in Job
    BY DEF TypeOK
  <1>1. job'[m] = job[m] => Goal
    OBVIOUS
  <1>2. ASSUME NEW o \in Mig, Leaves(o)  PROVE Goal
    BY <1>2, ReturnsEffect DEF Leaves
  <1>3. ASSUME NEW o \in Mig, NEW n \in Nodes, NEW to \in Nodes, NEW existing \in BOOLEAN,
               Migrate(o, n, to, existing)
        PROVE  job'[m] = job[m]
    <2>1. o # m
      BY <1>3 DEF Migrate
    <2>. QED  BY <1>3, <2>1, MigrateEffect
  <1>4. ASSUME NEW o \in Mig, Hash(o)  PROVE Goal
    <2>. DEFINE c == IF job[o].path = "own" THEN own[job[o].from] ELSE inbox[job[o].from]
    <2>1. job' = [job EXCEPT ![o].crc = c] /\ pc[o] = "hash"
      BY <1>4 DEF Hash
    <2>. HIDE DEF c
    <2>2. job'[m] = job[m] \/ (o = m /\ job'[m] = [job[m] EXCEPT !.crc = c])
      BY <1>0, <2>1
    <2>. QED  BY <1>0, <2>1, <2>2 DEF Job
  <1>5. ASSUME NEW o \in Mig, ReadAck(o), ~Returns(o)  PROVE Goal
    <2>. DEFINE c == inbox[job[o].from]
    <2>1. job' = [job EXCEPT ![o].view = c]
      BY <1>5 DEF ReadAck
    <2>. HIDE DEF c
    <2>2. job'[m] = job[m] \/ job'[m] = [job[m] EXCEPT !.view = c]
      BY <1>0, <2>1
    <2>. QED  BY <1>0, <2>2 DEF Job
  <1>6. ASSUME NEW o \in Mig, Stream(o)  PROVE Goal
    <2>1. job' = [job EXCEPT ![o].sent = @ + 1]
      BY <1>6 DEF Stream
    <2>2. job'[m] = job[m] \/ job'[m] = [job[m] EXCEPT !.sent = job[m].sent + 1]
      BY <1>0, <2>1
    <2>. QED  BY <1>0, <2>2 DEF Job
  <1>7. ASSUME NEW o \in Mig, NEW n \in Nodes, Stray(o, n)  PROVE job'[m] = job[m]
    <2>1. o # m
      BY <1>7 DEF Stray
    <2>. QED  BY <1>0, <1>7, <2>1 DEF Stray
  <1>8. ASSUME NEW n \in Nodes,
               \/ Hangs(n) \/ Moves(n) \/ RxBuild(n) \/ (\E o \in Mig : Accept(n, o))
               \/ ReadHello(n) \/ ReadChunk(n) \/ ReadEof(n)
        PROVE  job'[m] = job[m]
    BY <1>8 DEF Hangs, Moves, RxBuild, Accept, ReadHello, ReadChunk, ReadEof
  <1>9. ASSUME NEW o \in Mig, \/ Freeze(o) \/ Connect(o) \/ Cut(o)
                              \/ (StreamEnd(o) \/ ReadResult(o)) /\ ~Returns(o)
        PROVE  job'[m] = job[m]
    BY <1>9 DEF Freeze, Connect, Cut, StreamEnd, ReadResult
  <1>10. Quiet => job'[m] = job[m]
    BY DEF Quiet
  <1>. HIDE DEF Goal
  <1>11. Goal
    BY <1>1, <1>2, <1>3, <1>4, <1>5, <1>6, <1>7, <1>8, <1>9, <1>10, Kinds
  <1>. QED  BY <1>11 DEF Goal

\* A receiver that has the whole file and may still bring the container up.
Busy(n) == rx[n].pc \in {"commit", "adopt", "restore", "build"}

\* How a receiver moves.
LEMMA RxMoves ==
    ASSUME TypeOK, WireInv, [Next]_vars, NEW n \in Nodes
    PROVE  \/ rx'[n] = rx[n]
           \/ rx'[n].pc \in {"listen", "hello"}
           \/ ReadHello(n) /\ ~HangsUp(n) /\ rx'[n].pc = "recv" /\ rx'[n].peer = rx[n].peer
           \/ ReadEof(n) /\ ~HangsUp(n) /\ rx'[n].pc = "commit" /\ rx'[n].peer = rx[n].peer
           \/ /\ rx[n].pc \in {"commit", "adopt", "restore", "build"} /\ rx'[n].peer = rx[n].peer
              /\ rx'[n].pc \in {"adopt", "restore", "build", "reply"}
  <1>0. rx \in [Nodes -> Rx] /\ rx[n] \in Rx /\ Listening.pc = "listen"
    BY DEF TypeOK, Listening
  <1>1. ASSUME NEW o \in Nodes, Hangs(o)  PROVE rx'[n] = rx[n] \/ rx'[n].pc = "listen"
    <2>1. rx[o].peer \in Mig
      BY <1>1 DEF Hangs, WireInv, Served
    <2>. QED  BY <1>0, <1>1, <2>1, HangsUpEffect DEF Hangs
  <1>2. ASSUME NEW o \in Nodes, Moves(o)
        PROVE  \/ rx'[n] = rx[n]
               \/ /\ rx[n].pc \in {"commit", "adopt", "restore", "build"} /\ rx'[n].peer = rx[n].peer
                  /\ rx'[n].pc \in {"adopt", "restore", "build", "reply"}
    <2>1. PICK p \in {"adopt", "restore", "build", "reply"} : rx' = [rx EXCEPT ![o].pc = p]
      BY <1>2 DEF Moves
    <2>2. rx[o].pc \in {"commit", "adopt", "restore", "build"}
      BY <1>2 DEF Moves
    <2>. QED  BY <1>0, <2>1, <2>2 DEF Rx
  <1>3. ASSUME NEW o \in Nodes, RxBuild(o)
        PROVE  \/ rx'[n] = rx[n]
               \/ rx[n].pc = "build" /\ rx'[n].peer = rx[n].peer /\ rx'[n].pc = "reply"
    BY <1>0, <1>3 DEF RxBuild, Rx
  <1>4. ASSUME NEW o \in Nodes, NEW m \in Mig, Accept(o, m)
        PROVE  rx'[n] = rx[n] \/ rx'[n].pc = "hello"
    <2>1. \A r \in Rx : [r EXCEPT !.pc = "hello", !.peer = m].pc = "hello"
      BY DEF Rx
    <2>2. rx'[n] = rx[n] \/ rx'[n] = [Listening EXCEPT !.pc = "hello", !.peer = m]
      BY <1>0, <1>4 DEF Accept
    <2>3. Listening \in Rx
      BY RxEdit
    <2>. QED  BY <2>1, <2>2, <2>3
  <1>5. ASSUME NEW o \in Nodes, ReadHello(o), ~HangsUp(o)
        PROVE  \/ rx'[n] = rx[n]
               \/ o = n /\ rx'[n].pc = "recv" /\ rx'[n].peer = rx[n].peer
    <2>. DEFINE c == Head(up[rx[o].peer]).data
    <2>1. rx' = [rx EXCEPT ![o].pc = "recv", ![o].crc = c]
      BY <1>5 DEF ReadHello
    <2>. HIDE DEF c
    <2>2. rx'[n] = rx[n] \/ (o = n /\ rx'[n] = [rx[n] EXCEPT !.pc = "recv", !.crc = c])
      BY <1>0, <2>1
    <2>. QED  BY <1>0, <2>2 DEF Rx
  <1>6. ASSUME NEW o \in Nodes, ReadEof(o), ~HangsUp(o)
        PROVE  \/ rx'[n] = rx[n]
               \/ o = n /\ rx'[n].pc = "commit" /\ rx'[n].peer = rx[n].peer
    <2>1. rx' = [rx EXCEPT ![o].pc = "commit"]
      BY <1>6 DEF ReadEof
    <2>. QED  BY <1>0, <2>1 DEF Rx
  <1>7. ASSUME NEW o \in Nodes, ReadChunk(o), ~HangsUp(o)  PROVE rx'[n] = rx[n]
    BY <1>7 DEF ReadChunk
  <1>8. ASSUME NEW m \in Mig,
               \/ Leaves(m) \/ Freeze(m) \/ Hash(m) \/ Connect(m) \/ Stream(m) \/ Cut(m)
               \/ ReadAck(m) \/ StreamEnd(m) \/ ReadResult(m) \/ (\E o \in Nodes : Stray(m, o))
        PROVE  rx'[n] = rx[n]
    BY <1>8 DEF Leaves, Freeze, Hash, Connect, Stream, Cut, ReadAck, StreamEnd, ReadResult, Stray
  <1>9. ASSUME NEW m \in Mig, NEW o \in Nodes, NEW to \in Nodes, NEW existing \in BOOLEAN,
               Migrate(m, o, to, existing)
        PROVE  rx'[n] = rx[n]
    BY <1>9 DEF Migrate
  <1>10. Quiet => rx'[n] = rx[n]
    BY DEF Quiet
  <1>. QED  BY <1>1, <1>2, <1>3, <1>4, <1>5, <1>6, <1>7, <1>8, <1>9, <1>10, Kinds

\* The steps that change which copies and engines there are, or end one.
Raises(n) ==
    \/ Restore(n) \/ RestoreBlind(n) \/ RxBuild(n) \/ RxBuildBlind(n)
    \/ OrphanEngine(n) /\ live' # live
Sweeps(n) == Sweep(n) \/ RestoreFail(n) \/ RestoreKilled(n) \/ RxRestore(n)
Fades(m) ==
    /\ Freezable(job[m].from)
    /\ live' = Freezes(job[m].from)
    /\ ended' = TRUE

LEMMA HostMoves ==
    ASSUME [Next]_vars
    PROVE  \/ UNCHANGED <<live, hidden, engines, ended>>
           \/ \E n \in Nodes : \/ Restore(n) \/ RestoreBlind(n) \/ Sweeps(n)
                               \/ RxBuild(n) \/ RxBuildBlind(n) \/ Adopt(n)
                               \/ KillReceiver(n) \/ OrphanEngine(n) \/ Exit(n)
           \/ \E m \in Mig : Freeze(m) \/ FreezeFail(m) \/ PackFail(m) \/ KillFreeze(m) \/ Release(m)
  <1>. USE DEF host, history, Sweeps
  <1>1. CASE UNCHANGED vars
    BY <1>1 DEF vars
  <1>2. ASSUME NEW m \in Mig, NEW n \in Nodes, NEW to \in Nodes, NEW existing \in BOOLEAN,
               Migrate(m, n, to, existing)
        PROVE  UNCHANGED <<live, hidden, engines, ended>>
    BY <1>2 DEF Migrate
  <1>3. ASSUME NEW m \in Mig,
               \/ Hash(m) \/ Connect(m) \/ ConnectFail(m) \/ ReadAck(m) \/ Stream(m) \/ StreamEnd(m)
               \/ StreamFail(m) \/ ReadResult(m) \/ GiveUp(m)
               \/ Cut(m) \/ KillSender(m) \/ (\E n \in Nodes : Stray(m, n))
        PROVE  UNCHANGED <<live, hidden, engines, ended>>
    BY <1>3 DEF Hash, Connect, ConnectFail, ReadAck, Stream, StreamEnd, StreamFail, ReadResult,
                GiveUp, Cut, KillSender, Stray
  <1>4. ASSUME NEW n \in Nodes,
               \/ (\E m \in Mig : Accept(n, m)) \/ ReadHello(n) \/ ReadChunk(n) \/ ReadEof(n)
               \/ RxGiveUp(n) \/ RxCommit(n) \/ RxBuildFail(n) \/ Reply(n)
        PROVE  UNCHANGED <<live, hidden, engines, ended>>
    BY <1>4 DEF Accept, ReadHello, ReadChunk, ReadEof, RxGiveUp, RxCommit, RxBuildFail, Reply
  <1>. QED
    BY <1>1, <1>2, <1>3, <1>4 DEF Next, Operate, TxStep, RxStep, Environment

\* An operator who has once not looked or waited stays one who has not; and who
\* does sees that no command and no receiver is at work, for a restore that the
\* container runs nowhere, and that no engine runs.
LEMMA Looks ==
    ASSUME TypeOK, [Next]_vars, ~rash'
    PROVE  /\ ~rash
           /\ \A m \in Mig, n, to \in Nodes, existing \in BOOLEAN :
                 Migrate(m, n, to, existing) => Idle /\ NoEngine /\ (existing => Nowhere)
           /\ \A n \in Nodes :
                 Restore(n) \/ RestoreFail(n) \/ RestoreBlind(n) \/ RestoreKilled(n)
                     => Idle /\ Nowhere /\ NoEngine
           /\ \A n \in Nodes : Sweep(n) => Idle
  <1>0. ASSUME NEW n \in Nodes,
               Restore(n) \/ RestoreFail(n) \/ RestoreBlind(n) \/ RestoreKilled(n)
        PROVE  ~rash /\ Idle /\ Nowhere /\ NoEngine
    <2>1. Restores(n)
      BY <1>0 DEF Restore, RestoreFail, RestoreBlind, RestoreKilled
    <2>. QED  BY <2>1 DEF Restores, Acts
  <1>1. /\ \A m \in Mig, n, to \in Nodes, existing \in BOOLEAN :
                 Migrate(m, n, to, existing) => ~rash /\ Idle /\ NoEngine /\ (existing => Nowhere)
        /\ \A n \in Nodes : Sweep(n) => ~rash /\ Idle
    BY DEF Migrate, Sweep, Acts
  <1>2. ASSUME NEW m \in Mig,
               TxStep(m) \/ Cut(m) \/ KillSender(m) \/ KillFreeze(m) \/ (\E n \in Nodes : Stray(m, n))
        PROVE  UNCHANGED rash
    BY <1>2 DEF TxStep, Freeze, FreezeFail, PackFail, Hash, Connect, ConnectFail, ReadAck, Stream,
                StreamEnd, StreamFail, ReadResult, GiveUp, Release, Cut, KillSender, KillFreeze,
                Stray, history
  <1>3. ASSUME NEW n \in Nodes, RxStep(n) \/ KillReceiver(n) \/ OrphanEngine(n) \/ Exit(n)
        PROVE  UNCHANGED rash
    BY <1>3 DEF RxStep, Accept, ReadHello, ReadChunk, ReadEof, RxGiveUp, RxCommit, Adopt, RxRestore,
                RxBuild, RxBuildFail, RxBuildBlind, Reply, KillReceiver, OrphanEngine, Exit, history
  <1>4. UNCHANGED vars => UNCHANGED rash
    BY DEF vars, history
  <1>5. ~rash
    BY <1>0, <1>1, <1>2, <1>3, <1>4 DEF Next, Operate, Environment
  <1>. QED  BY <1>0, <1>1, <1>5

-----------------------------------------------------------------------------
(* The copies that no record names, and the engines *)

\* Whatever the operator does: the copies that are not recorded are among those
\* that run, and an engine that runs on was left by a kill.
HostInv ==
    \A n \in Nodes :
        /\ hidden[n] <= live[n]
        /\ engines[n] > 0 => "rxkill" \in hits

\* Faults are not forgotten.
LEMMA HitsStay ==
    ASSUME TypeOK, [Next]_vars
    PROVE  /\ hits \subseteq hits'
           /\ \A n \in Nodes : KillReceiver(n) \/ RestoreKilled(n) => "rxkill" \in hits'
  <1>1. \A f : Fault(f) => hits \subseteq hits' /\ f \in hits'
    BY DEF Fault
  <1>2. ASSUME NEW m \in Mig,
               \/ TxStep(m) \/ Cut(m) \/ KillSender(m) \/ KillFreeze(m)
               \/ (\E n \in Nodes : Stray(m, n))
        PROVE  hits \subseteq hits'
    BY <1>1, <1>2
    DEF TxStep, Freeze, FreezeFail, PackFail, Hash, Connect, ConnectFail, ReadAck, Stream,
        StreamEnd, StreamFail, ReadResult, GiveUp, DeadRead, Release, Cut, KillSender, KillFreeze,
        Stray, history
  <1>3. ASSUME NEW n \in Nodes, RxStep(n) \/ KillReceiver(n) \/ OrphanEngine(n) \/ Exit(n)
        PROVE  hits \subseteq hits'
    BY <1>1, <1>3
    DEF RxStep, Accept, ReadHello, ReadChunk, ReadEof, RxGiveUp, DeadRead, RxCommit, Adopt,
        RxRestore, RxBuild, RxBuildFail, RxBuildBlind, Reply, KillReceiver, OrphanEngine, Exit,
        history
  <1>4. ASSUME Operate \/ UNCHANGED vars  PROVE hits \subseteq hits'
    BY <1>1, <1>4
    DEF Operate, Migrate, Sweep, Restore, RestoreFail, RestoreBlind, RestoreKilled, vars, history
  <1>5. \A n \in Nodes : KillReceiver(n) \/ RestoreKilled(n) => "rxkill" \in hits'
    BY <1>1 DEF KillReceiver, RestoreKilled
  <1>. QED  BY <1>2, <1>3, <1>4, <1>5 DEF Next, Environment

\* Every step keeps it.
LEMMA HostStep ==
    ASSUME TypeOK, HostInv, [Next]_vars
    PROVE  HostInv'
  <1>0. /\ live \in [Nodes -> Nat] /\ hidden \in [Nodes -> Nat] /\ engines \in [Nodes -> Nat]
        /\ \A n \in Nodes : hidden[n] <= live[n] /\ (engines[n] > 0 => "rxkill" \in hits)
    BY DEF TypeOK, HostInv
  <1>1. hits \subseteq hits' /\ \A n \in Nodes : KillReceiver(n) \/ RestoreKilled(n) => "rxkill" \in hits'
    BY HitsStay
  <1>2. \A n \in Nodes : hidden[n] <= Spared(n) /\ Spared(n) \in Nat
    BY <1>0 DEF Spared
  <1>3. ASSUME NEW n \in Nodes, engines'[n] > 0  PROVE "rxkill" \in hits'
    <2>1. CASE UNCHANGED engines
      BY <1>0, <1>1, <1>3, <2>1
    <2>2. ASSUME NEW k \in Nodes, OrphanEngine(k)  PROVE "rxkill" \in hits'
      BY <1>0, <1>1, <1>3, <2>2 DEF OrphanEngine
    <2>3. ASSUME NEW k \in Nodes,
                 \/ Restore(k) \/ RestoreBlind(k) \/ Sweep(k) \/ RestoreFail(k) \/ RxRestore(k)
                 \/ RxBuild(k) \/ RxBuildBlind(k) \/ Adopt(k) \/ Exit(k)
          PROVE  UNCHANGED engines
      BY <2>3 DEF Restore, RestoreBlind, Sweep, RestoreFail, RxRestore, RxBuild, RxBuildBlind, Adopt,
                  Exit
    <2>4. ASSUME NEW m \in Mig, Freeze(m) \/ FreezeFail(m) \/ PackFail(m) \/ KillFreeze(m) \/ Release(m)
          PROVE  UNCHANGED engines
      BY <2>4 DEF Freeze, FreezeFail, PackFail, KillFreeze, Release
    <2>. QED  BY <1>1, <2>1, <2>2, <2>3, <2>4, HostMoves DEF Sweeps
  <1>. DEFINE Fits == \A n \in Nodes : hidden'[n] <= live'[n]
  <1>4. UNCHANGED <<live, hidden>> => Fits
    BY <1>0
  <1>5. ASSUME NEW n \in Nodes, UNCHANGED hidden, live' = [live EXCEPT ![n] = Spared(n)]
        PROVE  Fits
    BY <1>0, <1>2, <1>5
  <1>6. ASSUME NEW n \in Nodes, Sweeps(n)  PROVE Fits
    BY <1>5, <1>6 DEF Sweeps, Sweep, RestoreFail, RestoreKilled, RxRestore
  <1>7. ASSUME NEW n \in Nodes, Restore(n) \/ RestoreBlind(n)  PROVE Fits
    BY <1>0, <1>2, <1>7 DEF Restore, RestoreBlind
  <1>8. ASSUME NEW n \in Nodes, RxBuild(n) \/ RxBuildBlind(n) \/ Adopt(n)  PROVE Fits
    BY <1>0, <1>8 DEF RxBuild, RxBuildBlind, Adopt
  <1>9. ASSUME NEW n \in Nodes, KillReceiver(n)  PROVE Fits
    BY <1>4, <1>9 DEF KillReceiver
  <1>10. ASSUME NEW n \in Nodes, OrphanEngine(n) \/ Exit(n)  PROVE Fits
    BY <1>0, <1>10 DEF OrphanEngine, Exit, Recorded
  <1>11. ASSUME NEW m \in Mig, Freezable(job[m].from), live' = Freezes(job[m].from), UNCHANGED hidden
         PROVE  Fits
    <2>1. job[m].from \in Nodes
      BY JobEdit DEF TypeOK
    <2>. QED  BY <1>0, <1>11, <2>1 DEF Freezable, Recorded, Freezes
  <1>12. ASSUME NEW m \in Mig, Freeze(m) \/ FreezeFail(m) \/ PackFail(m) \/ KillFreeze(m)
         PROVE  Fits
    <2>1. UNCHANGED hidden
      BY <1>12 DEF Freeze, FreezeFail, PackFail, KillFreeze
    <2>2. UNCHANGED live \/ (Freezable(job[m].from) /\ live' = Freezes(job[m].from))
      BY <1>12 DEF Freeze, FreezeFail, PackFail, KillFreeze, Wasted
    <2>. QED  BY <1>4, <1>11, <2>1, <2>2
  <1>13. ASSUME NEW m \in Mig, Release(m)  PROVE Fits
    <2>1. job[m].from \in Nodes
      BY JobEdit DEF TypeOK
    <2>. QED  BY <1>0, <1>13, <2>1 DEF Release
  <1>. HIDE DEF Fits
  <1>14. Fits
    BY <1>4, <1>6, <1>7, <1>8, <1>9, <1>10, <1>12, <1>13, HostMoves
  <1>. QED  BY <1>3, <1>14 DEF HostInv, Fits

\* It holds for any operator.
LEMMA HostAlways == Spec => []HostInv
  <1>1. Init => HostInv
    BY DEF Init, HostInv
  <1>2. TypeOK /\ HostInv /\ [Next]_vars => HostInv'
    BY HostStep
  <1>. QED  BY <1>1, <1>2, MigrationTypeCorrect, PTL DEF Spec

-----------------------------------------------------------------------------
(* One place *)

\* Nothing follows the frame that ends a file.
OneEof(q) == \A i \in 1 .. Len(q) : q[i].t = "eof" => i = Len(q)

\* What reading, cutting and appending leave of it.
LEMMA OneEofOf ==
    /\ OneEof(<<>>)
    /\ \A f \in Frame : OneEof(<<f>>)
    /\ \A q \in Seq(Frame), f \in Frame : ~Carries(q, "eof") => OneEof(Append(q, f))
    /\ \A q \in Seq(Frame) : OneEof(q) /\ q # <<>> =>
          /\ OneEof(Tail(q))
          /\ Head(q).t = "eof" => Tail(q) = <<>>
    /\ \A q \in Seq(Frame) : \A i \in 0 .. Len(q) : OneEof(q) => OneEof(SubSeq(q, 1, i))
  <1>1. OneEof(<<>>) /\ \A f \in Frame : OneEof(<<f>>)
    BY DEF OneEof
  <1>2. ASSUME NEW q \in Seq(Frame), NEW f \in Frame, ~Carries(q, "eof")
        PROVE  OneEof(Append(q, f))
    <2>1. /\ Len(Append(q, f)) = Len(q) + 1 /\ Len(q) \in Nat
          /\ \A i \in 1 .. Len(q) : Append(q, f)[i] = q[i]
      BY AppendProperties, LenProperties
    <2>2. \A i \in 1 .. Len(q) : q[i].t # "eof"
      BY <1>2 DEF Carries, Frames
    <2>. QED  BY <2>1, <2>2 DEF OneEof
  <1>3. ASSUME NEW q \in Seq(Frame), OneEof(q), q # <<>>
        PROVE  OneEof(Tail(q)) /\ (Head(q).t = "eof" => Tail(q) = <<>>)
    <2>1. /\ Len(q) \in Nat \ {0} /\ Head(q) = q[1]
          /\ Tail(q) \in Seq(Frame) /\ Len(Tail(q)) = Len(q) - 1
          /\ \A i \in 1 .. Len(Tail(q)) : Tail(q)[i] = q[i + 1]
      BY <1>3, HeadTailProperties, EmptySeq
    <2>2. OneEof(Tail(q))
      <3>. SUFFICES ASSUME NEW i \in 1 .. Len(Tail(q)), Tail(q)[i].t = "eof"
                    PROVE  i = Len(Tail(q))
        BY DEF OneEof
      <3>1. i + 1 \in 1 .. Len(q) /\ q[i + 1].t = "eof"
        BY <2>1
      <3>2. i + 1 = Len(q)
        BY <1>3, <3>1 DEF OneEof
      <3>3. Len(Tail(q)) = Len(q) - 1 /\ Len(q) \in Nat /\ i \in Int
        BY <2>1
      <3>. QED  BY <3>2, <3>3
    <2>3. ASSUME Head(q).t = "eof"  PROVE Tail(q) = <<>>
      <3>1. 1 \in 1 .. Len(q) /\ q[1].t = "eof"
        BY <2>1, <2>3
      <3>2. 1 = Len(q)
        BY <1>3, <3>1 DEF OneEof
      <3>3. Len(Tail(q)) = Len(q) - 1 /\ Tail(q) \in Seq(Frame)
        BY <2>1
      <3>4. Len(Tail(q)) = 0
        BY <3>2, <3>3
      <3>. QED  BY <3>3, <3>4, EmptySeq
    <2>. QED  BY <2>2, <2>3
  <1>4. ASSUME NEW q \in Seq(Frame), NEW i \in 0 .. Len(q), OneEof(q)
        PROVE  OneEof(SubSeq(q, 1, i))
    <2>1. /\ Len(SubSeq(q, 1, i)) = i /\ Len(q) \in Nat
          /\ \A j \in 1 .. i : SubSeq(q, 1, i)[j] = q[j]
      BY LenProperties, ElementOfSeq
    <2>. QED  BY <1>4, <2>1 DEF OneEof
  <1>. QED  BY <1>1, <1>2, <1>3, <1>4

\* The whole file of this migration is on its way, or its receiver has it: from
\* here on the target may bring the container up.
Handed(m) == Carries(up[m], "eof") \/ \E n \in Nodes : Busy(n) /\ rx[n].peer = m

Alone(m) == \A o \in Mig : Active(o) => o = m

\* An engine that a kill has left on this node is still to bring the container up:
\* nothing else can, and a command that is still at work waits for this node's answer.
Awaited(n) ==
    /\ Nowhere
    /\ engines[n] = 1 /\ \A o \in Nodes : engines[o] > 0 => o = n
    /\ \A m \in Mig : /\ Active(m) => pc[m] \in {"result", "release"} /\ job[m].to = n
                      /\ ~Handed(m)

\* As long as the operator looks and waits, the container runs in one place, one
\* command is at work, and while a snapshot is shipped or handed over it runs
\* nowhere, even when the command that shipped it has given up.
Claims ==
    /\ NeverTwice
    /\ \A m \in Mig : Active(m) => Alone(m)
    /\ \A m \in Mig : pc[m] \in {"hash", "connect", "ack", "stream"} => Nowhere
    /\ \A m \in Mig : Handed(m) => Nowhere /\ Alone(m) /\ pc[m] \in {"result", "done"}
    /\ \A m, o \in Mig : Handed(m) /\ Handed(o) => m = o
    /\ \A m \in Mig : OneEof(up[m])
    /\ \A n \in Nodes : Busy(n) => ~Carries(up[rx[n].peer], "eof")
    /\ \A n \in Nodes : engines[n] > 0 => Awaited(n)

\* A handover in progress holds its receiver, so no operator who looks overlooks
\* it, and its connection.
LEMMA HandedServed ==
    ASSUME TypeOK, WireInv, NEW m \in Mig, Handed(m)
    PROVE  conn[m] = "serving" /\ ~Idle
  <1>1. conn[m] = "serving"
    BY DEF Handed, Busy, WireInv, Wired, Served
  <1>2. rx[job[m].to].pc # "listen" /\ job[m].to \in Nodes
    BY <1>1, JobEdit DEF WireInv, Wired, TypeOK
  <1>. QED  BY <1>1, <1>2 DEF Idle

\* A handover begins with the end of the file, nothing else.
LEMMA HandedStep ==
    ASSUME TypeOK, WireInv, [Next]_vars, NEW m \in Mig, Handed(m)'
    PROVE  Handed(m) \/ (StreamEnd(m) /\ ~Returns(m) /\ pc[m] = "stream" /\ pc'[m] = "result")
  <1>1. CASE Carries(up'[m], "eof")
    <2>1. PICK f \in Frames(up'[m]) : f.t = "eof"
      BY <1>1 DEF Carries
    <2>2. f \in Frames(up[m]) \/ (StreamEnd(m) /\ ~Returns(m))
      BY <2>1, UpFrames
    <2>3. StreamEnd(m) /\ ~Returns(m) => pc[m] = "stream" /\ pc'[m] = "result"
      BY DEF StreamEnd, TypeOK
    <2>. QED  BY <2>1, <2>2, <2>3 DEF Handed, Carries
  <1>2. ASSUME NEW n \in Nodes, Busy(n)', rx'[n].peer = m  PROVE Handed(m)
    <2>1. rx'[n].pc \in {"commit", "adopt", "restore", "build"}
      BY <1>2 DEF Busy
    <2>2. \/ rx[n].pc \in {"commit", "adopt", "restore", "build"} /\ rx[n].peer = m
          \/ ReadEof(n) /\ rx[n].peer = m
      BY <1>2, <2>1, RxMoves
    <2>3. CASE ReadEof(n) /\ rx[n].peer = m
      <3>1. Head(up[m]).t = "eof" /\ up[m] # <<>> /\ up[m] \in Seq(Frame)
        BY <2>3 DEF ReadEof, TypeOK
      <3>. QED  BY <3>1, CarriesOf DEF Handed
    <2>. QED  BY <2>2, <2>3 DEF Handed, Busy
  <1>. QED  BY <1>1, <1>2 DEF Handed

\* While a receiver is at work with the whole file, the container runs nowhere.
LEMMA BusyNowhere ==
    ASSUME WireInv, Claims, NEW n \in Nodes, Busy(n)
    PROVE  Nowhere
  <1>1. rx[n].peer \in Mig
    BY DEF Busy, WireInv, Served
  <1>. QED  BY <1>1 DEF Claims, Handed

\* A copy more where there was none; a copy less, which is remembered.
Brings(n) ==
    /\ Raises(n) /\ Nowhere
    /\ live' = [live EXCEPT ![n] = @ + 1]
    /\ UNCHANGED ended
Loses(n) ==
    /\ live[n] > 0
    /\ live' = [live EXCEPT ![n] = @ - 1]
    /\ ended' = TRUE

\* How the copies change: an engine brings one up only where there is none, and
\* apart from a checkpoint a copy that goes has ended.
LEMMA CopiesMoves ==
    ASSUME TypeOK, WireInv, HostInv, Claims, [Next]_vars, ~rash'
    PROVE  \/ UNCHANGED <<live, ended>>
           \/ \E n \in Nodes : Brings(n) \/ Loses(n)
           \/ \E m \in Mig : Freeze(m)
  <1>. DEFINE Same == UNCHANGED <<live, ended>>
  <1>0. /\ live \in [Nodes -> Nat] /\ hidden \in [Nodes -> Nat] /\ ended \in BOOLEAN
        /\ \A n \in Nodes : hidden[n] <= live[n] /\ live[n] <= 1
    BY DEF TypeOK, HostInv, Claims, NeverTwice
  <1>1. ASSUME NEW n \in Nodes, Nowhere  PROVE Spared(n) = live[n] /\ live[n] = 0
    BY <1>0, <1>1 DEF Nowhere, Spared
  <1>2. ASSUME NEW n \in Nodes, Restore(n) \/ RestoreBlind(n)  PROVE Brings(n)
    <2>1. Nowhere /\ Restores(n)
      BY <1>2, Looks DEF Restore, RestoreBlind
    <2>2. live' = [live EXCEPT ![n] = @ + 1]
      BY <1>1, <1>2, <2>1 DEF Restore, RestoreBlind
    <2>3. UNCHANGED ended
      BY <1>0, <1>1, <2>1 DEF Restores, Reaps
    <2>. QED  BY <1>2, <2>1, <2>2, <2>3 DEF Brings, Raises
  <1>3. ASSUME NEW n \in Nodes, Reaps(n), live' = [live EXCEPT ![n] = Spared(n)], Nowhere
        PROVE  Same
    BY <1>0, <1>1, <1>3 DEF Reaps
  <1>4. ASSUME NEW n \in Nodes, RestoreFail(n) \/ RestoreKilled(n)  PROVE Same
    <2>1. Nowhere /\ Restores(n)
      BY <1>4, Looks DEF RestoreFail, RestoreKilled
    <2>. QED  BY <1>3, <1>4, <2>1 DEF RestoreFail, RestoreKilled, Restores
  <1>5. ASSUME NEW n \in Nodes, RxRestore(n)  PROVE Same
    <2>1. Nowhere
      BY <1>5, BusyNowhere DEF RxRestore, Busy
    <2>. QED  BY <1>3, <1>5, <2>1 DEF RxRestore
  <1>6. ASSUME NEW n \in Nodes, Sweep(n)  PROVE Same \/ Loses(n)
    <2>1. Reaps(n) /\ live' = [live EXCEPT ![n] = Spared(n)]
      BY <1>6 DEF Sweep
    <2>2. Spared(n) \in {hidden[n], live[n]}
      BY DEF Spared
    <2>3. CASE Spared(n) = live[n]
      BY <1>0, <2>1, <2>3 DEF Reaps
    <2>4. CASE Spared(n) # live[n]
      <3>1. Spared(n) = 0 /\ live[n] = 1
        BY <1>0, <2>2, <2>4
      <3>2. ended' = TRUE
        BY <2>1, <2>4 DEF Reaps
      <3>. QED  BY <2>1, <3>1, <3>2 DEF Loses
    <2>. QED  BY <2>3, <2>4
  <1>7. ASSUME NEW n \in Nodes, RxBuild(n) \/ RxBuildBlind(n)  PROVE Brings(n)
    <2>1. Nowhere
      BY <1>7, BusyNowhere DEF RxBuild, RxBuildBlind, Busy
    <2>. QED  BY <1>7, <2>1 DEF RxBuild, RxBuildBlind, Brings, Raises
  <1>8. ASSUME NEW n \in Nodes, Adopt(n) \/ KillReceiver(n)  PROVE Same
    BY <1>8 DEF Adopt, KillReceiver, history
  <1>9. ASSUME NEW n \in Nodes, OrphanEngine(n)  PROVE Same \/ Brings(n)
    <2>1. Nowhere /\ UNCHANGED ended
      BY <1>9 DEF Claims, Awaited, OrphanEngine, history
    <2>2. CASE live' = live
      BY <2>1, <2>2
    <2>3. CASE live' # live
      BY <1>9, <2>1, <2>3 DEF OrphanEngine, Brings, Raises
    <2>. QED  BY <2>2, <2>3
  <1>10. ASSUME NEW n \in Nodes, Exit(n)  PROVE Loses(n)
    BY <1>10 DEF Exit, Loses
  <1>11. ASSUME NEW m \in Mig, FreezeFail(m) \/ PackFail(m) \/ KillFreeze(m)
         PROVE  Same \/ \E n \in Nodes : Loses(n)
    <2>1. job[m].from \in Nodes
      BY JobEdit DEF TypeOK
    <2>2. Same \/ (/\ Freezable(job[m].from) /\ live' = Freezes(job[m].from)
                   /\ ended' = TRUE)
      BY <1>11 DEF FreezeFail, PackFail, KillFreeze, Wasted
    <2>3. Freezable(job[m].from) => live[job[m].from] > 0
      BY <1>0, <2>1 DEF Freezable, Recorded
    <2>. QED  BY <2>1, <2>2, <2>3 DEF Loses, Freezes
  <1>12. ASSUME NEW m \in Mig, Release(m)  PROVE Same
    BY <1>12 DEF Release, history
  <1>. HIDE DEF Same
  <1>13. Same \/ (\E n \in Nodes : Brings(n) \/ Loses(n)) \/ \E m \in Mig : Freeze(m)
    <2>1. UNCHANGED <<live, hidden, engines, ended>> => Same
      BY DEF Same
    <2>. QED  BY <1>2, <1>4, <1>5, <1>6, <1>7, <1>8, <1>9, <1>10, <1>11, <1>12, <2>1, HostMoves
              DEF Sweeps
  <1>. QED  BY <1>13 DEF Same

\* The number of copies only grows where the container ran nowhere, and is zero
\* after a checkpoint or an end.
LEMMA CopiesStep ==
    ASSUME TypeOK, WireInv, HostInv, Claims, [Next]_vars, ~rash'
    PROVE  /\ NeverTwice'
           /\ (Nowhere => Nowhere') \/ \E n \in Nodes : Brings(n)
           /\ \A m \in Mig : Freeze(m) => Nowhere'
           /\ \A n \in Nodes : Loses(n) => Nowhere'
  <1>0. live \in [Nodes -> Nat] /\ NeverTwice
    BY DEF TypeOK, Claims
  <1>1. ASSUME NEW n \in Nodes, Brings(n)  PROVE NeverTwice'
    BY <1>0, <1>1 DEF Brings, Nowhere, NeverTwice
  <1>2. ASSUME NEW n \in Nodes, live[n] > 0, live' = [live EXCEPT ![n] = @ - 1]
        PROVE  NeverTwice' /\ Nowhere'
    <2>1. live[n] = 1 /\ \A o \in Nodes \ {n} : live[o] = 0
      BY <1>0, <1>2 DEF NeverTwice
    <2>. QED  BY <1>0, <1>2, <2>1 DEF NeverTwice, Nowhere
  <1>3. UNCHANGED live => NeverTwice' /\ (Nowhere => Nowhere')
    BY <1>0 DEF NeverTwice, Nowhere
  <1>4. ASSUME NEW n \in Nodes, Loses(n)  PROVE NeverTwice' /\ Nowhere'
    BY <1>2, <1>4 DEF Loses
  <1>5. ASSUME NEW m \in Mig, Freeze(m)  PROVE NeverTwice' /\ Nowhere'
    <2>1. job[m].from \in Nodes /\ hidden[job[m].from] \in Nat
      BY JobEdit DEF TypeOK
    <2>2. live[job[m].from] > 0 /\ live' = [live EXCEPT ![job[m].from] = @ - 1]
      BY <1>0, <1>5, <2>1 DEF Freeze, Freezes, Freezable, Recorded
    <2>. QED  BY <1>2, <2>1, <2>2
  <1>. QED  BY <1>1, <1>3, <1>4, <1>5, CopiesMoves

\* The steps that leave an engine behind, and those in which one is done.
LEMMA EngineMoves ==
    ASSUME [Next]_vars
    PROVE  \/ UNCHANGED engines
           \/ \E n \in Nodes : RestoreKilled(n) \/ OrphanEngine(n)
           \/ \E n \in Nodes : KillReceiver(n) /\ rx[n].pc = "build"
  <1>1. ASSUME NEW n \in Nodes,
               \/ Restore(n) \/ RestoreBlind(n) \/ Sweep(n) \/ RestoreFail(n) \/ RxRestore(n)
               \/ RxBuild(n) \/ RxBuildBlind(n) \/ Adopt(n) \/ Exit(n)
        PROVE  UNCHANGED engines
    BY <1>1 DEF Restore, RestoreBlind, Sweep, RestoreFail, RxRestore, RxBuild, RxBuildBlind, Adopt,
                Exit
  <1>2. ASSUME NEW m \in Mig, Freeze(m) \/ FreezeFail(m) \/ PackFail(m) \/ KillFreeze(m) \/ Release(m)
        PROVE  UNCHANGED engines
    BY <1>2 DEF Freeze, FreezeFail, PackFail, KillFreeze, Release
  <1>3. ASSUME NEW n \in Nodes, KillReceiver(n)  PROVE UNCHANGED engines \/ rx[n].pc = "build"
    BY <1>3 DEF KillReceiver
  <1>. QED  BY <1>1, <1>2, <1>3, HostMoves DEF Sweeps

\* Every step of an operator who looks, and of the rest, keeps the claims.
LEMMA ClaimStep ==
    ASSUME TypeOK, WireInv, LandInv, HostInv, Claims, [Next]_vars, ~rash'
    PROVE  Claims'
  <1>1. NeverTwice' /\ \A m \in Mig : Freeze(m) => Nowhere'
    BY CopiesStep
  \* The commands.
  <1>2. ASSUME NEW m \in Mig, Active(m)'
        PROVE  \/ Active(m)
               \/ /\ Idle /\ NoEngine
                  /\ \E n, to \in Nodes, existing \in BOOLEAN : Migrate(m, n, to, existing)
    <2>1. pc'[m] \notin {"unused", "done"}
      BY <1>2 DEF Active
    <2>. QED  BY <2>1, PcMoves, Looks DEF Active
  <1>3. \A m, o \in Mig : Active(m)' /\ Active(o)' => m = o
    <2>. SUFFICES ASSUME NEW m \in Mig, NEW o \in Mig, Active(m)', Active(o)', m # o
                  PROVE  FALSE
      OBVIOUS
    <2>1. ASSUME NEW x \in Mig, NEW y \in Mig, x # y, Active(y)', Idle,
                 NEW n \in Nodes, NEW to \in Nodes, NEW existing \in BOOLEAN,
                 Migrate(x, n, to, existing)
          PROVE  FALSE
      <3>1. pc'[y] = pc[y] /\ pc[y] \in {"unused", "done"}
        BY <2>1, MigrateEffect DEF Idle
      <3>. QED  BY <2>1, <3>1 DEF Active
    <2>2. Active(m) /\ Active(o)
      BY <1>2, <2>1
    <2>. QED  BY <2>2 DEF Claims, Alone
  \* Steps of the operator, and of an engine that was left.
  <1>4. ASSUME NEW n \in Nodes,
               Restore(n) \/ RestoreBlind(n) \/ RestoreKilled(n) \/ OrphanEngine(n)
        PROVE  Claims'
    <2>1. UNCHANGED <<pc, job, rx, up>> /\ engines \in [Nodes -> Nat]
      BY <1>4 DEF Restore, RestoreBlind, RestoreKilled, OrphanEngine, wire, TypeOK
    <2>2. CASE OrphanEngine(n)
      <3>1. Awaited(n)
        BY <2>2 DEF OrphanEngine, Claims
      <3>2. \A m \in Mig : ~Handed(m) /\ pc[m] \notin {"hash", "connect", "ack", "stream"}
        BY <3>1 DEF Awaited, Active
      <3>3. \A o \in Nodes : engines'[o] = 0
        <4>1. engines' = [engines EXCEPT ![n] = @ - 1]
          BY <2>2 DEF OrphanEngine
        <4>. QED  BY <2>1, <3>1, <4>1 DEF Awaited
      <3>4. \A m \in Mig : ~Handed(m)'
        BY <2>1, <3>2 DEF Handed, Busy
      <3>5. /\ \A m \in Mig : pc'[m] \notin {"hash", "connect", "ack", "stream"} /\ OneEof(up'[m])
            /\ \A o \in Nodes : Busy(o)' => ~Carries(up'[rx'[o].peer], "eof")
        BY <2>1, <3>2 DEF Claims, Busy
      <3>6. \A o \in Nodes : ~(engines'[o] > 0)
        BY <3>3
      <3>. QED  BY <1>1, <1>3, <3>4, <3>5, <3>6 DEF Claims, Alone
    <2>3. CASE Restore(n) \/ RestoreBlind(n) \/ RestoreKilled(n)
      <3>1. Idle /\ Nowhere /\ NoEngine
        BY <2>3, Looks
      <3>2. \A m \in Mig : ~Handed(m) /\ ~Active(m)
        BY <3>1, HandedServed DEF Active, Idle
      <3>3. \A m \in Mig : ~Handed(m)' /\ ~Active(m)'
        BY <2>1, <3>2 DEF Handed, Active, Busy
      <3>4. \A m \in Mig : pc'[m] \notin {"hash", "connect", "ack", "stream"}
        BY <3>3 DEF Active
      <3>5. \A m \in Mig : OneEof(up[m])'
        BY <2>1 DEF Claims
      <3>6. \A o \in Nodes : ~Busy(o)'
        BY <2>1, <3>1 DEF Idle, Busy
      <3>7. ASSUME NEW o \in Nodes, engines'[o] > 0  PROVE Awaited(o)'
        <4>1. UNCHANGED engines \/ (RestoreKilled(n) /\ engines' = [engines EXCEPT ![n] = @ + 1])
          BY <2>3 DEF Restore, RestoreBlind, RestoreKilled
        <4>2. \A k \in Nodes : engines[k] = 0
          BY <3>1 DEF NoEngine
        <4>3. RestoreKilled(n) /\ engines' = [engines EXCEPT ![n] = @ + 1]
          BY <3>7, <4>1, <4>2
        <4>4. /\ o = n /\ engines'[o] = 1
              /\ \A k \in Nodes : engines'[k] > 0 => k = o
          BY <2>1, <3>7, <4>2, <4>3
        <4>5. Nowhere'
          <5>1. live' = [live EXCEPT ![n] = Spared(n)]
            BY <4>3 DEF RestoreKilled
          <5>2. live \in [Nodes -> Nat] /\ hidden \in [Nodes -> Nat] /\ hidden[n] <= live[n]
            BY DEF TypeOK, HostInv
          <5>. QED  BY <3>1, <5>1, <5>2 DEF Nowhere, Spared
        <4>. QED  BY <3>3, <4>4, <4>5 DEF Awaited
      <3>. QED  BY <1>1, <3>3, <3>4, <3>5, <3>6, <3>7 DEF Claims
    <2>. QED  BY <1>4, <2>2, <2>3
  <1>5. ASSUME NEW n \in Nodes, RxBuild(n) \/ RxBuildBlind(n) \/ KillReceiver(n), rx[n].pc = "build"
        PROVE  Claims'
    <2>1. PICK m \in Mig : m = rx[n].peer /\ Handed(m) /\ ~Carries(up[m], "eof")
      BY <1>5 DEF WireInv, Served, Claims, Handed, Busy
    <2>2. UNCHANGED pc
      BY <1>5 DEF RxBuild, RxBuildBlind, KillReceiver
    <2>3. rx'[n].pc \notin {"commit", "adopt", "restore", "build"}
      BY <1>5 DEF TypeOK, Rx, RxBuild, RxBuildBlind, KillReceiver, HangsUp, Listening
    <2>4. \A o \in Nodes \ {n} : rx'[o] = rx[o]
      BY <1>5 DEF TypeOK, RxBuild, RxBuildBlind, KillReceiver, HangsUp
    <2>5. \A o \in Mig : up'[o] = up[o] \/ up'[o] = <<>>
      BY <1>5 DEF TypeOK, RxBuild, RxBuildBlind, KillReceiver, HangsUp, wire
    <2>6. \A o \in Nodes : ~Busy(o)'
      <3>1. \A o \in Nodes \ {n} : ~Busy(o)
        <4>. SUFFICES ASSUME NEW o \in Nodes \ {n}, Busy(o)  PROVE FALSE
          OBVIOUS
        <4>1. rx[o].peer \in Mig /\ job[rx[o].peer].to = o /\ job[m].to = n
          BY <1>5, <2>1 DEF WireInv, Served, Busy
        <4>2. Handed(rx[o].peer)
          BY DEF Handed
        <4>3. rx[o].peer = m
          BY <2>1, <4>1, <4>2 DEF Claims
        <4>. QED  BY <4>1, <4>3
      <3>. QED  BY <2>3, <2>4, <3>1 DEF Busy
    <2>7. \A o \in Mig : ~Carries(up'[o], "eof")
      <3>1. \A o \in Mig : ~Carries(up[o], "eof")
        BY <2>1 DEF Claims, Handed
      <3>. QED  BY <2>5, <3>1, CarriesOf
    <2>8. \A o \in Mig : ~Handed(o)'
      BY <2>6, <2>7 DEF Handed
    <2>9. \A o \in Mig : pc'[o] \notin {"hash", "connect", "ack", "stream"}
      BY <2>1, <2>2 DEF Claims, Alone, Active
    <2>10. \A o \in Mig : OneEof(up'[o])
      BY <2>5, OneEofOf DEF Claims
    <2>11. ASSUME NEW o \in Nodes, engines'[o] > 0  PROVE Awaited(o)'
      <3>0. engines \in [Nodes -> Nat] /\ \A k \in Nodes : engines[k] = 0
        <4>1. \A k \in Nodes : ~(engines[k] > 0)
          BY <2>1 DEF Claims, Awaited
        <4>. QED  BY <4>1 DEF TypeOK
      <3>1. UNCHANGED engines \/ (KillReceiver(n) /\ engines' = [engines EXCEPT ![n] = @ + 1])
        BY <1>5 DEF RxBuild, RxBuildBlind, KillReceiver
      <3>2. KillReceiver(n) /\ engines' = [engines EXCEPT ![n] = @ + 1]
        BY <2>11, <3>0, <3>1
      <3>3. /\ o = n /\ engines'[o] = 1
            /\ \A k \in Nodes : engines'[k] > 0 => k = o
        BY <2>11, <3>0, <3>2
      <3>4. Nowhere' /\ UNCHANGED job
        BY <2>1, <3>2 DEF KillReceiver, Claims, Nowhere
      <3>5. ASSUME NEW x \in Mig, Active(x)'  PROVE pc'[x] \in {"result", "release"} /\ job'[x].to = n
        <4>1. x = m /\ pc[m] \in {"result", "done"}
          BY <2>1, <2>2, <3>5 DEF Claims, Alone, Active
        <4>2. job[m].to = n
          BY <1>5, <2>1 DEF WireInv, Served
        <4>. QED  BY <2>2, <3>4, <3>5, <4>1, <4>2 DEF Active
      <3>. QED  BY <2>8, <3>3, <3>4, <3>5 DEF Awaited
    <2>. QED  BY <1>1, <1>3, <2>6, <2>8, <2>9, <2>10, <2>11 DEF Claims, Alone
  \* The others.
  <1>6. ASSUME Nowhere => Nowhere', UNCHANGED engines  PROVE Claims'
    <2>1. ASSUME NEW m \in Mig, pc'[m] \in {"hash", "connect", "ack", "stream"}  PROVE Nowhere'
      <3>1. CASE pc[m] \in {"hash", "connect", "ack", "stream"}
        BY <1>6, <3>1 DEF Claims
      <3>2. CASE Freeze(m)
        BY <1>1, <3>2
      <3>3. ASSUME NEW n \in Nodes, NEW to \in Nodes, NEW existing \in BOOLEAN,
                   Migrate(m, n, to, existing)
            PROVE  Nowhere'
        <4>1. existing
          BY <2>1, <3>3 DEF Migrate, TypeOK
        <4>. QED  BY <1>6, <3>3, <4>1, Looks
      <3>. QED  BY <2>1, <3>1, <3>2, <3>3, PcMoves
    <2>2. ASSUME NEW m \in Mig, Handed(m)'
          PROVE  Nowhere' /\ Alone(m)' /\ pc'[m] \in {"result", "done"}
      <3>1. CASE Handed(m)
        <4>1. Nowhere /\ Alone(m) /\ pc[m] \in {"result", "done"}
          BY <3>1 DEF Claims
        <4>2. conn[m] = "serving" /\ ~Idle
          BY <3>1, HandedServed
        <4>3. ~(ReadResult(m) /\ ~Returns(m))
          <5>. SUFFICES ASSUME ReadResult(m), ~Returns(m)  PROVE FALSE
            OBVIOUS
          <5>1. Head(down[m]).t = "result" /\ Head(down[m]).ok /\ down[m] # <<>>
            BY DEF ReadResult, Confirmed
          <5>2. Head(down[m]) \in Frames(down[m])
            BY <5>1, FramesOf DEF TypeOK
          <5>. QED  BY <4>2, <5>1, <5>2 DEF LandInv
        <4>4. pc'[m] \in {"result", "done"}
          BY <4>1, <4>3, PcMoves
        <4>5. Alone(m)'
          <5>1. \A o \in Mig : Active(o)' => Active(o)
            BY <1>2, <4>2
          <5>. QED  BY <4>1, <5>1 DEF Alone
        <4>. QED  BY <1>6, <4>1, <4>4, <4>5
      <3>2. CASE pc[m] = "stream" /\ pc'[m] = "result"
        <4>1. Active(m)'
          BY <3>2 DEF Active
        <4>. QED  BY <1>3, <1>6, <3>2, <4>1 DEF Claims, Alone
      <3>. QED  BY <2>2, <3>1, <3>2, HandedStep
    <2>3. ASSUME NEW m \in Mig, NEW o \in Mig, Handed(m)', Handed(o)'  PROVE m = o
      <3>1. ASSUME NEW x \in Mig, NEW y \in Mig, pc[x] = "stream", Handed(y)  PROVE FALSE
        <4>1. Alone(y) /\ pc[y] \in {"result", "done"}
          BY <3>1 DEF Claims
        <4>2. x = y
          BY <3>1, <4>1 DEF Alone, Active
        <4>. QED  BY <3>1, <4>1, <4>2
      <3>2. CASE Handed(m) /\ Handed(o)
        BY <3>2 DEF Claims
      <3>3. CASE pc[m] = "stream" /\ pc[o] = "stream"
        BY <3>3 DEF Claims, Alone, Active
      <3>. QED  BY <2>3, <3>1, <3>2, <3>3, HandedStep
    <2>4. ASSUME NEW m \in Mig  PROVE OneEof(up'[m])
      <3>1. OneEof(up[m]) /\ up[m] \in Seq(Frame)
        BY DEF Claims, TypeOK
      <3>2. pc[m] = "stream" => ~Carries(up[m], "eof")
        BY DEF Claims, Handed
      <3>3. StreamEnd(m) => pc[m] = "stream"
        BY DEF StreamEnd
      <3>. QED  BY <3>1, <3>2, <3>3, UpShape, OneEofOf
    <2>5. ASSUME NEW n \in Nodes, Busy(n)'  PROVE ~Carries(up'[rx'[n].peer], "eof")
      <3>1. rx'[n].pc \in {"commit", "adopt", "restore", "build"}
        BY <2>5 DEF Busy
      <3>2. CASE ReadEof(n) /\ ~HangsUp(n) /\ rx'[n].peer = rx[n].peer
        <4>1. PICK m \in Mig : m = rx[n].peer
          BY <3>2 DEF ReadEof, WireInv, Served
        <4>2. up[m] # <<>> /\ Head(up[m]).t = "eof" /\ up'[m] = Tail(up[m])
          BY <3>2, <4>1 DEF ReadEof, TypeOK
        <4>3. up'[m] = <<>>
          BY <4>2, OneEofOf DEF Claims, TypeOK
        <4>. QED  BY <3>2, <4>1, <4>3, CarriesOf
      <3>3. CASE Busy(n) /\ rx'[n].peer = rx[n].peer
        <4>1. PICK m \in Mig : m = rx[n].peer /\ Handed(m) /\ ~Carries(up[m], "eof")
          BY <3>3 DEF WireInv, Served, Claims, Handed, Busy
        <4>2. pc[m] # "stream"
          BY <4>1 DEF Claims
        <4>3. ~Carries(up'[m], "eof")
          <5>. SUFFICES ASSUME NEW f \in Frames(up'[m]), f.t = "eof"  PROVE FALSE
            BY DEF Carries
          <5>1. f \in Frames(up[m]) \/ StreamEnd(m)
            BY UpFrames
          <5>. QED  BY <4>1, <4>2, <5>1 DEF Carries, StreamEnd
        <4>. QED  BY <3>3, <4>1, <4>3
      <3>. QED  BY <3>1, <3>2, <3>3, RxMoves DEF Busy
    <2>6. ASSUME NEW n \in Nodes, engines'[n] > 0  PROVE Awaited(n)'
      <3>1. engines[n] > 0 /\ Awaited(n)
        BY <1>6, <2>6 DEF Claims
      <3>2. Nowhere' /\ engines'[n] = 1 /\ \A o \in Nodes : engines'[o] > 0 => o = n
        BY <1>6, <3>1 DEF Awaited
      <3>3. ASSUME NEW m \in Mig, Active(m)'
            PROVE  pc'[m] \in {"result", "release"} /\ job'[m].to = n
        <4>1. Active(m)
          BY <1>2, <3>1, <3>3 DEF NoEngine
        <4>2. pc[m] \in {"result", "release"} /\ job[m].to = n
          BY <3>1, <4>1 DEF Awaited
        <4>3. job'[m].to = n
          BY <4>2, JobMoves
        <4>4. pc'[m] \in {"result", "release"}
          BY <3>3, <4>2, PcMoves DEF Active
        <4>. QED  BY <4>3, <4>4
      <3>4. ASSUME NEW m \in Mig  PROVE ~Handed(m)'
        <4>1. ~Handed(m) /\ pc[m] # "stream"
          BY <3>1 DEF Awaited, Active
        <4>. QED  BY <4>1, HandedStep
      <3>. QED  BY <3>2, <3>3, <3>4 DEF Awaited
    <2>. QED  BY <1>1, <1>3, <2>1, <2>2, <2>3, <2>4, <2>5, <2>6 DEF Claims, Alone
  <1>7. ASSUME NEW n \in Nodes, Brings(n)  PROVE Claims'
    <2>1. RxBuild(n) \/ RxBuildBlind(n) => rx[n].pc = "build"
      BY DEF RxBuild, RxBuildBlind
    <2>. QED  BY <1>4, <1>5, <1>7, <2>1 DEF Brings, Raises
  <1>. QED  BY <1>4, <1>5, <1>6, <1>7, CopiesStep, EngineMoves

\* The claims hold for as long as the operator looks.
LEMMA ClaimAlways == Spec => [](~rash => Claims)
  <1>1. Init => Claims
    <2>. SUFFICES ASSUME Init  PROVE Claims
      OBVIOUS
    <2>1. OneEof(<<>>) /\ ~Carries(<<>>, "eof")
      BY OneEofOf, CarriesOf
    <2>2. NeverTwice
      BY DEF Init, NeverTwice
    <2>. QED  BY <2>1, <2>2 DEF Init, Claims, Handed, Busy, Alone, Active, Listening
  <1>2. ASSUME TypeOK, WireInv, LandInv, HostInv, ~rash => Claims, [Next]_vars
        PROVE  (~rash => Claims)'
    BY <1>2, ClaimStep, Looks
  <1>3. TypeOK /\ WireInv /\ LandInv /\ HostInv /\ (~rash => Claims) /\ [Next]_vars
           => (~rash => Claims)'
    BY <1>2
  <1>. QED  BY <1>1, <1>3, MigrationTypeCorrect, LandAlways, HostAlways, PTL DEF Spec

\* An operator who looks at every node before acting, and waits for an engine that
\* outlived a killed restore, never has the container running in two places
\* (migrate.rs:21): for any number of nodes and migrations, and any failures.
THEOREM OnePlaceAlways == Spec => []OnePlace
  <1>1. (~rash => Claims) => OnePlace
    BY DEF Claims, OnePlace
  <1>. QED  BY <1>1, ClaimAlways, PTL

-----------------------------------------------------------------------------
(* Not lost, and recorded where it runs *)

\* An end is not forgotten, and only a receiver lands a container.
LEMMA HistoryMoves ==
    ASSUME [Next]_vars
    PROVE  /\ ended => ended'
           /\ landed' = landed \/ \E n \in Nodes : RxBuild(n) /\ landed' = landed \cup {rx[n].peer}
  <1>1. ended => ended'
    <2>1. ASSUME NEW m \in Mig, Freeze(m) \/ Wastes(m)  PROVE ended => ended'
      BY <2>1 DEF Freeze, Wastes, Wasted
    <2>2. ASSUME NEW n \in Nodes, ReadHello(n) \/ ReadChunk(n) \/ ReadEof(n) \/ RxCommit(n)
          PROVE  ended => ended'
      BY <2>2 DEF ReadHello, ReadChunk, ReadEof, RxCommit, history
    <2>. QED  BY <2>1, <2>2, Writers
  <1>2. ASSUME NEW m \in Mig,
               \/ TxStep(m) \/ Cut(m) \/ KillSender(m) \/ KillFreeze(m)
               \/ (\E n \in Nodes : Stray(m, n))
        PROVE  landed' = landed
    BY <1>2
    DEF TxStep, Freeze, FreezeFail, PackFail, Hash, Connect, ConnectFail, ReadAck, Stream,
        StreamEnd, StreamFail, ReadResult, GiveUp, Release, Cut, KillSender, KillFreeze, Stray,
        history
  <1>3. ASSUME NEW n \in Nodes, RxStep(n) \/ KillReceiver(n) \/ OrphanEngine(n) \/ Exit(n)
        PROVE  landed' = landed \/ (RxBuild(n) /\ landed' = landed \cup {rx[n].peer})
    BY <1>3
    DEF RxStep, Accept, ReadHello, ReadChunk, ReadEof, RxGiveUp, RxCommit, Adopt, RxRestore,
        RxBuild, RxBuildFail, RxBuildBlind, Reply, KillReceiver, OrphanEngine, Exit, history
  <1>4. ASSUME Operate \/ UNCHANGED vars  PROVE landed' = landed
    BY <1>4
    DEF Operate, Migrate, Sweep, Restore, RestoreFail, RestoreBlind, RestoreKilled, vars, history
  <1>5. landed' = landed \/ \E n \in Nodes : RxBuild(n) /\ landed' = landed \cup {rx[n].peer}
    BY <1>2, <1>3, <1>4 DEF Next, Environment
  <1>. QED  BY <1>1, <1>5

\* The steps that change what a node records and keeps.
LEMMA Recorders ==
    ASSUME [Next]_vars
    PROVE  \/ UNCHANGED <<file, own, inbox, written>>
           \/ \E n \in Nodes : \/ Sweeps(n) \/ Restore(n) \/ RestoreBlind(n)
                               \/ RxCommit(n) \/ Adopt(n)
                               \/ RxBuild(n) \/ RxBuildFail(n) \/ RxBuildBlind(n)
           \/ \E m \in Mig : Freeze(m) \/ FreezeFail(m) \/ PackFail(m) \/ KillFreeze(m) \/ Release(m)
  <1>. USE DEF disk, history, Sweeps
  <1>1. CASE UNCHANGED vars
    BY <1>1 DEF vars
  <1>2. ASSUME NEW m \in Mig,
               \/ Hash(m) \/ Connect(m) \/ ConnectFail(m) \/ ReadAck(m) \/ Stream(m) \/ StreamEnd(m)
               \/ StreamFail(m) \/ ReadResult(m) \/ GiveUp(m)
               \/ Cut(m) \/ KillSender(m) \/ (\E n \in Nodes : Stray(m, n))
        PROVE  UNCHANGED <<file, own, inbox, written>>
    BY <1>2
    DEF Hash, Connect, ConnectFail, ReadAck, Stream, StreamEnd, StreamFail, ReadResult, GiveUp,
        Cut, KillSender, Stray
  <1>3. ASSUME NEW n \in Nodes,
               \/ (\E m \in Mig : Accept(n, m)) \/ ReadHello(n) \/ ReadChunk(n) \/ ReadEof(n)
               \/ RxGiveUp(n) \/ Reply(n) \/ KillReceiver(n) \/ OrphanEngine(n) \/ Exit(n)
        PROVE  UNCHANGED <<file, own, inbox, written>>
    BY <1>3
    DEF Accept, ReadHello, ReadChunk, ReadEof, RxGiveUp, Reply, KillReceiver, OrphanEngine, Exit
  <1>4. ASSUME NEW m \in Mig, NEW n \in Nodes, NEW to \in Nodes, NEW existing \in BOOLEAN,
               Migrate(m, n, to, existing)
        PROVE  UNCHANGED <<file, own, inbox, written>>
    BY <1>4 DEF Migrate
  <1>. QED  BY <1>1, <1>2, <1>3, <1>4 DEF Next, Operate, TxStep, RxStep, Environment

\* A copy that runs is recorded, or its checkpoint stopped at the mark; one that is
\* not recorded was left by an engine.
Named(n) ==
    /\ Recorded(n) => \/ file[n].status = "running"
                      \/ file[n].status = "checkpointing" /\ hits \cap {"stage", "txkill"} # {}
    /\ hidden[n] > 0 => hits \cap {"pidfile", "rxkill"} # {}

\* A migration that has landed has its container running as long as its command
\* is at work; the node it left has no copy any more; the copies are recorded; and
\* nothing is lost.
Placed ==
    /\ \A m \in Mig : ~ended /\ Active(m) /\ m \in landed => ~Nowhere
    /\ \A m \in Mig : pc[m] \in {"result", "release"} => live[job[m].from] = 0
    /\ \A n \in Nodes : Named(n)
    /\ NotLost

\* The first two parts.
LEMMA LandedStep ==
    ASSUME TypeOK, WireInv, HostInv, Claims, Placed, [Next]_vars, ~rash'
    PROVE  /\ \A m \in Mig : ~ended' /\ Active(m)' /\ m \in landed' => ~Nowhere'
           /\ \A m \in Mig : pc'[m] \in {"result", "release"} => live'[job'[m].from] = 0
  <1>0. live \in [Nodes -> Nat]
    BY DEF TypeOK
  <1>1. ASSUME NEW m \in Mig, ~ended', Active(m)', m \in landed'  PROVE ~Nowhere'
    <2>1. CASE m \notin landed
      <3>1. PICK n \in Nodes : RxBuild(n)
        BY <1>1, <2>1, HistoryMoves
      <3>2. live'[n] > 0
        BY <1>0, <3>1 DEF RxBuild
      <3>. QED  BY <3>2 DEF Nowhere
    <2>2. CASE m \in landed
      <3>1. pc[m] \notin {"unused", "freeze"}
        BY <2>2 DEF WireInv, Wired
      <3>2. Active(m)
        <4>1. pc'[m] \notin {"unused", "done"}
          BY <1>1 DEF Active
        <4>2. pc[m] # "done"
          BY <4>1, PcMoves
        <4>. QED  BY <3>1, <4>2 DEF Active
      <3>3. ~Nowhere
        BY <1>1, <2>2, <3>2, HistoryMoves DEF Placed
      <3>4. \A n \in Nodes : ~Loses(n) /\ ~Brings(n)
        BY <1>1, <3>3 DEF Loses, Brings
      <3>5. \A o \in Mig : ~Freeze(o)
        <4>1. \A o \in Mig : Freeze(o) => pc[o] = "freeze"
          BY DEF Freeze
        <4>2. \A o \in Mig : pc[o] = "freeze" => o = m
          BY <3>2 DEF Claims, Alone, Active
        <4>. QED  BY <3>1, <4>1, <4>2
      <3>6. UNCHANGED live
        BY <3>4, <3>5, CopiesMoves
      <3>. QED  BY <3>3, <3>6 DEF Nowhere
    <2>. QED  BY <2>1, <2>2
  <1>2. ASSUME NEW m \in Mig, pc'[m] \in {"result", "release"}
        PROVE  live'[job'[m].from] = 0
    <2>1. pc[m] \in {"stream", "result", "release"}
      <3>1. ASSUME NEW n \in Nodes, NEW to \in Nodes, NEW existing \in BOOLEAN,
                   Migrate(m, n, to, existing)
            PROVE  FALSE
        BY <1>2, <3>1 DEF Migrate, TypeOK
      <3>. QED  BY <1>2, <3>1, PcMoves
    <2>2. job'[m].from = job[m].from /\ job[m].from \in Nodes
      BY <2>1, JobMoves, JobEdit DEF TypeOK
    <2>3. live[job[m].from] = 0
      BY <2>1, <2>2 DEF Placed, Claims, Nowhere
    <2>4. Active(m)
      BY <2>1 DEF Active
    <2>5. ASSUME NEW n \in Nodes, Brings(n)  PROVE n # job[m].from
      <3>1. CASE Restore(n) \/ RestoreBlind(n)
        BY <2>1, <3>1, Looks DEF Idle
      <3>2. CASE RxBuild(n) \/ RxBuildBlind(n)
        <4>1. rx[n].pc = "build"
          BY <3>2 DEF RxBuild, RxBuildBlind
        <4>2. PICK o \in Mig : o = rx[n].peer /\ job[o].to = n /\ Handed(o)
          BY <4>1 DEF WireInv, Served, Handed, Busy
        <4>3. o = m
          BY <2>4, <4>2 DEF Claims, Alone
        <4>. QED  BY <2>4, <4>2, <4>3 DEF WireInv, Wired
      <3>3. CASE OrphanEngine(n)
        <4>1. job[m].to = n
          BY <2>4, <3>3 DEF OrphanEngine, Claims, Awaited
        <4>. QED  BY <2>4, <4>1 DEF WireInv, Wired
      <3>. QED  BY <2>5, <3>1, <3>2, <3>3 DEF Brings, Raises
    <2>6. ASSUME NEW n \in Nodes, Brings(n)  PROVE live'[job[m].from] = 0
      BY <1>0, <2>2, <2>3, <2>5, <2>6 DEF Brings
    <2>7. Nowhere' => live'[job[m].from] = 0
      BY <2>2 DEF Nowhere
    <2>8. live'[job[m].from] = 0
      BY <2>3, <2>6, <2>7, CopiesMoves, CopiesStep
    <2>. QED  BY <2>2, <2>8
  <1>. QED  BY <1>1, <1>2

\* The third part: what runs is recorded, or was left by an engine.
LEMMA NamedStep ==
    ASSUME TypeOK, TypeOK', WireInv, HostInv, HostInv', Claims, Placed, [Next]_vars, ~rash',
           NEW n \in Nodes
    PROVE  Named(n)'
  <1>0. /\ live \in [Nodes -> Nat] /\ hidden \in [Nodes -> Nat] /\ engines \in [Nodes -> Nat]
        /\ file \in [Nodes -> FileState] /\ hidden' \in [Nodes -> Nat]
        /\ \A k \in Nodes : /\ hidden[k] <= live[k] /\ hidden'[k] <= live'[k]
                            /\ engines[k] > 0 => "rxkill" \in hits
    BY FileEdit DEF TypeOK, HostInv
  <1>1. hits \subseteq hits'
    BY HitsStay
  <1>2. ASSUME file'[n] = file[n], live'[n] = live[n], hidden'[n] = hidden[n]  PROVE Named(n)'
    BY <1>1, <1>2 DEF Placed, Named, Recorded
  <1>3. ASSUME Nowhere'  PROVE Named(n)'
    <2>1. live'[n] = 0 /\ hidden'[n] <= live'[n]
      BY <1>0, <1>3 DEF Nowhere
    <2>. QED  BY <1>0, <2>1 DEF Named, Recorded
  \* Where a copy is brought up.
  <1>4. ASSUME NEW k \in Nodes, Brings(k)  PROVE Named(n)'
    <2>1. /\ \A o \in Nodes : live[o] = 0 /\ hidden[o] = 0
          /\ live' = [live EXCEPT ![k] = @ + 1]
      BY <1>0, <1>4 DEF Brings, Nowhere
    <2>2. CASE n # k
      <3>1. live'[n] = 0 /\ hidden'[n] <= live'[n]
        BY <1>0, <2>1, <2>2
      <3>. QED  BY <1>0, <3>1 DEF Named, Recorded
    <2>3. CASE n = k /\ (Restore(n) \/ RxBuild(n))
      <3>1. hidden' = [hidden EXCEPT ![n] = 0]
        <4>1. Restore(n) => hidden' = [hidden EXCEPT ![n] = Spared(n)]
          BY DEF Restore
        <4>2. Spared(n) = 0
          BY <2>1 DEF Spared
        <4>3. RxBuild(n) => hidden' = [hidden EXCEPT ![n] = live[n]]
          BY DEF RxBuild
        <4>. QED  BY <2>1, <2>3, <4>1, <4>2, <4>3
      <3>2. file' = [file EXCEPT ![n].status = "running"]
        BY <2>3 DEF Restore, RxBuild, Built
      <3>3. file'[n].status = "running" /\ hidden'[n] = 0
        BY <1>0, <3>1, <3>2 DEF FileState
      <3>. QED  BY <3>3 DEF Named
    <2>4. CASE n = k /\ (RestoreBlind(n) \/ RxBuildBlind(n) \/ OrphanEngine(n))
      <3>1. hidden' = [hidden EXCEPT ![n] = @ + 1]
        <4>1. OrphanEngine(n) /\ live' # live => hidden' = [hidden EXCEPT ![n] = @ + 1]
          BY DEF OrphanEngine
        <4>2. live' # live
          BY <1>0, <2>1
        <4>. QED  BY <2>4, <4>1, <4>2 DEF RestoreBlind, RxBuildBlind
      <3>2. ~Recorded(n)'
        BY <1>0, <2>1, <2>4, <3>1 DEF Recorded
      <3>3. hits' \cap {"pidfile", "rxkill"} # {}
        <4>1. OrphanEngine(n) => "rxkill" \in hits'
          BY <1>0, <1>1 DEF OrphanEngine
        <4>2. RestoreBlind(n) \/ RxBuildBlind(n) => "pidfile" \in hits'
          BY DEF RestoreBlind, RxBuildBlind, Fault
        <4>. QED  BY <2>4, <4>1, <4>2
      <3>. QED  BY <3>2, <3>3 DEF Named
    <2>. QED  BY <1>4, <2>2, <2>3, <2>4 DEF Brings, Raises
  \* Where there is none, and none is brought up.
  <1>5. ASSUME Nowhere, ~(\E k \in Nodes : Brings(k))  PROVE Named(n)'
    BY <1>3, <1>5, CopiesStep
  \* Where there is one.
  <1>6. ASSUME ~Nowhere, \A k \in Nodes : ~Brings(k)  PROVE Named(n)'
    <2>1. \A k \in Nodes : /\ ~Restore(k) /\ ~RestoreBlind(k) /\ ~RestoreFail(k) /\ ~RestoreKilled(k)
                           /\ ~Busy(k)
      BY <1>6, Looks, BusyNowhere
    <2>2. \A k \in Nodes : /\ ~RxRestore(k) /\ ~RxCommit(k) /\ ~Adopt(k)
                           /\ ~RxBuild(k) /\ ~RxBuildFail(k) /\ ~RxBuildBlind(k)
      BY <2>1 DEF RxRestore, RxCommit, Adopt, RxBuild, RxBuildFail, RxBuildBlind, Busy
    <2>3. ASSUME NEW k \in Nodes, Sweep(k)  PROVE Named(n)'
      <3>1. Stale(k) /\ live' = [live EXCEPT ![k] = Spared(k)] /\ UNCHANGED hidden
            /\ file' = [file EXCEPT ![k].status = Resolved(k)]
        BY <2>3 DEF Sweep
      <3>2. CASE n # k
        BY <1>0, <1>2, <3>1, <3>2
      <3>3. CASE n = k
        <4>1. live'[n] = hidden'[n] /\ hidden'[n] = hidden[n]
          BY <1>0, <3>1, <3>3 DEF Spared
        <4>. QED  BY <1>0, <1>1, <4>1 DEF Named, Recorded, Placed
      <3>. QED  BY <3>2, <3>3
    <2>4. ASSUME NEW k \in Nodes, KillReceiver(k) \/ OrphanEngine(k)  PROVE Named(n)'
      <3>1. CASE KillReceiver(k)
        BY <1>2, <3>1 DEF KillReceiver, disk
      <3>2. CASE OrphanEngine(k)
        BY <1>6, <3>2 DEF OrphanEngine, Claims, Awaited
      <3>. QED  BY <2>4, <3>1, <3>2
    <2>5. ASSUME NEW k \in Nodes, Exit(k)  PROVE Named(n)'
      <3>1. Loses(k)
        BY <2>5 DEF Exit, Loses
      <3>. QED  BY <1>3, <3>1, CopiesStep
    <2>6. ASSUME NEW m \in Mig, Freeze(m)  PROVE Named(n)'
      BY <1>3, <2>6, CopiesStep
    <2>7. ASSUME NEW m \in Mig, Release(m)  PROVE Named(n)'
      <3>1. job[m].from \in Nodes /\ live[job[m].from] = 0 /\ UNCHANGED live
        BY <2>7, JobEdit DEF Release, Placed, TypeOK
      <3>2. CASE n # job[m].from
        <4>1. file'[n] = file[n] /\ hidden'[n] = hidden[n]
          BY <1>0, <2>7, <3>2 DEF Release
        <4>. QED  BY <1>2, <3>1, <4>1
      <3>3. CASE n = job[m].from
        <4>1. live'[n] = 0 /\ hidden'[n] = 0
          BY <1>0, <2>7, <3>1, <3>3 DEF Release
        <4>. QED  BY <4>1 DEF Named, Recorded
      <3>. QED  BY <3>2, <3>3
    <2>8. ASSUME NEW m \in Mig, FreezeFail(m) \/ PackFail(m) \/ KillFreeze(m)  PROVE Named(n)'
      <3>. DEFINE k == job[m].from
      <3>1. k \in Nodes /\ UNCHANGED hidden
        BY <2>8, JobEdit DEF FreezeFail, PackFail, KillFreeze, TypeOK
      <3>2. \/ UNCHANGED <<file, live>>
            \/ /\ file' = [file EXCEPT ![k].status = "checkpointing"]
               /\ UNCHANGED live /\ hits' \cap {"stage", "txkill"} # {}
            \/ Fades(m)
        <4>1. FreezeFail(m) => \/ UNCHANGED <<file, live>>
                               \/ /\ file' = [file EXCEPT ![k].status = "checkpointing"]
                                  /\ UNCHANGED live /\ "stage" \in hits'
                               \/ Fades(m)
          BY DEF FreezeFail, Fault, Fades
        <4>2. KillFreeze(m) => \/ UNCHANGED <<file, live>>
                               \/ /\ file' = [file EXCEPT ![k].status = "checkpointing"]
                                  /\ UNCHANGED live /\ "txkill" \in hits'
                               \/ Fades(m)
          BY DEF KillFreeze, Fault, Fades, Wasted
        <4>3. PackFail(m) => Fades(m)
          BY DEF PackFail, Fades, Wasted
        <4>. QED  BY <2>8, <4>1, <4>2, <4>3
      <3>3. CASE UNCHANGED <<file, live>>
        BY <1>2, <3>1, <3>3
      <3>4. CASE Fades(m)
        <4>1. Loses(k)
          BY <1>0, <3>1, <3>4 DEF Fades, Loses, Freezes, Freezable, Recorded
        <4>. QED  BY <1>3, <3>1, <4>1, CopiesStep
      <3>5. CASE /\ file' = [file EXCEPT ![k].status = "checkpointing"]
                 /\ UNCHANGED live /\ hits' \cap {"stage", "txkill"} # {}
        <4>1. CASE n # k
          BY <1>0, <1>2, <3>1, <3>5, <4>1
        <4>2. CASE n = k
          <5>1. file'[n].status = "checkpointing"
            BY <1>0, <3>5, <4>2 DEF FileState
          <5>. QED  BY <1>1, <3>1, <3>5, <5>1 DEF Named, Placed
        <4>. QED  BY <4>1, <4>2
      <3>. QED  BY <3>2, <3>3, <3>4, <3>5
    <2>9. UNCHANGED <<file, live, hidden>> => Named(n)'
      BY <1>2
    <2>. QED  BY <2>1, <2>2, <2>3, <2>4, <2>5, <2>6, <2>7, <2>8, <2>9, HostMoves, Recorders
              DEF Sweeps
  <1>. QED  BY <1>4, <1>5, <1>6

\* The fourth part: some node offers a whole snapshot when the container runs
\* nowhere and has not ended.
LEMMA NotLostStep ==
    ASSUME TypeOK, WireInv, HostInv, ShipInv, LandInv, Claims, Placed, [Next]_vars, ~rash'
    PROVE  NotLost'
  <1>. SUFFICES ASSUME Nowhere', ~ended'
                PROVE  \E n \in Nodes : /\ file'[n].status \in {"checkpointed", "restoring"}
                                        /\ Whole(Snapshot(n))'
    BY DEF NotLost
  <1>. DEFINE Goal == \E n \in Nodes : /\ file'[n].status \in {"checkpointed", "restoring"}
                                       /\ Whole(Snapshot(n))'
  <1>0. /\ file \in [Nodes -> FileState] /\ own \in [Nodes -> Content] /\ inbox \in [Nodes -> Content]
        /\ live \in [Nodes -> Nat] /\ hidden \in [Nodes -> Nat]
    BY FileEdit DEF TypeOK
  <1>1. ~ended /\ torn = {} /\ Files = written
    BY HistoryMoves DEF ShipInv, Stored, Files
  <1>2. ASSUME NEW m \in Mig, Freeze(m)  PROVE Goal
    <2>. DEFINE n == job[m].from
    <2>1. n \in Nodes
      BY JobEdit DEF TypeOK
    <2>2. file'[n] = Frozen /\ own'[n] \in written'
      BY <1>0, <1>2, <2>1 DEF Freeze
    <2>3. Frozen.status = "checkpointed" /\ Frozen.snap = "own"
      BY DEF Frozen
    <2>4. file'[job[m].from].snap = "own" /\ own'[job[m].from] \in written'
      BY <2>2, <2>3
    <2>5. PICK k \in Nodes : k = n
      BY <2>1
    <2>6. Whole(Snapshot(k))'
      BY <2>4, <2>5 DEF Whole, Snapshot
    <2>. QED  BY <2>2, <2>3, <2>5, <2>6
  <1>3. \A n \in Nodes : ~Brings(n) /\ ~Loses(n)
    <2>1. ASSUME NEW n \in Nodes, Brings(n)  PROVE FALSE
      BY <1>0, <2>1 DEF Brings, Nowhere
    <2>. QED  BY <2>1 DEF Loses
  <1>4. CASE ~Nowhere
    <2>1. ~UNCHANGED live
      BY <1>4 DEF Nowhere
    <2>. QED  BY <1>2, <1>3, <2>1, CopiesMoves
  <1>5. CASE Nowhere
    <2>1. PICK w \in Nodes : file[w].status \in {"checkpointed", "restoring"} /\ Whole(Snapshot(w))
      BY <1>1, <1>5 DEF Placed, NotLost
    <2>2. UNCHANGED <<file, own, inbox, written>> => Goal
      BY <2>1 DEF Whole, Snapshot
    <2>3. ASSUME NEW n \in Nodes, NEW st \in Status,
                 n = w => st \in {"checkpointed", "restoring"},
                 file' = [file EXCEPT ![n].status = st], UNCHANGED <<own, inbox, written>>
          PROVE  Goal
      <3>1. file'[w].status \in {"checkpointed", "restoring"} /\ file'[w].snap = file[w].snap
        BY <1>0, <2>1, <2>3 DEF FileState
      <3>. QED  BY <2>1, <2>3, <3>1 DEF Whole, Snapshot
    \* What reconciliation makes of the status keeps the snapshot on offer.
    <2>4. ASSUME NEW n \in Nodes
          PROVE  /\ Resolved(n) \in Status
                 /\ n = w => Resolved(n) \in {"checkpointed", "restoring"}
      <3>1. Snapshot(w) # <<>>
        BY <1>1, <2>1 DEF ShipInv, Stored, Whole
      <3>2. file[n].status \in Status
        BY <1>0 DEF FileState
      <3>3. n = w /\ ~Stale(n) => Resolved(n) = file[w].status
        BY DEF Resolved
      <3>4. n = w /\ Stale(n) => Resolved(n) = "checkpointed"
        BY <3>1 DEF Resolved
      <3>5. Resolved(n) \in Status
        BY <3>2 DEF Resolved, Status
      <3>. QED  BY <2>1, <3>3, <3>4, <3>5
    <2>5. ASSUME NEW n \in Nodes, \/ Restore(n) \/ RestoreBlind(n) \/ RxBuild(n) \/ RxBuildBlind(n)
          PROVE  FALSE
      <3>1. live'[n] > 0
        <4>1. Spared(n) \in Nat
          BY <1>0 DEF Spared
        <4>. QED  BY <1>0, <2>5, <4>1 DEF Restore, RestoreBlind, RxBuild, RxBuildBlind
      <3>. QED  BY <3>1 DEF Nowhere
    <2>6. ASSUME NEW n \in Nodes, Sweeps(n)  PROVE Goal
      <3>1. UNCHANGED <<own, inbox, written>>
        BY <2>6 DEF Sweeps, Sweep, RestoreFail, RestoreKilled, RxRestore
      <3>2. file' = [file EXCEPT ![n].status = Resolved(n)]
            \/ \E st \in {"checkpointed", "restoring"} : file' = [file EXCEPT ![n].status = st]
        BY <2>6 DEF Sweeps, Sweep, RestoreFail, RestoreKilled, RxRestore
      <3>. QED  BY <2>3, <2>4, <3>1, <3>2 DEF Status
    <2>7. ASSUME NEW n \in Nodes, RxBuildFail(n)  PROVE Goal
      <3>1. UNCHANGED <<own, inbox, written>>
        BY <2>7 DEF RxBuildFail
      <3>2. UNCHANGED file \/ file' = [file EXCEPT ![n].status = "checkpointed"]
        BY <2>7 DEF RxBuildFail
      <3>. QED  BY <2>2, <2>3, <3>1, <3>2 DEF Status
    <2>8. ASSUME NEW n \in Nodes, Adopt(n)  PROVE Goal
      <3>1. CASE ~Whole(inbox[n])
        BY <2>2, <2>8, <3>1 DEF Adopt, history
      <3>2. CASE Whole(inbox[n])
        <4>1. file'[n] = Adopted /\ UNCHANGED <<inbox, written>>
          BY <1>0, <2>8, <3>2 DEF Adopt, history
        <4>2. Adopted.status = "checkpointed" /\ Adopted.snap = "inbox"
          BY DEF Adopted
        <4>3. file'[n].snap = "inbox" /\ inbox'[n] \in written'
          BY <3>2, <4>1, <4>2 DEF Whole
        <4>4. Whole(Snapshot(n))'
          BY <4>3 DEF Whole, Snapshot
        <4>. QED  BY <4>1, <4>2, <4>4
      <3>. QED  BY <3>1, <3>2
    <2>9. ASSUME NEW n \in Nodes, RxCommit(n)  PROVE Goal
      <3>1. /\ UNCHANGED <<file, own, written>> /\ inbox' = [inbox EXCEPT ![n] = part[n]]
            /\ rx[n].pc = "commit"
        BY <2>9 DEF RxCommit, history
      <3>2. part[n] \in written
        BY <1>1, <3>1 DEF ShipInv, Receiving
      <3>3. Whole(Snapshot(w))'
        BY <1>0, <2>1, <3>1, <3>2 DEF Whole, Snapshot
      <3>. QED  BY <2>1, <3>1, <3>3
    <2>10. ASSUME NEW m \in Mig, Release(m)  PROVE FALSE
      BY <1>1, <1>5, <2>10 DEF Release, LandInv, Placed, Active
    <2>11. ASSUME NEW m \in Mig, FreezeFail(m) \/ PackFail(m) \/ KillFreeze(m)  PROVE Goal
      <3>1. job[m].from \in Nodes
        BY JobEdit DEF TypeOK
      <3>2. ~Freezable(job[m].from)
        BY <1>0, <1>5, <3>1 DEF Freezable, Recorded, Nowhere
      <3>3. UNCHANGED <<file, own, inbox, written>>
        BY <2>11, <3>2 DEF FreezeFail, PackFail, KillFreeze
      <3>. QED  BY <2>2, <3>3
    <2>. QED  BY <1>2, <2>2, <2>5, <2>6, <2>7, <2>8, <2>9, <2>10, <2>11, Recorders
  <1>. QED  BY <1>4, <1>5

\* All four hold for as long as the operator looks and waits.
LEMMA PlaceAlways == Spec => [](~rash => Placed)
  <1>1. Init => Placed
    <2>. SUFFICES ASSUME Init  PROVE Placed
      OBVIOUS
    <2>1. live[Home] = 1 /\ Home \in Nodes
      BY MigrationAssumption DEF Init
    <2>2. ~Nowhere
      BY <2>1 DEF Nowhere
    <2>3. \A n \in Nodes : Named(n)
      BY DEF Init, Named, Recorded
    <2>. QED  BY <2>2, <2>3 DEF Init, Placed, NotLost, Active
  <1>2. ASSUME TypeOK, TypeOK', WireInv, HostInv, HostInv', ShipInv, LandInv,
               ~rash => Claims, ~rash => Placed, [Next]_vars, ~rash'
        PROVE  Placed'
    <2>1. ~rash
      BY <1>2, Looks
    <2>2. \A n \in Nodes : Named(n)'
      BY <1>2, <2>1, NamedStep
    <2>3. NotLost'
      BY <1>2, <2>1, NotLostStep
    <2>. QED  BY <1>2, <2>1, <2>2, <2>3, LandedStep DEF Placed
  <1>3. TypeOK /\ TypeOK' /\ WireInv /\ HostInv /\ HostInv' /\ ShipInv /\ LandInv
           /\ (~rash => Claims) /\ (~rash => Placed) /\ [Next]_vars => (~rash => Placed)'
    BY <1>2
  <1>. QED  BY <1>1, <1>3, ShipAlways, HostAlways, LandAlways, ClaimAlways, PTL DEF Spec

\* Once nothing is in flight, and until the operator is rash, a copy that runs is one
\* its node records as running, or as checkpointing when a checkpoint could not stage
\* its images or was killed; a copy that no record names was left by a killed restore
\* or by an unreadable pid file; for any number of nodes.
THEOREM TrackedAlways == Spec => []Tracked
  <1>1. (~rash => Placed) => Tracked
    BY DEF Placed, Named, Tracked
  <1>. QED  BY <1>1, PlaceAlways, PTL

\* A container does not vanish until the operator is rash (transport.rs:26-28): when
\* it runs nowhere, did not end by itself and was not lost in a checkpoint that came
\* to nothing, some node offers a whole snapshot of it to a plain restore, after any
\* failure or kill.
THEOREM NotLostAlways == Spec => [](~rash => NotLost)
  <1>1. (~rash => Placed) => (~rash => NotLost)
    BY DEF Placed
  <1>. QED  BY <1>1, PlaceAlways, PTL

-----------------------------------------------------------------------------
(* The promise *)

\* How a receiver that has the whole file moves on.
LEMMA BusyMoves ==
    ASSUME TypeOK, WireInv, [Next]_vars, NEW n \in Nodes
    PROVE  /\ rx'[n].pc = "commit" => rx'[n] = rx[n] \/ (ReadEof(n) /\ ~HangsUp(n))
           /\ rx'[n].pc = "adopt" => rx'[n] = rx[n] \/ RxCommit(n)
           /\ rx'[n].pc = "restore" => rx'[n] = rx[n] \/ (Adopt(n) /\ Whole(inbox[n]))
           /\ rx'[n].pc = "build" => rx'[n] = rx[n] \/ RxRestore(n)
  <1>. DEFINE Goal ==
           /\ rx'[n].pc = "commit" => rx'[n] = rx[n] \/ (ReadEof(n) /\ ~HangsUp(n))
           /\ rx'[n].pc = "adopt" => rx'[n] = rx[n] \/ RxCommit(n)
           /\ rx'[n].pc = "restore" => rx'[n] = rx[n] \/ (Adopt(n) /\ Whole(inbox[n]))
           /\ rx'[n].pc = "build" => rx'[n] = rx[n] \/ RxRestore(n)
  <1>0. rx \in [Nodes -> Rx] /\ rx[n] \in Rx /\ Listening.pc = "listen"
    BY DEF TypeOK, Listening
  <1>1. rx'[n] = rx[n] => Goal
    OBVIOUS
  <1>2. ASSUME NEW o \in Nodes, RxCommit(o)  PROVE Goal
    BY <1>0, <1>2 DEF RxCommit, Rx
  <1>3. ASSUME NEW o \in Nodes, Adopt(o)  PROVE Goal
    BY <1>0, <1>3 DEF Adopt, Rx
  <1>4. ASSUME NEW o \in Nodes, RxRestore(o)  PROVE Goal
    <2>1. rx' = [rx EXCEPT ![o].pc = "build"] \/ rx' = [rx EXCEPT ![o].pc = "reply"]
      BY <1>4 DEF RxRestore
    <2>. QED  BY <1>0, <1>4, <2>1 DEF Rx
  <1>5. ASSUME NEW o \in Nodes, RxBuild(o) \/ RxBuildFail(o) \/ RxBuildBlind(o)
        PROVE  rx'[n] = rx[n] \/ rx'[n].pc = "reply"
    BY <1>0, <1>5 DEF RxBuild, RxBuildFail, RxBuildBlind, Rx
  <1>6. ASSUME NEW o \in Nodes, HangsUp(o)  PROVE rx'[n] = rx[n] \/ rx'[n].pc = "listen"
    BY <1>0, <1>6 DEF HangsUp
  <1>7. ASSUME NEW o \in Nodes, ReadHello(o) \/ ReadChunk(o)  PROVE Goal
    <2>1. rx'[n] = rx[n] \/ rx'[n].pc \in {"listen", "hello"} \/ rx'[n].pc \in {"recv", "reply"}
      <3>1. CASE HangsUp(o)  BY <1>6, <3>1
      <3>2. CASE ReadHello(o) /\ ~HangsUp(o)
        <4>. DEFINE c == Head(up[rx[o].peer]).data
        <4>1. rx' = [rx EXCEPT ![o].pc = "recv", ![o].crc = c]
          BY <3>2 DEF ReadHello
        <4>. HIDE DEF c
        <4>2. rx'[n] = rx[n] \/ rx'[n] = [rx[n] EXCEPT !.pc = "recv", !.crc = c]
          BY <1>0, <4>1
        <4>. QED  BY <1>0, <4>2 DEF Rx
      <3>3. CASE ReadChunk(o) /\ ~HangsUp(o)
        BY <3>3 DEF ReadChunk
      <3>. QED  BY <1>7, <3>1, <3>2, <3>3
    <2>. QED  BY <2>1
  <1>8. ASSUME NEW o \in Nodes, ReadEof(o)  PROVE Goal
    <2>1. CASE HangsUp(o)  BY <1>6, <2>1
    <2>2. CASE ~HangsUp(o)
      <3>1. rx' = [rx EXCEPT ![o].pc = "commit"]
        BY <1>8, <2>2 DEF ReadEof
      <3>. QED  BY <1>0, <1>8, <2>2, <3>1 DEF Rx
    <2>. QED  BY <2>1, <2>2
  <1>9. ASSUME NEW o \in Nodes, RxGiveUp(o) \/ Reply(o) \/ KillReceiver(o)  PROVE HangsUp(o)
    BY <1>9 DEF RxGiveUp, Reply, KillReceiver
  <1>10. ASSUME NEW o \in Nodes, NEW m \in Mig, Accept(o, m)
         PROVE  rx'[n] = rx[n] \/ rx'[n].pc = "hello"
    <2>1. \A r \in Rx : [r EXCEPT !.pc = "hello", !.peer = m].pc = "hello"
      BY DEF Rx
    <2>2. rx'[n] = rx[n] \/ rx'[n] = [Listening EXCEPT !.pc = "hello", !.peer = m]
      BY <1>0, <1>10 DEF Accept
    <2>3. Listening \in Rx
      BY RxEdit
    <2>. QED  BY <2>1, <2>2, <2>3
  <1>11. ASSUME NEW o \in Nodes, RxStep(o) \/ KillReceiver(o)  PROVE Goal
    BY <1>1, <1>2, <1>3, <1>4, <1>5, <1>6, <1>7, <1>8, <1>9, <1>10, <1>11 DEF RxStep
  <1>12. ASSUME NEW m \in Mig,
                \/ TxStep(m) \/ Cut(m) \/ KillSender(m) \/ KillFreeze(m)
                \/ (\E o \in Nodes : Stray(m, o))
         PROVE  UNCHANGED rx
    BY <1>12
    DEF TxStep, Freeze, FreezeFail, PackFail, Hash, Connect, ConnectFail, ReadAck, Stream,
        StreamEnd, StreamFail, ReadResult, GiveUp, Release, Cut, KillSender, KillFreeze, Stray
  <1>13. ASSUME Operate \/ (\E o \in Nodes : OrphanEngine(o) \/ Exit(o)) \/ UNCHANGED vars
         PROVE  UNCHANGED rx
    BY <1>13
    DEF Operate, Migrate, Sweep, Restore, RestoreFail, RestoreBlind, RestoreKilled, OrphanEngine,
        Exit, vars
  <1>. HIDE DEF Goal
  <1>14. UNCHANGED rx => Goal
    BY <1>1
  <1>15. Goal
    BY <1>11, <1>12, <1>13, <1>14 DEF Next, Environment
  <1>. QED  BY <1>15 DEF Goal

\* What a node keeps changes only when it is checkpointed, receives or adopts.
LEMMA SnapshotMoves ==
    ASSUME TypeOK, [Next]_vars, NEW n \in Nodes
    PROVE  \/ /\ file'[n].snap = file[n].snap /\ Snapshot(n)' = Snapshot(n)
              /\ own'[n] = own[n] /\ inbox'[n] = inbox[n]
           \/ \E m \in Mig : (Freeze(m) \/ Wastes(m)) /\ job[m].from = n
           \/ RxCommit(n) \/ Adopt(n)
  <1>. DEFINE Same == /\ file'[n].snap = file[n].snap /\ own'[n] = own[n]
                      /\ inbox'[n] = inbox[n]
  <1>0. file \in [Nodes -> FileState] /\ own \in [Nodes -> Content] /\ inbox \in [Nodes -> Content]
    BY FileEdit DEF TypeOK
  <1>1. Same => Snapshot(n)' = Snapshot(n)
    BY DEF Snapshot
  <1>2. UNCHANGED <<file, own, inbox, written>> => Same
    OBVIOUS
  <1>3. ASSUME NEW k \in Nodes, NEW st \in Status, file' = [file EXCEPT ![k].status = st],
               UNCHANGED <<own, inbox>>
        PROVE  Same
    BY <1>0, <1>3 DEF FileState
  <1>4. ASSUME NEW k \in Nodes,
               \/ Sweeps(k) \/ Restore(k) \/ RestoreBlind(k)
               \/ RxBuild(k) \/ RxBuildFail(k) \/ RxBuildBlind(k)
        PROVE  Same
    <2>1. UNCHANGED <<own, inbox>>
      BY <1>4 DEF Sweeps, Sweep, Restore, RestoreFail, RestoreBlind, RestoreKilled, RxRestore,
                  RxBuild, RxBuildFail, RxBuildBlind
    <2>2. Resolved(k) \in Status
      BY <1>0 DEF Resolved, Status, FileState
    <2>3. UNCHANGED file \/ \E st \in Status : file' = [file EXCEPT ![k].status = st]
      <3>1. Sweeps(k) => \/ file' = [file EXCEPT ![k].status = Resolved(k)]
                         \/ \E st \in {"checkpointed", "restoring"} : file' = [file EXCEPT ![k].status = st]
        BY DEF Sweeps, Sweep, RestoreFail, RestoreKilled, RxRestore
      <3>2. ~Sweeps(k) => UNCHANGED file \/ \E st \in {"checkpointed", "running"} :
                                               file' = [file EXCEPT ![k].status = st]
        BY <1>4 DEF Restore, RestoreBlind, RxBuild, RxBuildFail, RxBuildBlind, Built
      <3>. QED  BY <2>2, <3>1, <3>2 DEF Status
    <2>. QED  BY <1>3, <2>1, <2>3
  <1>5. ASSUME NEW m \in Mig, Release(m)  PROVE Same
    <2>1. job[m].from \in Nodes
      BY JobEdit DEF TypeOK
    <2>2. UNCHANGED <<own, inbox>>
      BY <1>5 DEF Release
    <2>3. UNCHANGED file \/ file' = [file EXCEPT ![job[m].from].status = "migrated"]
      BY <1>5 DEF Release
    <2>. QED  BY <1>3, <2>1, <2>2, <2>3 DEF Status
  <1>6. ASSUME NEW k \in Nodes, RxCommit(k) \/ Adopt(k), k # n  PROVE Same
    BY <1>0, <1>6 DEF RxCommit, Adopt
  <1>7. ASSUME NEW m \in Mig, Freeze(m) \/ Wastes(m), job[m].from # n  PROVE Same
    <2>1. job[m].from \in Nodes /\ inbox' = inbox
      BY <1>7, Fresh
    <2>2. own'[n] = own[n]
      BY <1>0, <1>7, <2>1, Fresh
    <2>3. file'[n] = file[n]
      BY <1>0, <1>7, <2>1 DEF Freeze, Wastes, Wasted
    <2>. QED  BY <2>1, <2>2, <2>3
  <1>8. ASSUME NEW m \in Mig, FreezeFail(m) \/ PackFail(m) \/ KillFreeze(m), ~Wastes(m)
        PROVE  Same
    <2>1. job[m].from \in Nodes
      BY JobEdit DEF TypeOK
    <2>2. UNCHANGED <<own, inbox>>
      BY <1>8 DEF FreezeFail, PackFail, KillFreeze, Wastes
    <2>3. \/ UNCHANGED file
          \/ \E st \in {"checkpointing", "failed"} : file' = [file EXCEPT ![job[m].from].status = st]
      BY <1>8 DEF FreezeFail, PackFail, KillFreeze, Wastes
    <2>. QED  BY <1>3, <2>1, <2>2, <2>3 DEF Status
  <1>. HIDE DEF Same
  <1>9. Same \/ (\E m \in Mig : (Freeze(m) \/ Wastes(m)) /\ job[m].from = n)
        \/ RxCommit(n) \/ Adopt(n)
    BY <1>2, <1>4, <1>5, <1>6, <1>7, <1>8, Recorders
  <1>. QED  BY <1>1, <1>9 DEF Same

\* A checkpoint starts from a copy that runs.
LEMMA FreezesRunning ==
    ASSUME TypeOK, NEW m \in Mig, Freeze(m) \/ Wastes(m)
    PROVE  job[m].from \in Nodes /\ live[job[m].from] > 0 /\ live' = [live EXCEPT ![job[m].from] = @ - 1]
  <1>1. job[m].from \in Nodes
    BY JobEdit DEF TypeOK
  <1>2. Freezable(job[m].from) /\ live' = Freezes(job[m].from)
    BY DEF Freeze, Wastes, Wasted
  <1>. QED  BY <1>1, <1>2 DEF TypeOK, Freezable, Recorded, Freezes

\* From the hash to the adoption, what is shipped is what the node it left from
\* keeps; a receiver restores what it has adopted, and an engine what its node keeps.
Chained ==
    /\ \A m \in Mig :
          /\ pc[m] = "hash" => job[m].path = file[job[m].from].snap
          /\ pc[m] \in {"connect", "ack", "stream"} => job[m].crc = Snapshot(job[m].from)
          /\ \A f \in Frames(up[m]) : f.t = "eof" => f.data = Snapshot(job[m].from)
          /\ Handed(m) => job[m].from # job[m].to
    /\ \A n \in Nodes :
          /\ rx[n].pc = "commit" => part[n] = Snapshot(job[rx[n].peer].from)
          /\ rx[n].pc = "adopt" => inbox[n] = Snapshot(job[rx[n].peer].from)
          /\ rx[n].pc \in {"restore", "build"} => file[n].snap = "inbox" /\ inbox[n] \in written
          /\ engines[n] > 0 => Whole(Snapshot(n))

\* Nobody touches the snapshot of a node that is shipping it.
LEMMA SourceStable ==
    ASSUME TypeOK, WireInv, Claims, Chained, [Next]_vars, NEW m \in Mig,
           pc[m] \in {"hash", "connect", "ack", "stream"} \/ Handed(m)
    PROVE  \A k \in Nodes : k = job[m].from =>
               file'[k].snap = file[k].snap /\ Snapshot(k)' = Snapshot(k)
  <1>. SUFFICES ASSUME NEW k \in Nodes, k = job[m].from
                PROVE  file'[k].snap = file[k].snap /\ Snapshot(k)' = Snapshot(k)
    OBVIOUS
  <1>1. Nowhere
    BY DEF Claims
  <1>2. ASSUME NEW o \in Mig, Freeze(o) \/ Wastes(o)  PROVE FALSE
    <2>1. job[o].from \in Nodes /\ live[job[o].from] > 0
      BY <1>2, FreezesRunning
    <2>. QED  BY <1>1, <2>1 DEF Nowhere
  <1>3. ASSUME RxCommit(k) \/ Adopt(k)  PROVE FALSE
    <2>1. Busy(k)
      BY <1>3 DEF RxCommit, Adopt, Busy
    <2>2. PICK o \in Mig : o = rx[k].peer /\ job[o].to = k /\ Handed(o)
      BY <2>1 DEF Busy, WireInv, Served, Handed
    <2>3. CASE Handed(m)
      BY <2>2, <2>3 DEF Claims, Chained
    <2>4. CASE pc[m] \in {"hash", "connect", "ack", "stream"}
      <3>1. Alone(o) /\ pc[o] \in {"result", "done"}
        BY <2>2 DEF Claims
      <3>2. o = m
        BY <2>4, <3>1 DEF Alone, Active
      <3>. QED  BY <2>4, <3>1, <3>2
    <2>. QED  BY <2>3, <2>4
  <1>. QED  BY <1>2, <1>3, SnapshotMoves

\* The sender's part of the chain.
LEMMA SentChain ==
    ASSUME TypeOK, WireInv, ShipInv, LandInv, Claims, Chained, [Next]_vars, ~rash', NEW m \in Mig
    PROVE  /\ pc'[m] = "hash" => job'[m].path = file'[job'[m].from].snap
           /\ pc'[m] \in {"connect", "ack", "stream"} => job'[m].crc = Snapshot(job[m].from)'
           /\ \A f \in Frames(up'[m]) : f.t = "eof" => f.data = Snapshot(job[m].from)'
           /\ Handed(m)' => job'[m].from # job'[m].to
  <1>0. PICK k \in Nodes : k = job[m].from
    BY JobEdit DEF TypeOK
  <1>1. pc[m] # "unused" => job'[m].from = k
    BY <1>0, JobMoves
  <1>2. pc[m] # "unused" => (Snapshot(job[m].from)' = Snapshot(k)')
    BY <1>1
  <1>3. pc[m] \in {"hash", "connect", "ack", "stream"} \/ Handed(m) =>
            file'[k].snap = file[k].snap /\ Snapshot(k)' = Snapshot(k)
    BY <1>0, SourceStable
  <1>4. ASSUME pc'[m] = "hash"  PROVE job'[m].path = file'[job'[m].from].snap
    <2>1. CASE pc[m] = "hash"
      BY <1>0, <1>1, <1>3, <1>4, <2>1, JobMoves DEF Chained
    <2>2. CASE Freeze(m) /\ pc[m] = "freeze"
      <3>1. job[m].path = "own" /\ job'[m].path = "own" /\ job'[m].from = k
        BY <1>1, <1>4, <2>2, JobMoves DEF ShipInv, Shipping
      <3>2. file'[k] = Frozen
        BY <1>0, <2>2 DEF Freeze, TypeOK
      <3>. QED  BY <3>1, <3>2 DEF Frozen
    <2>3. ASSUME NEW n \in Nodes, NEW to \in Nodes, NEW existing \in BOOLEAN,
                 Migrate(m, n, to, existing)
          PROVE  job'[m].path = file'[job'[m].from].snap
      <3>1. existing /\ file' = file
        BY <1>4, <2>3 DEF Migrate, TypeOK, disk
      <3>. QED  BY <2>3, <3>1, MigrateEffect, ZenonT(60)
    <2>. QED  BY <1>4, <2>1, <2>2, <2>3, PcMoves
  <1>5. ASSUME pc'[m] \in {"connect", "ack", "stream"}
        PROVE  job'[m].crc = Snapshot(job[m].from)'
    <2>0. pc[m] \in {"hash", "connect", "ack", "stream"}
      <3>1. ASSUME NEW n \in Nodes, NEW to \in Nodes, NEW existing \in BOOLEAN,
                   Migrate(m, n, to, existing)
            PROVE  FALSE
        BY <1>5, <3>1 DEF Migrate, TypeOK
      <3>. QED  BY <1>5, <3>1, PcMoves
    <2>1. CASE pc[m] # "hash"
      BY <1>0, <1>2, <1>3, <1>5, <2>0, <2>1, JobMoves DEF Chained
    <2>2. CASE pc[m] = "hash"
      <3>1. Hash(m)
        <4>1. ASSUME NEW o \in Mig, Leaves(o)  PROVE pc'[m] = pc[m] \/ pc'[m] = "done"
          BY <4>1, ReturnsEffect DEF Leaves
        <4>2. ASSUME NEW o \in Mig,
                     \/ Freeze(o) \/ Hash(o) \/ Connect(o) \/ Stream(o) \/ Cut(o)
                     \/ (ReadAck(o) \/ StreamEnd(o) \/ ReadResult(o)) /\ ~Returns(o)
                     \/ (\E n \in Nodes : Stray(o, n))
              PROVE  pc'[m] = "hash" \/ Hash(m)
          BY <2>2, <4>2 DEF TypeOK, Freeze, Hash, Connect, Stream, Cut, ReadAck, StreamEnd,
                            ReadResult, Stray
        <4>3. ASSUME NEW n \in Nodes,
                     \/ Hangs(n) \/ Moves(n) \/ RxBuild(n) \/ (\E o \in Mig : Accept(n, o))
                     \/ ReadHello(n) \/ ReadChunk(n) \/ ReadEof(n)
              PROVE  pc'[m] = pc[m]
          BY <4>3 DEF Hangs, Moves, RxBuild, Accept, ReadHello, ReadChunk, ReadEof
        <4>4. ASSUME NEW o \in Mig, NEW n \in Nodes, NEW to \in Nodes, NEW existing \in BOOLEAN,
                     Migrate(o, n, to, existing)
              PROVE  pc'[m] = pc[m]
          <5>1. o # m
            BY <2>2, <4>4 DEF Migrate
          <5>. QED  BY <4>4, <5>1, MigrateEffect
        <4>5. Quiet => pc'[m] = pc[m]
          BY DEF Quiet
        <4>. QED  BY <1>5, <2>2, <4>1, <4>2, <4>3, <4>4, <4>5, Kinds
      <3>2. job'[m].crc = Shipped(m)
        <4>1. job'[m] = [job[m] EXCEPT !.crc = Shipped(m)] /\ job[m] \in Job
          BY <3>1 DEF Hash, Shipped, TypeOK
        <4>. QED  BY <4>1 DEF Job
      <3>3. job[m].path = file[k].snap /\ job[m].path \in {"own", "inbox"}
        BY <1>0, <2>2 DEF Chained, TypeOK, Job
      <3>4. Shipped(m) = Snapshot(k)
        BY <1>0, <3>3 DEF Shipped, Snapshot
      <3>. QED  BY <1>2, <1>3, <2>2, <3>2, <3>4
    <2>. QED  BY <2>1, <2>2
  <1>6. ASSUME NEW f \in Frames(up'[m]), f.t = "eof"  PROVE f.data = Snapshot(job[m].from)'
    <2>1. CASE f \in Frames(up[m])
      <3>1. Handed(m)
        BY <1>6, <2>1 DEF Handed, Carries
      <3>2. f.data = Snapshot(k) /\ pc[m] # "unused"
        BY <1>0, <1>6, <2>1, <3>1 DEF Chained, Claims
      <3>. QED  BY <1>2, <1>3, <3>1, <3>2
    <2>2. CASE f.data = job[m].crc /\ StreamEnd(m)
      <3>1. pc[m] = "stream"
        BY <2>2 DEF StreamEnd
      <3>. QED  BY <1>0, <1>2, <1>3, <2>2, <3>1 DEF Chained
    <2>. QED  BY <1>6, <2>1, <2>2, UpFrames
  <1>7. ASSUME Handed(m)'  PROVE job'[m].from # job'[m].to
    <2>1. CASE Handed(m)
      BY <2>1, JobMoves DEF Chained, Claims
    <2>2. CASE pc[m] = "stream"
      BY <2>2, JobMoves DEF WireInv, Wired, Active
    <2>. QED  BY <1>7, <2>1, <2>2, HandedStep
  <1>. QED  BY <1>4, <1>5, <1>6, <1>7

\* Snapshots that were written stay so, and only a commit changes an inbox.
LEMMA WrittenStays ==
    ASSUME [Next]_vars
    PROVE  /\ written \subseteq written'
           /\ UNCHANGED inbox \/ \E n \in Nodes : RxCommit(n)
  <1>1. \A m \in Mig : Freeze(m) \/ Wastes(m) => written \subseteq written' /\ UNCHANGED inbox
    BY DEF Freeze, Wastes, Wasted
  <1>2. \A n \in Nodes : ReadHello(n) \/ ReadChunk(n) \/ ReadEof(n) \/ RxCommit(n) => UNCHANGED written
    BY DEF ReadHello, ReadChunk, ReadEof, RxCommit, history
  <1>3. \A n \in Nodes : ReadHello(n) \/ ReadChunk(n) \/ ReadEof(n) => UNCHANGED inbox
    BY DEF ReadHello, ReadChunk, ReadEof
  <1>. QED  BY <1>1, <1>2, <1>3, Writers DEF store

\* The receiver's part.
LEMMA ReceivedChain ==
    ASSUME TypeOK, WireInv, ShipInv, Claims, Chained, [Next]_vars, NEW n \in Nodes
    PROVE  /\ rx'[n].pc = "commit" => part'[n] = Snapshot(job[rx[n].peer].from)'
           /\ rx'[n].pc = "adopt" => inbox'[n] = Snapshot(job[rx[n].peer].from)'
           /\ rx'[n].pc \in {"restore", "build"} => file'[n].snap = "inbox" /\ inbox'[n] \in written'
  <1>0. /\ rx \in [Nodes -> Rx] /\ rx[n] \in Rx /\ file \in [Nodes -> FileState]
        /\ inbox \in [Nodes -> Content]
    BY FileEdit DEF TypeOK
  <1>1. ASSUME NEW m \in Mig, m = rx[n].peer, rx[n].pc # "listen", rx'[n].peer = m, Handed(m)
        PROVE  \E k \in Nodes : /\ k = job[m].from /\ k # n
                                /\ Snapshot(job[rx[n].peer].from)' = Snapshot(k)
    <2>1. PICK k \in Nodes : k = job[m].from
      BY JobEdit DEF TypeOK
    <2>2. Snapshot(k)' = Snapshot(k)
      BY <1>1, <2>1, SourceStable
    <2>3. pc[m] # "unused" /\ job[m].from # job[m].to
      BY <1>1 DEF Claims, Chained
    <2>4. job'[m].from = k
      BY <2>1, <2>3, JobMoves
    <2>5. Snapshot(job[rx[n].peer].from)' = Snapshot(k)'
      BY <1>1, <2>4
    <2>6. job[m].to = n
      BY <1>1 DEF WireInv, Served
    <2>. QED  BY <2>1, <2>2, <2>3, <2>5, <2>6
  <1>2. ASSUME rx'[n].pc = "commit"  PROVE part'[n] = Snapshot(job[rx[n].peer].from)'
    <2>1. part'[n] = part[n]
      BY <1>2, StoreStep
    <2>2. CASE rx'[n] = rx[n]
      <3>1. PICK m \in Mig : m = rx[n].peer /\ Handed(m)
        BY <1>2, <2>2 DEF WireInv, Served, Handed, Busy
      <3>2. rx'[n].peer = m /\ rx[n].pc = "commit"
        BY <1>2, <2>2, <3>1
      <3>3. part[n] = Snapshot(job[m].from)
        BY <3>1, <3>2 DEF Chained
      <3>. QED  BY <1>1, <2>1, <3>1, <3>2, <3>3
    <2>3. CASE ReadEof(n) /\ ~HangsUp(n)
      <3>1. PICK m \in Mig : m = rx[n].peer
        BY <2>3 DEF ReadEof, WireInv, Served
      <3>2. /\ up[m] # <<>> /\ Head(up[m]).t = "eof" /\ Head(up[m]).data = part[n]
            /\ rx' = [rx EXCEPT ![n].pc = "commit"]
        BY <2>3, <3>1 DEF ReadEof, Intact
      <3>3. Head(up[m]) \in Frames(up[m]) /\ Carries(up[m], "eof")
        BY <3>2, FramesOf, CarriesOf DEF TypeOK
      <3>4. part[n] = Snapshot(job[m].from) /\ Handed(m)
        BY <3>2, <3>3 DEF Chained, Handed
      <3>5. rx'[n].peer = m /\ rx[n].pc = "recv"
        BY <1>0, <2>3, <3>1, <3>2 DEF ReadEof, Rx
      <3>. QED  BY <1>1, <2>1, <3>1, <3>4, <3>5
    <2>. QED  BY <1>2, <2>2, <2>3, BusyMoves
  <1>3. ASSUME rx'[n].pc = "adopt"  PROVE inbox'[n] = Snapshot(job[rx[n].peer].from)'
    <2>1. CASE RxCommit(n)
      <3>1. PICK m \in Mig : m = rx[n].peer /\ Handed(m)
        BY <2>1 DEF RxCommit, WireInv, Served, Handed, Busy
      <3>2. rx[n].pc = "commit" /\ rx'[n].peer = m /\ inbox'[n] = part[n]
        BY <1>0, <2>1, <3>1 DEF RxCommit, Rx
      <3>3. part[n] = Snapshot(job[m].from)
        BY <3>1, <3>2 DEF Chained
      <3>. QED  BY <1>1, <3>1, <3>2, <3>3
    <2>2. CASE rx'[n] = rx[n]
      <3>1. PICK m \in Mig : m = rx[n].peer /\ Handed(m)
        BY <1>3, <2>2 DEF WireInv, Served, Handed, Busy
      <3>2. rx'[n].peer = m /\ rx[n].pc = "adopt"
        BY <1>3, <2>2, <3>1
      <3>3. inbox[n] = Snapshot(job[m].from)
        BY <3>1, <3>2 DEF Chained
      <3>4. inbox'[n] = inbox[n]
        <4>1. ASSUME NEW o \in Nodes, RxCommit(o)  PROVE o # n
          BY <3>2, <4>1 DEF RxCommit
        <4>2. ASSUME NEW o \in Nodes, RxCommit(o)  PROVE inbox'[n] = inbox[n]
          BY <1>0, <4>1, <4>2 DEF RxCommit
        <4>. QED  BY <4>2, WrittenStays
      <3>. QED  BY <1>1, <3>1, <3>2, <3>3, <3>4
    <2>. QED  BY <1>3, <2>1, <2>2, BusyMoves
  <1>4. ASSUME rx'[n].pc \in {"restore", "build"}
        PROVE  file'[n].snap = "inbox" /\ inbox'[n] \in written'
    <2>0. written \subseteq written'
      BY WrittenStays
    <2>1. CASE rx[n].pc \in {"restore", "build"}
      <3>1. Busy(n)
        BY <2>1 DEF Busy
      <3>2. Nowhere
        BY <3>1, BusyNowhere
      <3>3. ASSUME NEW o \in Mig, Freeze(o) \/ Wastes(o)  PROVE FALSE
        <4>1. job[o].from \in Nodes /\ live[job[o].from] > 0
          BY <3>3, FreezesRunning
        <4>. QED  BY <3>2, <4>1 DEF Nowhere
      <3>4. ~RxCommit(n) /\ ~Adopt(n)
        BY <2>1 DEF RxCommit, Adopt
      <3>5. file'[n].snap = file[n].snap /\ inbox'[n] = inbox[n]
        BY <3>3, <3>4, SnapshotMoves
      <3>. QED  BY <2>0, <2>1, <3>5 DEF Chained
    <2>2. CASE Adopt(n) /\ Whole(inbox[n])
      <3>1. file'[n] = Adopted /\ inbox'[n] = inbox[n]
        BY <1>0, <2>2 DEF Adopt
      <3>. QED  BY <2>0, <2>2, <3>1 DEF Adopted, Whole
    <2>3. RxRestore(n) => rx[n].pc = "restore"
      BY DEF RxRestore
    <2>. QED  BY <1>4, <2>1, <2>2, <2>3, BusyMoves
  <1>. QED  BY <1>2, <1>3, <1>4

\* The engine's part.
LEMMA EngineChain ==
    ASSUME TypeOK, WireInv, Claims, Chained, [Next]_vars, NEW n \in Nodes, engines'[n] > 0
    PROVE  Whole(Snapshot(n))'
  <1>0. engines \in [Nodes -> Nat] /\ written \subseteq written'
    BY WrittenStays DEF TypeOK
  <1>1. CASE engines[n] > 0
    <2>1. Awaited(n) /\ Whole(Snapshot(n))
      BY <1>1 DEF Claims, Chained
    <2>2. ASSUME NEW m \in Mig, Freeze(m) \/ Wastes(m)  PROVE FALSE
      BY <2>1, <2>2, FreezesRunning DEF Awaited, Nowhere
    <2>3. ~Busy(n)
      BY <2>1 DEF Busy, Awaited, Handed, WireInv, Served
    <2>4. ~RxCommit(n) /\ ~Adopt(n)
      BY <2>3 DEF Busy, RxCommit, Adopt
    <2>5. Snapshot(n)' = Snapshot(n)
      BY <2>2, <2>4, SnapshotMoves
    <2>. QED  BY <1>0, <2>1, <2>5 DEF Whole
  <1>2. CASE ~(engines[n] > 0)
    <2>1. PICK k \in Nodes : RestoreKilled(k) \/ OrphanEngine(k) \/ (KillReceiver(k) /\ rx[k].pc = "build")
      BY <1>2, EngineMoves
    <2>2. engines' = [engines EXCEPT ![k] = @ - 1] => ~(engines'[n] > 0)
      BY <1>0, <1>2
    <2>3. RestoreKilled(k) \/ (KillReceiver(k) /\ rx[k].pc = "build")
      BY <2>1, <2>2 DEF OrphanEngine
    <2>4. k = n
      <3>1. UNCHANGED engines \/ engines' = [engines EXCEPT ![k] = @ + 1]
        BY <2>3 DEF RestoreKilled, KillReceiver
      <3>. QED  BY <1>0, <1>2, <3>1
    <2>5. Whole(Snapshot(n))
      BY <2>3, <2>4 DEF RestoreKilled, Restores, Restorable, Chained, Whole, Snapshot
    <2>6. file'[n].snap = file[n].snap /\ UNCHANGED <<own, inbox, written>>
      BY <2>3, <2>4, FileEdit DEF RestoreKilled, KillReceiver, disk, TypeOK, FileState
    <2>. QED  BY <2>5, <2>6 DEF Whole, Snapshot
  <1>. QED  BY <1>1, <1>2

\* The chain holds for as long as the operator looks and waits.
LEMMA ChainAlways == Spec => [](~rash => Chained)
  <1>1. Init => Chained
    <2>. SUFFICES ASSUME Init  PROVE Chained
      OBVIOUS
    <2>1. Frames(<<>>) = {} /\ ~Carries(<<>>, "eof")
      BY FramesOf, CarriesOf
    <2>2. \A m \in Mig : up[m] = <<>> /\ pc[m] = "unused"
      BY DEF Init
    <2>3. \A n \in Nodes : rx[n].pc = "listen"
      BY DEF Init, Listening
    <2>4. \A m \in Mig : ~Handed(m)
      BY <2>1, <2>2, <2>3 DEF Handed, Busy
    <2>5. \A n \in Nodes : ~(engines[n] > 0)
      BY DEF Init
    <2>. QED  BY <2>1, <2>2, <2>3, <2>4, <2>5 DEF Chained
  <1>2. ASSUME TypeOK, WireInv, ShipInv, LandInv, ~rash => Claims, ~rash => Chained, [Next]_vars, ~rash'
        PROVE  Chained'
    <2>1. ~rash
      BY <1>2, Looks
    <2>2. \A m \in Mig :
             /\ pc'[m] = "hash" => job'[m].path = file'[job'[m].from].snap
             /\ pc'[m] \in {"connect", "ack", "stream"} => job'[m].crc = Snapshot(job[m].from)'
             /\ \A f \in Frames(up'[m]) : f.t = "eof" => f.data = Snapshot(job[m].from)'
             /\ Handed(m)' => job'[m].from # job'[m].to
      BY <1>2, <2>1, SentChain
    <2>3. \A n \in Nodes :
             /\ rx'[n].pc = "commit" => part'[n] = Snapshot(job[rx[n].peer].from)'
             /\ rx'[n].pc = "adopt" => inbox'[n] = Snapshot(job[rx[n].peer].from)'
             /\ rx'[n].pc \in {"restore", "build"} => file'[n].snap = "inbox" /\ inbox'[n] \in written'
      BY <1>2, <2>1, ReceivedChain
    <2>4. \A n \in Nodes : engines'[n] > 0 => Whole(Snapshot(n))'
      BY <1>2, <2>1, EngineChain
    <2>. QED  BY <2>2, <2>3, <2>4 DEF Chained
  <1>3. TypeOK /\ WireInv /\ ShipInv /\ LandInv /\ (~rash => Claims) /\ (~rash => Chained)
           /\ [Next]_vars => (~rash => Chained)'
    BY <1>2
  <1>. QED  BY <1>1, <1>3, ShipAlways, LandAlways, ClaimAlways, PTL DEF Spec

\* What the promise is about: where the container runs, and who keeps it.
Up == {n \in Nodes : live[n] > 0}
Kept == {n \in Nodes : Whole(Snapshot(n))}

\* Only a checkpoint writes a snapshot.
LEMMA WrittenMoves ==
    ASSUME [Next]_vars
    PROVE  UNCHANGED written \/ \E m \in Mig : Freeze(m) \/ Wastes(m)
  <1>1. \A n \in Nodes : ReadHello(n) \/ ReadChunk(n) \/ ReadEof(n) \/ RxCommit(n) => UNCHANGED written
    BY DEF ReadHello, ReadChunk, ReadEof, RxCommit, history
  <1>. QED  BY <1>1, Writers DEF store

\* A step that brings the container up thaws what its node keeps.
LEMMA ThawStep ==
    ASSUME TypeOK, WireInv, Claims, Chained, [Next]_vars, ~rash, ~rash', TypeOK',
           NEW n \in Nodes, Brings(n)
    PROVE  Handing!Thaw(n)
  <1>0. live \in [Nodes -> Nat] /\ file \in [Nodes -> FileState]
    BY FileEdit DEF TypeOK
  <1>1. live' = [live EXCEPT ![n] = @ + 1] /\ Nowhere /\ UNCHANGED ended /\ Raises(n)
    BY DEF Brings
  <1>2. Up = {} /\ Up' = {n}
    BY <1>0, <1>1 DEF Up, Nowhere
  <1>3. UNCHANGED <<own, inbox, written>>
    BY <1>1 DEF Raises, Restore, RestoreBlind, RxBuild, RxBuildBlind, OrphanEngine, disk, history
  <1>4. \A k \in Nodes : file'[k].snap = file[k].snap
    <2>1. UNCHANGED file \/ \E st \in {"running", "checkpointed"} : file' = [file EXCEPT ![n].status = st]
      BY <1>1 DEF Raises, Restore, RestoreBlind, RxBuild, Built, RxBuildBlind, OrphanEngine, disk
    <2>. QED  BY <1>0, <2>1 DEF FileState
  <1>5. Kept' = Kept
    BY <1>3, <1>4 DEF Kept, Whole, Snapshot
  <1>6. Whole(Snapshot(n))
    <2>1. Restore(n) \/ RestoreBlind(n) => Whole(Snapshot(n))
      BY DEF Restore, RestoreBlind, Restores, Restorable
    <2>2. RxBuild(n) \/ RxBuildBlind(n) => Whole(Snapshot(n))
      BY DEF RxBuild, RxBuildBlind, Chained, Whole, Snapshot
    <2>3. OrphanEngine(n) => Whole(Snapshot(n))
      BY DEF OrphanEngine, Chained
    <2>. QED  BY <1>1, <2>1, <2>2, <2>3 DEF Raises
  <1>7. rash' = rash /\ n \in Kept
    BY <1>6 DEF TypeOK, Kept
  <1>. QED  BY <1>1, <1>2, <1>5, <1>7 DEF Handing!Thaw, Up, Kept

\* A checkpoint freezes the container, or loses it; a copy that goes ends.
LEMMA FreezeStep ==
    ASSUME TypeOK, WireInv, ShipInv, Claims, [Next]_vars, ~rash, ~rash', TypeOK',
           (\E m \in Mig : Freeze(m) \/ Wastes(m)) \/ (\E n \in Nodes : Loses(n))
    PROVE  \E n \in Nodes : Handing!Freeze(n) \/ Handing!End(n)
  <1>0. /\ live \in [Nodes -> Nat] /\ file \in [Nodes -> FileState] /\ own \in [Nodes -> Content]
        /\ rash' = rash /\ NeverTwice /\ freezes \in Nat
    BY FileEdit DEF TypeOK, Claims
  <1>1. ASSUME NEW n \in Nodes, live[n] > 0, live' = [live EXCEPT ![n] = @ - 1]
        PROVE  Up = {n} /\ Up' = {}
    <2>1. live[n] = 1 /\ \A o \in Nodes \ {n} : live[o] = 0
      BY <1>0, <1>1 DEF NeverTwice
    <2>. QED  BY <1>0, <1>1, <2>1 DEF Up
  <1>2. ASSUME NEW n \in Nodes, Loses(n), ~(\E m \in Mig : Freeze(m) \/ Wastes(m))
        PROVE  Handing!End(n)
    <2>0. live[n] > 0 /\ live' = [live EXCEPT ![n] = @ - 1] /\ ended' = TRUE
      BY <1>2 DEF Loses
    <2>1. Up = {n} /\ Up' = {} /\ ended' = TRUE /\ live' # live
      <3>1. live' # live
        BY <1>0, <2>0
      <3>. QED  BY <1>1, <2>0, <3>1
    <2>2. \A k \in Nodes : ~RxCommit(k) /\ ~Adopt(k)
      BY <2>1 DEF RxCommit, Adopt, host
    <2>3. UNCHANGED written /\ \A k \in Nodes : Snapshot(k)' = Snapshot(k)
      BY <1>2, <2>2, SnapshotMoves, WrittenMoves
    <2>4. Kept' = Kept
      BY <2>3 DEF Kept, Whole
    <2>. QED  BY <1>0, <2>1, <2>4 DEF Handing!End, Up, Kept
  <1>3. \A k \in Nodes : Snapshot(k) \in Content /\ (Snapshot(k) = <<>> \/ Snapshot(k)[1] < freezes)
    <2>1. <<>> \in Content
      BY EmptyContent
    <2>. QED  BY <2>1 DEF ShipInv, Stored, Snapshot, TypeOK
  <1>4. ASSUME NEW m \in Mig, Freeze(m) \/ Wastes(m)
        PROVE  \E n \in Nodes : Handing!Freeze(n) \/ Handing!End(n)
    <2>1. PICK n \in Nodes : n = job[m].from
      BY JobEdit DEF TypeOK
    <2>2. PICK new \in Content :
                /\ new # <<>> /\ new[1] = freezes
                /\ \/ /\ own' = [own EXCEPT ![job[m].from] = new]
                      /\ Freeze(m) /\ written' = written \cup {new} /\ UNCHANGED <<torn, ended>>
                   \/ /\ own' = [own EXCEPT ![job[m].from] = new]
                      /\ torn' = torn \cup {new} /\ UNCHANGED written /\ ended' = TRUE
                   \/ /\ own' = [own EXCEPT ![job[m].from] = new]
                      /\ written' = written \cup {new} /\ UNCHANGED torn /\ ended' = TRUE
                   \/ UNCHANGED <<own, torn, written>> /\ ended' = TRUE
      BY <1>4, Fresh
    <2>3. Up = {n} /\ Up' = {}
      BY <1>1, <1>4, <2>1, FreezesRunning
    <2>4. UNCHANGED inbox
      BY <1>4, Fresh
    <2>5. \A k \in Nodes \ {n} : file'[k] = file[k] /\ own'[k] = own[k]
      <3>1. \A k \in Nodes \ {n} : own'[k] = own[k]
        BY <1>0, <2>1, <2>2
      <3>2. \A k \in Nodes \ {n} : file'[k] = file[k]
        BY <1>0, <1>4, <2>1 DEF Freeze, Wastes, Wasted
      <3>. QED  BY <3>1, <3>2
    <2>6. \A k \in Nodes \ {n} : Snapshot(k)' = Snapshot(k)
      BY <2>4, <2>5 DEF Snapshot
    <2>7. \A k \in Nodes : Snapshot(k) # new
      BY <1>0, <1>3, <2>2
    <2>8. CASE ended' = TRUE
      <3>1. written' \subseteq written \cup {new}
        BY <2>2
      <3>2. Kept' \subseteq Kept \cup {n}
        BY <2>6, <2>7, <3>1 DEF Kept, Whole
      <3>. QED  BY <1>0, <2>3, <2>8, <3>2 DEF Handing!End, Up, Kept
    <2>9. CASE Freeze(m) /\ written' = written \cup {new} /\ UNCHANGED ended
               /\ own' = [own EXCEPT ![job[m].from] = new]
      <3>1. own'[n] = new
        BY <1>0, <2>1, <2>9
      <3>2. file'[n] = Frozen
        BY <1>0, <2>1, <2>9 DEF Freeze
      <3>3. file'[n].snap = "own"
        BY <3>2 DEF Frozen
      <3>4. Snapshot(n)' = new
        BY <3>1, <3>3 DEF Snapshot
      <3>5. Kept' = Kept \cup {n}
        BY <2>6, <2>7, <2>9, <3>4 DEF Kept, Whole
      <3>. QED  BY <1>0, <2>3, <2>9, <3>5 DEF Handing!Freeze, Up, Kept
    <2>. QED  BY <2>2, <2>8, <2>9
  <1>. QED  BY <1>2, <1>4

\* A receiver takes over what the node it came from keeps; the remains of a
\* checkpoint that failed may replace a snapshot, but then the container has
\* ended.  Every other step leaves alone what the nodes keep.
LEMMA TakeStep ==
    ASSUME TypeOK, WireInv, ShipInv, Claims, Chained, [Next]_vars, ~rash, ~rash', TypeOK',
           UNCHANGED <<live, ended>>
    PROVE  \/ \E n \in Nodes : Handing!Take(n)
           \/ Handing!Forget
           \/ UNCHANGED Handing!hvars
  <1>0. /\ file \in [Nodes -> FileState] /\ own \in [Nodes -> Content]
        /\ inbox \in [Nodes -> Content] /\ rash' = rash
    BY FileEdit DEF TypeOK
  <1>1. ASSUME NEW m \in Mig, Freeze(m) \/ Wastes(m)  PROVE FALSE
    <2>1. job[m].from \in Nodes /\ live[job[m].from] > 0 /\ live' = [live EXCEPT ![job[m].from] = @ - 1]
      BY <1>1, FreezesRunning
    <2>2. live \in [Nodes -> Nat]
      BY DEF TypeOK
    <2>. QED  BY <2>1, <2>2
  <1>2. UNCHANGED <<written, ended>> /\ Up' = Up
    BY <1>1, WrittenMoves DEF Up
  <1>3. ASSUME NEW n \in Nodes, RxCommit(n) \/ Adopt(n)
        PROVE  \/ Handing!Take(n) \/ Handing!Forget \/ UNCHANGED Handing!hvars
    <2>0. Busy(n)
      BY <1>3 DEF RxCommit, Adopt, Busy
    <2>1. Up = {}
      <3>1. Nowhere
        BY <2>0, BusyNowhere
      <3>. QED  BY <3>1 DEF Up, Nowhere
    <2>2. \A k \in Nodes \ {n} : Snapshot(k)' = Snapshot(k)
      <3>. SUFFICES ASSUME NEW k \in Nodes, k # n  PROVE Snapshot(k)' = Snapshot(k)
        OBVIOUS
      <3>1. file'[k] = file[k] /\ own'[k] = own[k] /\ inbox'[k] = inbox[k]
        BY <1>0, <1>3 DEF RxCommit, Adopt
      <3>. QED  BY <3>1 DEF Snapshot
    <2>3. PICK k \in Nodes : /\ k = job[rx[n].peer].from
                             /\ RxCommit(n) => part[n] = Snapshot(k)
                             /\ Adopt(n) => inbox[n] = Snapshot(k)
      <3>1. rx[n].peer \in Mig
        BY <2>0 DEF Busy, WireInv, Served
      <3>2. job[rx[n].peer].from \in Nodes
        BY <3>1, JobEdit DEF TypeOK
      <3>. QED  BY <1>3, <3>2 DEF Chained, RxCommit, Adopt
    <2>4. Snapshot(n)' = Snapshot(n) \/ Snapshot(n)' = Snapshot(k)
      <3>1. CASE RxCommit(n)
        <4>1. file' = file /\ own' = own /\ inbox'[n] = part[n]
          BY <1>0, <3>1 DEF RxCommit
        <4>. QED  BY <2>3, <3>1, <4>1 DEF Snapshot
      <3>2. CASE Adopt(n)
        <4>1. UNCHANGED <<own, inbox>>
          BY <3>2 DEF Adopt
        <4>2. file'[n] = Adopted \/ file'[n] = file[n]
          BY <1>0, <3>2 DEF Adopt
        <4>3. CASE file'[n] = file[n]
          BY <4>1, <4>3 DEF Snapshot
        <4>4. CASE file'[n] = Adopted
          <5>1. file'[n].snap = "inbox"
            BY <4>4 DEF Adopted
          <5>2. Snapshot(n)' = inbox[n]
            BY <4>1, <5>1 DEF Snapshot
          <5>. QED  BY <2>3, <3>2, <5>2
        <4>. QED  BY <4>2, <4>3, <4>4
      <3>. QED  BY <1>3, <3>1, <3>2
    <2>5. CASE Whole(Snapshot(k)) /\ Snapshot(n)' = Snapshot(k)
      <3>1. Kept' = Kept \cup {n} /\ k \in Kept
        BY <1>2, <2>2, <2>5 DEF Kept, Whole
      <3>. QED  BY <1>0, <1>2, <2>1, <3>1 DEF Handing!Take, Up, Kept
    <2>6. CASE ~Whole(Snapshot(k)) /\ Snapshot(n)' = Snapshot(k)
      <3>1. Kept' \subseteq Kept
        BY <1>2, <2>2, <2>6 DEF Kept, Whole
      <3>2. CASE RxCommit(n)
        <4>1. part[n] \in Files
          BY <3>2 DEF ShipInv, Receiving, RxCommit
        <4>2. ended
          BY <2>3, <2>6, <3>2, <4>1 DEF ShipInv, Stored, Files, Whole
        <4>. QED  BY <1>0, <1>2, <3>1, <4>2 DEF Handing!Forget, Up, Kept
      <3>3. CASE Adopt(n)
        <4>1. UNCHANGED <<file, own, inbox>>
          BY <2>3, <2>6, <3>3 DEF Adopt
        <4>2. Kept' = Kept
          BY <1>2, <4>1 DEF Kept, Whole, Snapshot
        <4>. QED  BY <1>0, <1>2, <4>2 DEF Handing!hvars, Up, Kept
      <3>. QED  BY <1>3, <3>2, <3>3
    <2>7. CASE Snapshot(n)' = Snapshot(n)
      <3>1. Kept' = Kept
        BY <1>2, <2>2, <2>7 DEF Kept, Whole
      <3>. QED  BY <1>0, <1>2, <3>1 DEF Handing!hvars, Up, Kept
    <2>. QED  BY <2>4, <2>5, <2>6, <2>7
  <1>4. CASE ~ \E n \in Nodes : RxCommit(n) \/ Adopt(n)
    <2>1. \A k \in Nodes : Snapshot(k)' = Snapshot(k)
      BY <1>1, <1>4, SnapshotMoves
    <2>2. Kept' = Kept
      BY <1>2, <2>1 DEF Kept, Whole
    <2>. QED  BY <1>0, <1>2, <2>2 DEF Handing!hvars, Up, Kept
  <1>. QED  BY <1>3, <1>4

\* Migration keeps the promise: every step of it is a step of Handover, or leaves
\* alone where the container runs and who keeps it.  From the freeze of the
\* checkpoint to the restore of the receiver, the container runs on at most one
\* node and is always kept by some node it can be brought back from
\* (migrate.rs:21-29, transport.rs:22-28), for any number of nodes, migrations and
\* failures, until the operator acts without looking, or without waiting for an engine
\* that outlived its command.  What such an engine brings up while the operator waits
\* is a thaw.
THEOREM PromiseKept == Spec => KeepsPromise
  <1>1. Init => Handing!Init
    <2>. SUFFICES ASSUME Init  PROVE Handing!Init
      OBVIOUS
    <2>1. Up = {Home}
      BY MigrationAssumption DEF Init, Up
    <2>2. Kept = {}
      BY DEF Init, Kept, Whole
    <2>. QED  BY <2>1, <2>2 DEF Init, Handing!Init, Up, Kept
  <1>2. ASSUME TypeOK, TypeOK', WireInv, HostInv, ShipInv, ~rash => Claims, ~rash => Chained,
               [Next]_vars
        PROVE  [Handing!Next]_(Handing!hvars)
    <2>1. CASE rash'
      <3>1. rash' = TRUE /\ ended' \in BOOLEAN
        BY <1>2, <2>1 DEF TypeOK
      <3>2. Up' \subseteq Nodes /\ Kept' \subseteq Nodes
        BY DEF Up, Kept
      <3>3. Handing!Misuse
        BY <3>1, <3>2 DEF Handing!Misuse, Up, Kept
      <3>. QED  BY <3>3 DEF Handing!Next
    <2>2. CASE ~rash'
      <3>1. ~rash /\ Claims /\ Chained
        BY <1>2, <2>2, Looks
      <3>2. CASE (\E m \in Mig : Freeze(m) \/ Wastes(m)) \/ (\E n \in Nodes : Loses(n))
        <4>1. \E n \in Nodes : Handing!Freeze(n) \/ Handing!End(n)
          BY <1>2, <2>2, <3>1, <3>2, FreezeStep
        <4>. QED  BY <4>1 DEF Handing!Next
      <3>3. ASSUME NEW n \in Nodes, Brings(n)  PROVE [Handing!Next]_(Handing!hvars)
        <4>1. Handing!Thaw(n)
          BY <1>2, <2>2, <3>1, <3>3, ThawStep
        <4>. QED  BY <4>1 DEF Handing!Next
      <3>4. CASE UNCHANGED <<live, ended>>
        <4>1. \/ \E n \in Nodes : Handing!Take(n)
              \/ Handing!Forget
              \/ UNCHANGED Handing!hvars
          BY <1>2, <2>2, <3>1, <3>4, TakeStep
        <4>. QED  BY <4>1 DEF Handing!Next
      <3>. QED  BY <1>2, <2>2, <3>1, <3>2, <3>3, <3>4, CopiesMoves
    <2>. QED  BY <2>1, <2>2
  <1>3. TypeOK /\ TypeOK' /\ WireInv /\ HostInv /\ ShipInv /\ (~rash => Claims) /\ (~rash => Chained)
           /\ [Next]_vars => [Handing!Next]_(Handing!hvars)
    BY <1>2
  <1>. QED  BY <1>1, <1>3, MigrationTypeCorrect, HostAlways, ShipAlways, ClaimAlways, ChainAlways, PTL
            DEF Spec, KeepsPromise, Handing!Spec

=============================================================================
