-------------------------- MODULE MigrationProofs --------------------------
(***************************************************************************)
(* What holds of Migration for any number of nodes and migrations, whatever *)
(* the operator does: the types, the state of the connections, where the    *)
(* content of an inbox comes from, and what a confirmation is worth.  What  *)
(* holds for an operator who looks first is in HandoverProofs.              *)
(***************************************************************************)
EXTENDS Migration, SequenceTheorems, TLAPS

(* The frames on their way in one direction. *)

Frames(q) == {q[i] : i \in 1 .. Len(q)}

\* What appending, reading and cutting a queue of frames does to them.
LEMMA FramesOf ==
    /\ Frames(<<>>) = {}
    /\ \A f \in Frame : <<f>> \in Seq(Frame) /\ Frames(<<f>>) = {f}
    /\ \A q \in Seq(Frame), f \in Frame :
          Append(q, f) \in Seq(Frame) /\ Frames(Append(q, f)) = Frames(q) \cup {f}
    /\ \A q \in Seq(Frame) : q # <<>> =>
          /\ Head(q) \in Frame /\ Head(q) \in Frames(q)
          /\ Tail(q) \in Seq(Frame) /\ Frames(Tail(q)) \subseteq Frames(q)
    /\ \A q \in Seq(Frame) : \A i \in 0 .. Len(q) :
          SubSeq(q, 1, i) \in Seq(Frame) /\ Frames(SubSeq(q, 1, i)) \subseteq Frames(q)
  <1>1. Frames(<<>>) = {}
    BY DEF Frames
  <1>2. \A f \in Frame : <<f>> \in Seq(Frame) /\ Frames(<<f>>) = {f}
    BY DEF Frames
  <1>3. \A q \in Seq(Frame), f \in Frame :
          Append(q, f) \in Seq(Frame) /\ Frames(Append(q, f)) = Frames(q) \cup {f}
    <2>. SUFFICES ASSUME NEW q \in Seq(Frame), NEW f \in Frame
                  PROVE  Append(q, f) \in Seq(Frame) /\ Frames(Append(q, f)) = Frames(q) \cup {f}
      OBVIOUS
    <2>1. /\ Append(q, f) \in Seq(Frame)
          /\ Len(Append(q, f)) = Len(q) + 1 /\ Len(q) \in Nat
          /\ \A i \in 1 .. Len(q) : Append(q, f)[i] = q[i]
          /\ Append(q, f)[Len(q) + 1] = f
      BY AppendProperties, LenProperties
    <2>. QED  BY <2>1 DEF Frames
  <1>4. \A q \in Seq(Frame) : q # <<>> =>
          /\ Head(q) \in Frame /\ Head(q) \in Frames(q)
          /\ Tail(q) \in Seq(Frame) /\ Frames(Tail(q)) \subseteq Frames(q)
    <2>. SUFFICES ASSUME NEW q \in Seq(Frame), q # <<>>
                  PROVE  /\ Head(q) \in Frame /\ Head(q) \in Frames(q)
                         /\ Tail(q) \in Seq(Frame) /\ Frames(Tail(q)) \subseteq Frames(q)
      OBVIOUS
    <2>1. /\ Len(q) \in Nat \ {0} /\ Head(q) = q[1] /\ Head(q) \in Frame
          /\ Tail(q) \in Seq(Frame) /\ Len(Tail(q)) = Len(q) - 1
          /\ \A i \in 1 .. Len(Tail(q)) : Tail(q)[i] = q[i + 1]
      BY HeadTailProperties, EmptySeq
    <2>. QED  BY <2>1 DEF Frames
  <1>5. \A q \in Seq(Frame) : \A i \in 0 .. Len(q) :
          SubSeq(q, 1, i) \in Seq(Frame) /\ Frames(SubSeq(q, 1, i)) \subseteq Frames(q)
    <2>. SUFFICES ASSUME NEW q \in Seq(Frame), NEW i \in 0 .. Len(q)
                  PROVE  /\ SubSeq(q, 1, i) \in Seq(Frame)
                         /\ Frames(SubSeq(q, 1, i)) \subseteq Frames(q)
      OBVIOUS
    <2>1. /\ SubSeq(q, 1, i) \in Seq(Frame)
          /\ Len(SubSeq(q, 1, i)) = i
          /\ \A j \in 1 .. i : SubSeq(q, 1, i)[j] = q[j]
      BY LenProperties, ElementOfSeq
    <2>. QED  BY <2>1, LenProperties DEF Frames
  <1>. QED  BY <1>1, <1>2, <1>3, <1>4, <1>5

(* The records that the actions edit. *)

FileState == [status : Status, snap : {"none", "own", "inbox"}]

\* Every edit of a record yields a record of the same type.
LEMMA FileEdit ==
    /\ \A s \in FileState, st \in Status : [s EXCEPT !.status = st] \in FileState
    /\ Frozen \in FileState /\ Adopted \in FileState
    /\ TypeOK => /\ file \in [Nodes -> FileState]
                 /\ \A n \in Nodes, st \in Status :
                       [file EXCEPT ![n].status = st] \in [Nodes -> FileState]
  <1>1. \A s \in FileState, st \in Status : [s EXCEPT !.status = st] \in FileState
    BY DEF FileState
  <1>2. Frozen \in FileState /\ Adopted \in FileState
    BY DEF FileState, Status, Frozen, Adopted
  <1>3. TypeOK => file \in [Nodes -> FileState]
    BY DEF TypeOK, FileState
  <1>. QED  BY <1>1, <1>2, <1>3

\* What the edits of a job return.
LEMMA JobEdit ==
    /\ NoJob \in Job
    /\ \A j \in Job :
          /\ j.from \in Nodes /\ j.to \in Nodes
          /\ j.crc \in Content /\ j.view \in Content /\ j.sent \in Nat
          /\ \A a, b \in Nodes : [j EXCEPT !.from = a, !.to = b] \in Job
          /\ \A a, b \in Nodes, p \in {"own", "inbox"} :
                [j EXCEPT !.from = a, !.to = b, !.path = p] \in Job
          /\ \A b \in Nodes : [j EXCEPT !.to = b] \in Job
          /\ \A c \in Content : [j EXCEPT !.crc = c] \in Job /\ [j EXCEPT !.view = c] \in Job
          /\ [j EXCEPT !.sent = j.sent + 1] \in Job
  <1>1. NoJob \in Job
    BY MigrationAssumption DEF NoJob, Job, Content
  <1>2. ASSUME NEW j \in Job
        PROVE  /\ j.from \in Nodes /\ j.to \in Nodes
               /\ j.crc \in Content /\ j.view \in Content /\ j.sent \in Nat
               /\ [j EXCEPT !.sent = j.sent + 1] \in Job
    BY <1>2 DEF Job
  <1>3. ASSUME NEW j \in Job, NEW a \in Nodes, NEW b \in Nodes, NEW p \in {"own", "inbox"}
        PROVE  /\ [j EXCEPT !.from = a, !.to = b] \in Job
               /\ [j EXCEPT !.from = a, !.to = b, !.path = p] \in Job
               /\ [j EXCEPT !.to = b] \in Job
    BY <1>3 DEF Job
  <1>4. ASSUME NEW j \in Job, NEW c \in Content
        PROVE  [j EXCEPT !.crc = c] \in Job /\ [j EXCEPT !.view = c] \in Job
    BY <1>4 DEF Job
  <1>. QED  BY <1>1, <1>2, <1>3, <1>4

\* An empty file is one.
LEMMA EmptyContent == <<>> \in Content
  BY EmptySeq DEF Content

\* What the edits of a receiver return.
LEMMA RxEdit ==
    /\ Listening \in Rx
    /\ TypeOK => \A n \in Nodes, p \in RxPc : [rx EXCEPT ![n].pc = p] \in [Nodes -> Rx]
    /\ \A r \in Rx :
          /\ r.crc \in Content /\ r.ok \in BOOLEAN /\ r.peer \in Mig \cup {None}
          /\ \A p \in RxPc :
                /\ [r EXCEPT !.pc = p] \in Rx
                /\ \A m \in Mig : [r EXCEPT !.pc = p, !.peer = m] \in Rx
                /\ \A c \in Content : [r EXCEPT !.pc = p, !.crc = c] \in Rx
                /\ [r EXCEPT !.pc = p, !.ok = TRUE] \in Rx
  <1>1. Listening \in Rx
    BY EmptyContent DEF Listening, Rx, RxPc
  <1>2. \A r \in Rx :
          /\ r.crc \in Content /\ r.ok \in BOOLEAN /\ r.peer \in Mig \cup {None}
          /\ \A p \in RxPc :
                /\ [r EXCEPT !.pc = p] \in Rx
                /\ \A m \in Mig : [r EXCEPT !.pc = p, !.peer = m] \in Rx
                /\ \A c \in Content : [r EXCEPT !.pc = p, !.crc = c] \in Rx
                /\ [r EXCEPT !.pc = p, !.ok = TRUE] \in Rx
    BY DEF Rx
  <1>3. TypeOK => rx \in [Nodes -> Rx]
    BY DEF TypeOK
  <1>. QED  BY <1>1, <1>2, <1>3

\* A frame has the fields it was made with.
LEMMA FrameType ==
    /\ \A t \in FrameTypes, data \in Content, n \in Nat, ok \in BOOLEAN :
          /\ MkFrame(t, data, n, ok) \in Frame
          /\ MkFrame(t, data, n, ok).t = t
          /\ MkFrame(t, data, n, ok).data = data
          /\ MkFrame(t, data, n, ok).ok = ok
    /\ \A f \in Frame : f.data \in Content /\ f.ok \in BOOLEAN
  BY DEF MkFrame, Frame

\* A snapshot of one freeze, whole or cut short, is a sequence of chunks.
LEMMA PackType ==
    ASSUME TypeOK, NEW len \in Nat
    PROVE  /\ [i \in 1 .. len |-> freezes] \in Content
           /\ len > 0 => /\ [i \in 1 .. len |-> freezes] # <<>>
                        /\ [i \in 1 .. len |-> freezes][1] = freezes
  <1>1. [i \in 1 .. len |-> freezes] \in [1 .. len -> Nat]
    BY DEF TypeOK
  <1>2. [i \in 1 .. len |-> freezes] \in Content
    BY <1>1, SeqDef DEF Content
  <1>. QED  BY <1>2 DEF Content

\* Returning, hanging up and sending keep the types of what they change.
LEMMA ReturnsType ==
    ASSUME TypeOK, NEW m \in Mig, Returns(m)
    PROVE  /\ pc' \in [Mig -> TxPc] /\ job' \in [Mig -> Job]
           /\ down' \in [Mig -> Seq(Frame)]
  <1>1. [NoJob EXCEPT !.from = job[m].from, !.to = job[m].to] \in Job
    BY JobEdit DEF TypeOK
  <1>. QED  BY <1>1 DEF TypeOK, Returns, TxPc

\* A receiver that hangs up leaves its state and the connection well-typed.
LEMMA HangsUpType ==
    ASSUME TypeOK, NEW n \in Nodes, HangsUp(n)
    PROVE  /\ rx' \in [Nodes -> Rx]
           /\ conn' \in [Mig -> {"none", "backlog", "serving", "over"}]
           /\ up' \in [Mig -> Seq(Frame)]
  <1>1. rx' \in [Nodes -> Rx]
    BY RxEdit DEF TypeOK, HangsUp
  <1>2. conn' \in [Mig -> {"none", "backlog", "serving", "over"}]
    BY DEF TypeOK, HangsUp
  <1>3. up' \in [Mig -> Seq(Frame)]
    BY EmptySeq DEF TypeOK, HangsUp
  <1>. QED  BY <1>1, <1>2, <1>3

\* And so does a frame that is sent.
LEMMA SentType ==
    ASSUME TypeOK, NEW m \in Mig, NEW f \in Frame
    PROVE  ToReceiver(m, f) \in [Mig -> Seq(Frame)] /\ ToSender(m, f) \in [Mig -> Seq(Frame)]
  BY FramesOf DEF TypeOK, ToReceiver, ToSender, Sent

\* A fault is one of the kinds there are.
LEMMA FaultType ==
    ASSUME TypeOK, NEW f, Fault(f) \/ UNCHANGED hits
    PROVE  hits' \in SUBSET FaultKinds
  BY MigrationAssumption DEF TypeOK, Fault

\* Reconciliation leaves a number of copies and a label.
LEMMA SweepType ==
    ASSUME TypeOK, NEW n \in Nodes
    PROVE  /\ Spared(n) \in Nat /\ Resolved(n) \in Status
           /\ Resolved(n) \in {file[n].status, "checkpointed", "failed"}
           /\ [live EXCEPT ![n] = Spared(n)] \in [Nodes -> Nat]
           /\ [live EXCEPT ![n] = Spared(n) + 1] \in [Nodes -> Nat]
           /\ Reaps(n) => ended' \in BOOLEAN /\ (ended => ended')
  <1>1. Spared(n) \in Nat
    BY DEF TypeOK, Spared
  <1>2. file[n].status \in Status
    BY DEF TypeOK
  <1>3. Resolved(n) \in {file[n].status, "checkpointed", "failed"}
    BY DEF Resolved
  <1>4. Resolved(n) \in Status
    BY <1>2, <1>3 DEF Status
  <1>5. Reaps(n) => ended' \in BOOLEAN /\ (ended => ended')
    BY DEF TypeOK, Reaps
  <1>. QED  BY <1>1, <1>3, <1>4, <1>5 DEF TypeOK

\* An operator or an engine is counted.
LEMMA ActsType ==
    ASSUME TypeOK
    PROVE  /\ \A n, looked, waited : Acts(n, looked, waited) => rash' \in BOOLEAN
           /\ Engine => restores' \in Nat
           /\ \A n \in Nodes : Restores(n) => rash' \in BOOLEAN /\ ended' \in BOOLEAN
  <1>1. \A n, looked, waited : Acts(n, looked, waited) => rash' \in BOOLEAN
    BY DEF TypeOK, Acts
  <1>2. Engine => restores' \in Nat
    BY DEF TypeOK, Engine
  <1>. QED  BY <1>1, <1>2, SweepType DEF Restores

\* What a checkpoint that came to nothing leaves.
LEMMA WastedType ==
    ASSUME TypeOK, NEW n \in Nodes, Freezable(n), Wasted(n)
    PROVE  /\ own' \in [Nodes -> Content] /\ torn' \in SUBSET Content /\ written' \in SUBSET Content
           /\ live' \in [Nodes -> Nat] /\ file' \in [Nodes -> FileState]
           /\ freezes' \in Nat /\ ended' \in BOOLEAN
  <1>1. \A size \in Lens : size \in Nat
    BY MigrationAssumption
  <1>2. own' \in [Nodes -> Content] /\ torn' \in SUBSET Content /\ written' \in SUBSET Content
    <2>1. CASE UNCHANGED <<own, torn, written>>
      BY <2>1 DEF TypeOK
    <2>2. ASSUME NEW len \in Nat,
                 own' = [own EXCEPT ![n] = [i \in 1 .. len |-> freezes]],
                 \/ torn' = torn \cup {[i \in 1 .. len |-> freezes]} /\ UNCHANGED written
                 \/ written' = written \cup {[i \in 1 .. len |-> freezes]} /\ UNCHANGED torn
          PROVE  own' \in [Nodes -> Content] /\ torn' \in SUBSET Content /\ written' \in SUBSET Content
      BY <2>2, PackType DEF TypeOK
    <2>3. \A size \in Lens : \A len \in 1 .. size - 1 : len \in Nat
      BY <1>1
    <2>. QED  BY <1>1, <2>1, <2>2, <2>3 DEF Wasted
  <1>3. file' \in [Nodes -> FileState]
    BY FileEdit DEF Wasted, Status
  <1>4. live' \in [Nodes -> Nat] /\ freezes' \in Nat
    BY DEF TypeOK, Wasted, Freezes, Freezable, Recorded
  <1>. QED  BY <1>2, <1>3, <1>4 DEF Wasted

-----------------------------------------------------------------------------
(* Types, and whom a receiver serves *)

\* A receiver that is at work serves one connection, made to its node.
Served ==
    \A n \in Nodes : rx[n].pc # "listen" =>
        /\ rx[n].peer \in Mig
        /\ conn[rx[n].peer] = "serving"
        /\ job[rx[n].peer].to = n

\* The operator and the migrate commands keep the types.
LEMMA TxTypeStep ==
    ASSUME TypeOK, Operate \/ \E m \in Mig : TxStep(m)
    PROVE  TypeOK'
  <1>. USE DEF disk, host, wire, count, history
  <1>1. ASSUME NEW m \in Mig, NEW n \in Nodes, NEW to \in Nodes, NEW existing \in BOOLEAN,
               Migrate(m, n, to, existing)
        PROVE  TypeOK'
    <2>1. existing => file[n].snap \in {"own", "inbox"}
      BY <1>1 DEF TypeOK, Migrate, Snapshot
    <2>2. job' \in [Mig -> Job] /\ pc' \in [Mig -> TxPc]
      BY <1>1, <2>1, JobEdit DEF TypeOK, Migrate, TxPc
    <2>3. rash' \in BOOLEAN
      BY <1>1, ActsType DEF Migrate
    <2>. QED  BY <1>1, <2>2, <2>3 DEF TypeOK, Migrate
  <1>17. ASSUME NEW n \in Nodes, Sweep(n)
        PROVE  TypeOK'
    <2>1. file' \in [Nodes -> FileState]
      BY <1>17, FileEdit, SweepType DEF Sweep
    <2>2. rash' \in BOOLEAN /\ ended' \in BOOLEAN /\ live' \in [Nodes -> Nat]
      BY <1>17, ActsType, SweepType DEF Sweep
    <2>. QED  BY <1>17, <2>1, <2>2 DEF TypeOK, FileState, Sweep
  <1>2. ASSUME NEW n \in Nodes, Restore(n)
        PROVE  TypeOK'
    <2>1. file' \in [Nodes -> FileState]
      BY <1>2, FileEdit DEF Restore, Status
    <2>2. rash' \in BOOLEAN /\ ended' \in BOOLEAN /\ restores' \in Nat
      BY <1>2, ActsType DEF Restore
    <2>3. live' \in [Nodes -> Nat] /\ hidden' \in [Nodes -> Nat]
      BY <1>2, SweepType DEF TypeOK, Restore
    <2>. QED  BY <1>2, <2>1, <2>2, <2>3 DEF TypeOK, FileState, Restore
  <1>3. ASSUME NEW n \in Nodes, RestoreFail(n)
        PROVE  TypeOK'
    <2>1. file' \in [Nodes -> FileState]
      <3>1. PICK st \in {"restoring", "checkpointed"} : file' = [file EXCEPT ![n].status = st]
        BY <1>3 DEF RestoreFail
      <3>2. st \in Status
        BY DEF Status
      <3>. QED  BY <3>1, <3>2, FileEdit
    <2>2. rash' \in BOOLEAN /\ ended' \in BOOLEAN /\ hits' \in SUBSET FaultKinds
      BY <1>3, ActsType, FaultType DEF RestoreFail
    <2>3. live' \in [Nodes -> Nat]
      BY <1>3, SweepType DEF RestoreFail
    <2>. QED  BY <1>3, <2>1, <2>2, <2>3 DEF TypeOK, FileState, RestoreFail
  <1>18. ASSUME NEW n \in Nodes, RestoreBlind(n)
        PROVE  TypeOK'
    <2>1. file' \in [Nodes -> FileState]
      BY <1>18, FileEdit DEF RestoreBlind, Status
    <2>2. rash' \in BOOLEAN /\ ended' \in BOOLEAN /\ restores' \in Nat /\ hits' \in SUBSET FaultKinds
      BY <1>18, ActsType, FaultType DEF RestoreBlind
    <2>3. live' \in [Nodes -> Nat] /\ hidden' \in [Nodes -> Nat]
      BY <1>18, SweepType DEF TypeOK, RestoreBlind
    <2>. QED  BY <1>18, <2>1, <2>2, <2>3 DEF TypeOK, FileState, RestoreBlind
  <1>19. ASSUME NEW n \in Nodes, RestoreKilled(n)
        PROVE  TypeOK'
    <2>1. file' \in [Nodes -> FileState]
      BY <1>19, FileEdit DEF RestoreKilled, Status
    <2>2. rash' \in BOOLEAN /\ ended' \in BOOLEAN /\ hits' \in SUBSET FaultKinds
      BY <1>19, ActsType, FaultType DEF RestoreKilled
    <2>3. live' \in [Nodes -> Nat]
      BY <1>19, SweepType DEF RestoreKilled
    <2>4. engines' \in [Nodes -> Nat] /\ restores' \in Nat
      <3>1. CASE UNCHANGED <<restores, engines>>
        BY <3>1 DEF TypeOK
      <3>2. CASE Engine /\ engines' = [engines EXCEPT ![n] = @ + 1]
        <4>1. restores' \in Nat
          BY <3>2, ActsType
        <4>. QED  BY <3>2, <4>1 DEF TypeOK
      <3>. QED  BY <1>19, <3>1, <3>2 DEF RestoreKilled
    <2>. QED  BY <1>19, <2>1, <2>2, <2>3, <2>4 DEF TypeOK, FileState, RestoreKilled
  <1>4. ASSUME NEW m \in Mig, Freeze(m)
        PROVE  TypeOK'
    <2>. DEFINE n == job[m].from
    <2>1. n \in Nodes /\ \A len \in Lens : len \in Nat
      BY JobEdit, MigrationAssumption DEF TypeOK
    <2>2. own' \in [Nodes -> Content] /\ written' \in SUBSET Content
      BY <1>4, <2>1, PackType DEF TypeOK, Freeze
    <2>3. file' \in [Nodes -> FileState]
      BY <1>4, <2>1, FileEdit DEF Freeze
    <2>4. live' \in [Nodes -> Nat] /\ freezes' \in Nat /\ pc' \in [Mig -> TxPc]
      BY <1>4, <2>1 DEF TypeOK, Freeze, Freezes, Freezable, Recorded, TxPc
    <2>. QED  BY <1>4, <2>2, <2>3, <2>4 DEF TypeOK, FileState, Freeze
  <1>5. ASSUME NEW m \in Mig, PackFail(m)
        PROVE  TypeOK'
    <2>1. job[m].from \in Nodes
      BY JobEdit DEF TypeOK
    <2>2. hits' \in SUBSET FaultKinds
      BY <1>5, FaultType DEF PackFail
    <2>. QED  BY <1>5, <2>1, <2>2, WastedType, ReturnsType DEF TypeOK, FileState, PackFail
  <1>6. ASSUME NEW m \in Mig, FreezeFail(m)
        PROVE  TypeOK'
    <2>. DEFINE n == job[m].from
    <2>0. n \in Nodes
      BY JobEdit DEF TypeOK
    <2>1. hits' \in SUBSET FaultKinds /\ ended' \in BOOLEAN
      BY <1>6, FaultType DEF TypeOK, FreezeFail
    <2>2. file' \in [Nodes -> FileState]
      <3>1. \/ UNCHANGED file
            \/ \E st \in {"failed", "checkpointing"} : file' = [file EXCEPT ![n].status = st]
        BY <1>6 DEF FreezeFail
      <3>2. {"failed", "checkpointing"} \subseteq Status
        BY DEF Status
      <3>. QED  BY <2>0, <3>1, <3>2, FileEdit
    <2>3. live' \in [Nodes -> Nat]
      <3>1. UNCHANGED live \/ (Freezable(n) /\ live' = Freezes(n))
        BY <1>6 DEF FreezeFail
      <3>. HIDE DEF n
      <3>2. Freezable(n) => Freezes(n) \in [Nodes -> Nat]
        BY <2>0 DEF TypeOK, Freezes, Freezable, Recorded
      <3>3. live \in [Nodes -> Nat]
        BY DEF TypeOK
      <3>. QED  BY <3>1, <3>2, <3>3
    <2>. QED  BY <1>6, <2>1, <2>2, <2>3, ReturnsType DEF TypeOK, FileState, FreezeFail
  <1>7. ASSUME NEW m \in Mig, Hash(m)
        PROVE  TypeOK'
    <2>1. job' \in [Mig -> Job] /\ pc' \in [Mig -> TxPc]
      BY <1>7, JobEdit DEF TypeOK, Hash, TxPc
    <2>. QED  BY <1>7, <2>1 DEF TypeOK, Hash
  <1>8. ASSUME NEW m \in Mig, Connect(m)
        PROVE  TypeOK'
    <2>1. job[m].crc \in Content
      BY JobEdit DEF TypeOK
    <2>3. Len(job[m].crc) \in Nat
      BY <2>1 DEF Content
    <2>2. up' \in [Mig -> Seq(Frame)]
      BY <1>8, <2>1, <2>3, FrameType, FramesOf DEF TypeOK, Connect, FrameTypes
    <2>. QED  BY <1>8, <2>2 DEF TypeOK, Connect, TxPc
  <1>9. ASSUME NEW m \in Mig, ConnectFail(m)
        PROVE  TypeOK'
    <2>1. hits' \in SUBSET FaultKinds
      BY <1>9, FaultType DEF ConnectFail
    <2>. QED  BY <1>9, <2>1, ReturnsType DEF TypeOK, ConnectFail
  <1>10. ASSUME NEW m \in Mig, ReadAck(m)
        PROVE  TypeOK'
    <2>1. job' \in [Mig -> Job] /\ pc' \in [Mig -> TxPc] /\ down' \in [Mig -> Seq(Frame)]
      <3>1. CASE Returns(m)  BY <3>1, ReturnsType
      <3>2. CASE ~Returns(m)
        <4>1. [job[m] EXCEPT !.view = inbox[job[m].from]] \in Job
          BY JobEdit DEF TypeOK
        <4>2. Tail(down[m]) \in Seq(Frame)
          BY <1>10, FramesOf DEF TypeOK, ReadAck
        <4>. QED  BY <1>10, <3>2, <4>1, <4>2 DEF TypeOK, ReadAck, TxPc
      <3>. QED  BY <3>1, <3>2
    <2>. QED  BY <1>10, <2>1 DEF TypeOK, ReadAck
  <1>11. ASSUME NEW m \in Mig, Stream(m)
        PROVE  TypeOK'
    <2>. DEFINE next == Streamed(m)[job[m].sent + 1]
    <2>1. Streamed(m) \in Content /\ job[m].sent \in Nat
      BY JobEdit DEF TypeOK, Streamed
    <2>2. next \in Nat
      BY <1>11, <2>1, LenProperties, ElementOfSeq DEF Stream, Content
    <2>. HIDE DEF next
    <2>3. <<next>> \in Content
      BY <2>2 DEF Content
    <2>4. up' \in [Mig -> Seq(Frame)]
      BY <1>11, <2>3, SentType, FrameType DEF Stream, FrameTypes, next
    <2>5. job' \in [Mig -> Job]
      BY <1>11, JobEdit DEF TypeOK, Stream
    <2>. QED  BY <1>11, <2>4, <2>5 DEF TypeOK, Stream
  <1>12. ASSUME NEW m \in Mig, StreamEnd(m)
        PROVE  TypeOK'
    <2>1. job[m].crc \in Content /\ job[m].sent \in Nat
      BY JobEdit DEF TypeOK
    <2>2. up' \in [Mig -> Seq(Frame)]
      <3>1. MkFrame("eof", job[m].crc, job[m].sent, TRUE) \in Frame
        BY <2>1, FrameType DEF FrameTypes
      <3>2. up' = up \/ up' = ToReceiver(m, MkFrame("eof", job[m].crc, job[m].sent, TRUE))
        BY <1>12 DEF StreamEnd
      <3>3. ToReceiver(m, MkFrame("eof", job[m].crc, job[m].sent, TRUE)) \in [Mig -> Seq(Frame)]
        BY <3>1, SentType
      <3>4. up \in [Mig -> Seq(Frame)]
        BY DEF TypeOK
      <3>. QED  BY <3>2, <3>3, <3>4
    <2>3. job' \in [Mig -> Job] /\ pc' \in [Mig -> TxPc] /\ down' \in [Mig -> Seq(Frame)]
      BY <1>12, ReturnsType DEF TypeOK, StreamEnd, TxPc
    <2>. QED  BY <1>12, <2>2, <2>3 DEF TypeOK, StreamEnd
  <1>13. ASSUME NEW m \in Mig, StreamFail(m)
        PROVE  TypeOK'
    BY <1>13, ReturnsType DEF TypeOK, StreamFail
  <1>14. ASSUME NEW m \in Mig, ReadResult(m)
        PROVE  TypeOK'
    <2>1. job' \in [Mig -> Job] /\ pc' \in [Mig -> TxPc] /\ down' \in [Mig -> Seq(Frame)]
      <3>1. CASE Returns(m)  BY <3>1, ReturnsType
      <3>2. CASE ~Returns(m)
        <4>1. Tail(down[m]) \in Seq(Frame)
          BY <1>14, FramesOf DEF TypeOK, ReadResult
        <4>. QED  BY <1>14, <3>2, <4>1, ZenonT(60) DEF TypeOK, ReadResult, TxPc
      <3>. QED  BY <3>1, <3>2
    <2>. QED  BY <1>14, <2>1 DEF TypeOK, ReadResult
  <1>15. ASSUME NEW m \in Mig, GiveUp(m)
        PROVE  TypeOK'
    <2>1. hits' \in SUBSET FaultKinds
      BY <1>15, FaultType DEF GiveUp, DeadRead
    <2>. QED  BY <1>15, <2>1, ReturnsType DEF TypeOK, GiveUp
  <1>16. ASSUME NEW m \in Mig, Release(m)
        PROVE  TypeOK'
    <2>1. file' \in [Nodes -> FileState]
      <3>1. job[m].from \in Nodes
        BY JobEdit DEF TypeOK
      <3>. QED  BY <1>16, <3>1, FileEdit, ZenonT(60) DEF Release, Status
    <2>2. hidden' \in [Nodes -> Nat]
      BY <1>16 DEF TypeOK, Release
    <2>. QED  BY <1>16, <2>1, <2>2, ReturnsType DEF TypeOK, FileState, Release
  <1>. QED
    BY <1>1, <1>2, <1>3, <1>4, <1>5, <1>6, <1>7, <1>8, <1>9, <1>10, <1>11, <1>12, <1>13,
       <1>14, <1>15, <1>16, <1>17, <1>18, <1>19
    DEF Operate, TxStep

\* So do the receivers, and what happens to them all.
LEMMA RxTypeStep ==
    ASSUME TypeOK, Served, (\E n \in Nodes : RxStep(n)) \/ Environment
    PROVE  TypeOK'
  <1>. USE DEF disk, host, wire, count, history
  <1>1. ASSUME NEW n \in Nodes, NEW m \in Mig, Accept(n, m)
        PROVE  TypeOK'
    <2>1. [Listening EXCEPT !.pc = "hello", !.peer = m] \in Rx
      BY RxEdit DEF RxPc
    <2>. QED  BY <1>1, <2>1 DEF TypeOK, Accept
  <1>2. ASSUME NEW n \in Nodes, ReadHello(n)
        PROVE  TypeOK'
    <2>. DEFINE m == rx[n].peer
    <2>1. m \in Mig /\ Head(up[m]) \in Frame /\ Tail(up[m]) \in Seq(Frame)
      BY <1>2, FramesOf DEF TypeOK, Served, ReadHello
    <2>2. down' \in [Mig -> Seq(Frame)]
      <3>1. \A b \in BOOLEAN : MkFrame("ack", <<>>, 0, b) \in Frame
        BY FrameType, EmptyContent DEF FrameTypes
      <3>2. \A b \in BOOLEAN : ToSender(m, MkFrame("ack", <<>>, 0, b)) \in [Mig -> Seq(Frame)]
        BY <2>1, <3>1, SentType
      <3>. QED  BY <1>2, <3>2 DEF TypeOK, ReadHello
    <2>3. part' \in [Nodes -> Content]
      BY <1>2, EmptyContent, ZenonT(60) DEF TypeOK, ReadHello
    <2>4. rx' \in [Nodes -> Rx]
      <3>1. CASE HangsUp(n)  BY <3>1, HangsUpType
      <3>2. CASE rx' = [rx EXCEPT ![n].pc = "recv", ![n].crc = Head(up[m]).data]
        <4>1. [rx[n] EXCEPT !.pc = "recv", !.crc = Head(up[m]).data] \in Rx
          BY <2>1, RxEdit, FrameType, ZenonT(60) DEF TypeOK, RxPc
        <4>. QED  BY <3>2, <4>1 DEF TypeOK
      <3>. QED  BY <1>2, <3>1, <3>2 DEF ReadHello
    <2>5. /\ up' \in [Mig -> Seq(Frame)]
          /\ conn' \in [Mig -> {"none", "backlog", "serving", "over"}]
      <3>1. CASE HangsUp(n)  BY <3>1, HangsUpType
      <3>2. CASE up' = [up EXCEPT ![m] = Tail(@)] /\ UNCHANGED conn
        BY <2>1, <3>2 DEF TypeOK
      <3>. QED  BY <1>2, <3>1, <3>2 DEF ReadHello
    <2>6. hits' \in SUBSET FaultKinds
      BY <1>2, FaultType DEF ReadHello
    <2>. QED  BY <1>2, <2>2, <2>3, <2>4, <2>5, <2>6 DEF TypeOK, ReadHello
  <1>3. ASSUME NEW n \in Nodes, ReadChunk(n)
        PROVE  TypeOK'
    <2>. DEFINE m == rx[n].peer
    <2>1. m \in Mig /\ Head(up[m]) \in Frame /\ Tail(up[m]) \in Seq(Frame)
      BY <1>3, FramesOf DEF TypeOK, Served, ReadChunk
    <2>2. <<>> \in Content /\ part[n] \o Head(up[m]).data \in Content
      BY <2>1, FrameType, ConcatProperties, EmptySeq DEF TypeOK, Content
    <2>3. part' \in [Nodes -> Content]
      BY <1>3, <2>2 DEF TypeOK, ReadChunk
    <2>4. /\ rx' \in [Nodes -> Rx] /\ up' \in [Mig -> Seq(Frame)]
          /\ conn' \in [Mig -> {"none", "backlog", "serving", "over"}]
      <3>1. CASE HangsUp(n)  BY <3>1, HangsUpType
      <3>2. CASE up' = [up EXCEPT ![m] = Tail(@)] /\ UNCHANGED <<rx, conn>>
        BY <2>1, <3>2 DEF TypeOK
      <3>. QED  BY <1>3, <3>1, <3>2 DEF ReadChunk
    <2>. QED  BY <1>3, <2>3, <2>4 DEF TypeOK, ReadChunk
  <1>4. ASSUME NEW n \in Nodes, ReadEof(n)
        PROVE  TypeOK'
    <2>. DEFINE m == rx[n].peer
    <2>1. m \in Mig /\ Tail(up[m]) \in Seq(Frame)
      BY <1>4, FramesOf DEF TypeOK, Served, ReadEof
    <2>2. down' \in [Mig -> Seq(Frame)]
      <3>1. MkFrame("error", <<>>, 0, FALSE) \in Frame
        BY FrameType, EmptyContent DEF FrameTypes
      <3>2. ToSender(m, MkFrame("error", <<>>, 0, FALSE)) \in [Mig -> Seq(Frame)]
        BY <2>1, <3>1, SentType
      <3>. QED  BY <1>4, <3>2 DEF TypeOK, ReadEof
    <2>3. part' \in [Nodes -> Content]
      BY <1>4, EmptyContent DEF TypeOK, ReadEof
    <2>4. /\ rx' \in [Nodes -> Rx] /\ up' \in [Mig -> Seq(Frame)]
          /\ conn' \in [Mig -> {"none", "backlog", "serving", "over"}]
      <3>1. CASE HangsUp(n)  BY <3>1, HangsUpType
      <3>2. CASE /\ rx' = [rx EXCEPT ![n].pc = "commit"]
                 /\ up' = [up EXCEPT ![m] = Tail(@)] /\ UNCHANGED conn
        <4>1. [rx[n] EXCEPT !.pc = "commit"] \in Rx
          BY RxEdit DEF TypeOK, RxPc
        <4>. QED  BY <2>1, <3>2, <4>1 DEF TypeOK
      <3>. QED  BY <1>4, <3>1, <3>2 DEF ReadEof
    <2>. QED  BY <1>4, <2>2, <2>3, <2>4 DEF TypeOK, ReadEof
  <1>5. ASSUME NEW n \in Nodes, RxGiveUp(n)
        PROVE  TypeOK'
    <2>1. hits' \in SUBSET FaultKinds
      BY <1>5, FaultType DEF RxGiveUp, DeadRead
    <2>. QED  BY <1>5, <2>1, HangsUpType DEF TypeOK, RxGiveUp
  <1>6. ASSUME NEW n \in Nodes, RxCommit(n)
        PROVE  TypeOK'
    <2>1. rx' \in [Nodes -> Rx]
      BY <1>6, RxEdit DEF RxCommit, RxPc
    <2>2. part' \in [Nodes -> Content] /\ inbox' \in [Nodes -> Content]
      BY <1>6, EmptyContent DEF TypeOK, RxCommit
    <2>. QED  BY <1>6, <2>1, <2>2 DEF TypeOK, RxCommit
  <1>7. ASSUME NEW n \in Nodes, Adopt(n)
        PROVE  TypeOK'
    <2>1. rx' \in [Nodes -> Rx]
      BY <1>7, RxEdit, ZenonT(60) DEF Adopt, RxPc
    <2>2. file' \in [Nodes -> FileState]
      BY <1>7, FileEdit DEF Adopt
    <2>3. hidden' \in [Nodes -> Nat]
      BY <1>7 DEF TypeOK, Adopt
    <2>. QED  BY <1>7, <2>1, <2>2, <2>3 DEF TypeOK, FileState, Adopt
  <1>8. ASSUME NEW n \in Nodes, RxRestore(n)
        PROVE  TypeOK'
    <2>1. rx' \in [Nodes -> Rx]
      <3>1. PICK p \in {"build", "reply"} : rx' = [rx EXCEPT ![n].pc = p]
        BY <1>8 DEF RxRestore
      <3>2. p \in RxPc
        BY DEF RxPc
      <3>. QED  BY <3>1, <3>2, RxEdit
    <2>2. file' \in [Nodes -> FileState]
      <3>1. \/ file' = [file EXCEPT ![n].status = "restoring"]
            \/ file' = [file EXCEPT ![n].status = Resolved(n)]
        BY <1>8 DEF RxRestore
      <3>2. "restoring" \in Status
        BY DEF Status
      <3>. QED  BY <3>1, <3>2, SweepType, FileEdit
    <2>3. hits' \in SUBSET FaultKinds
      BY <1>8, FaultType DEF RxRestore
    <2>4. live' \in [Nodes -> Nat] /\ ended' \in BOOLEAN
      BY <1>8, SweepType DEF RxRestore
    <2>. QED  BY <1>8, <2>1, <2>2, <2>3, <2>4 DEF TypeOK, FileState, RxRestore
  <1>9. ASSUME NEW n \in Nodes, RxBuild(n)
        PROVE  TypeOK'
    <2>1. rx' \in [Nodes -> Rx]
      BY <1>9, RxEdit DEF TypeOK, RxBuild, RxPc
    <2>2. file' \in [Nodes -> FileState]
      BY <1>9, FileEdit DEF RxBuild, Built, Status
    <2>3. /\ live' \in [Nodes -> Nat] /\ hidden' \in [Nodes -> Nat]
          /\ restores' \in Nat /\ landed' \in SUBSET Mig
      BY <1>9, ActsType DEF TypeOK, RxBuild, Served
    <2>. QED  BY <1>9, <2>1, <2>2, <2>3 DEF TypeOK, FileState, RxBuild
  <1>10. ASSUME NEW n \in Nodes, RxBuildFail(n)
        PROVE  TypeOK'
    <2>1. rx' \in [Nodes -> Rx]
      BY <1>10, RxEdit DEF RxBuildFail, RxPc
    <2>2. file' \in [Nodes -> FileState]
      BY <1>10, FileEdit DEF RxBuildFail, Status
    <2>3. hits' \in SUBSET FaultKinds
      BY <1>10, FaultType DEF RxBuildFail
    <2>. QED  BY <1>10, <2>1, <2>2, <2>3 DEF TypeOK, FileState, RxBuildFail
  <1>17. ASSUME NEW n \in Nodes, RxBuildBlind(n)
        PROVE  TypeOK'
    <2>1. rx' \in [Nodes -> Rx]
      BY <1>17, RxEdit DEF RxBuildBlind, RxPc
    <2>2. file' \in [Nodes -> FileState]
      BY <1>17, FileEdit DEF RxBuildBlind, Status
    <2>3. restores' \in Nat /\ hits' \in SUBSET FaultKinds
      BY <1>17, ActsType, FaultType DEF TypeOK, RxBuildBlind
    <2>4. live' \in [Nodes -> Nat] /\ hidden' \in [Nodes -> Nat]
      BY <1>17 DEF TypeOK, RxBuildBlind
    <2>. QED  BY <1>17, <2>1, <2>2, <2>3, <2>4 DEF TypeOK, FileState, RxBuildBlind
  <1>11. ASSUME NEW n \in Nodes, Reply(n)
        PROVE  TypeOK'
    <2>0. rx[n].ok \in BOOLEAN
      BY RxEdit DEF TypeOK
    <2>1. MkFrame("result", <<>>, 0, rx[n].ok) \in Frame
      BY <2>0, FrameType, EmptyContent DEF FrameTypes
    <2>2. down' \in [Mig -> Seq(Frame)]
      BY <1>11, <2>1, SentType DEF Reply, Served
    <2>. QED  BY <1>11, <2>2, HangsUpType DEF TypeOK, Reply
  <1>12. ASSUME NEW m \in Mig, Cut(m)
        PROVE  TypeOK'
    <2>1. up' \in [Mig -> Seq(Frame)] /\ down' \in [Mig -> Seq(Frame)]
      BY <1>12, FramesOf DEF TypeOK, Cut
    <2>2. hits' \in SUBSET FaultKinds
      BY <1>12, FaultType DEF Cut
    <2>. QED  BY <1>12, <2>1, <2>2 DEF TypeOK, Cut
  <1>13. ASSUME NEW m \in Mig, KillSender(m)
        PROVE  TypeOK'
    <2>1. hits' \in SUBSET FaultKinds
      BY <1>13, FaultType DEF KillSender
    <2>. QED  BY <1>13, <2>1, ReturnsType DEF TypeOK, KillSender
  <1>18. ASSUME NEW m \in Mig, KillFreeze(m)
        PROVE  TypeOK'
    <2>. DEFINE n == job[m].from
    <2>0. n \in Nodes
      BY JobEdit DEF TypeOK
    <2>1. hits' \in SUBSET FaultKinds
      BY <1>18, FaultType DEF KillFreeze
    <2>2. /\ own' \in [Nodes -> Content] /\ torn' \in SUBSET Content /\ written' \in SUBSET Content
          /\ live' \in [Nodes -> Nat] /\ file' \in [Nodes -> FileState]
          /\ freezes' \in Nat /\ ended' \in BOOLEAN
      <3>1. CASE Freezable(n) /\ Wasted(n)
        BY <2>0, <3>1, WastedType
      <3>2. CASE /\ UNCHANGED file \/ file' = [file EXCEPT ![n].status = "checkpointing"]
                 /\ UNCHANGED <<own, live, freezes, written, torn, ended>>
        <4>1. "checkpointing" \in Status
          BY DEF Status
        <4>2. file' \in [Nodes -> FileState]
          BY <2>0, <3>2, <4>1, FileEdit
        <4>. QED  BY <3>2, <4>2 DEF TypeOK
      <3>. QED  BY <1>18, <3>1, <3>2 DEF KillFreeze
    <2>. QED  BY <1>18, <2>1, <2>2, ReturnsType DEF TypeOK, FileState, KillFreeze
  <1>14. ASSUME NEW m \in Mig, NEW n \in Nodes, Stray(m, n)
        PROVE  TypeOK'
    <2>1. MkFrame("junk", <<>>, 0, FALSE) \in Frame
      BY FrameType, EmptyContent DEF FrameTypes
    <2>2. up' \in [Mig -> Seq(Frame)]
      BY <1>14, <2>1, FramesOf DEF TypeOK, Stray
    <2>3. job' \in [Mig -> Job] /\ pc' \in [Mig -> TxPc]
      BY <1>14, JobEdit DEF TypeOK, Stray, TxPc
    <2>4. hits' \in SUBSET FaultKinds
      BY <1>14, FaultType DEF Stray
    <2>. QED  BY <1>14, <2>2, <2>3, <2>4 DEF TypeOK, Stray
  <1>15. ASSUME NEW n \in Nodes, KillReceiver(n)
        PROVE  TypeOK'
    <2>1. engines' \in [Nodes -> Nat] /\ restores' \in Nat
      <3>1. CASE UNCHANGED <<engines, restores>>
        BY <3>1 DEF TypeOK
      <3>2. CASE engines' = [engines EXCEPT ![n] = @ + 1] /\ Engine
        BY <3>2, ActsType DEF TypeOK
      <3>. QED  BY <1>15, <3>1, <3>2 DEF KillReceiver
    <2>2. hits' \in SUBSET FaultKinds
      BY <1>15, FaultType DEF KillReceiver
    <2>. QED  BY <1>15, <2>1, <2>2, HangsUpType DEF TypeOK, KillReceiver
  <1>16. ASSUME NEW n \in Nodes, Exit(n)
        PROVE  TypeOK'
    <2>1. live' \in [Nodes -> Nat] /\ hidden' \in [Nodes -> Nat] /\ ended' \in BOOLEAN
      BY <1>16 DEF TypeOK, Exit
    <2>. QED  BY <1>16, <2>1 DEF TypeOK, Exit
  <1>19. ASSUME NEW n \in Nodes, OrphanEngine(n)
        PROVE  TypeOK'
    <2>1. live' \in [Nodes -> Nat] /\ hidden' \in [Nodes -> Nat] /\ engines' \in [Nodes -> Nat]
      BY <1>19 DEF TypeOK, OrphanEngine
    <2>. QED  BY <1>19, <2>1 DEF TypeOK, OrphanEngine
  <1>. QED
    BY <1>1, <1>2, <1>3, <1>4, <1>5, <1>6, <1>7, <1>8, <1>9, <1>10, <1>11, <1>12, <1>13,
       <1>14, <1>15, <1>16, <1>17, <1>18, <1>19
    DEF RxStep, Environment

\* No step takes a variable out of its type.
LEMMA MigrationTypeStep ==
    ASSUME TypeOK, Served, [Next]_vars
    PROVE  TypeOK'
  <1>1. CASE UNCHANGED vars
    BY <1>1 DEF TypeOK, vars, disk, host, wire, count, history
  <1>. QED  BY <1>1, TxTypeStep, RxTypeStep DEF Next

-----------------------------------------------------------------------------
(* What the helpers do, and the kinds of steps there are for the connections *)

\* Returning touches nobody else's command, and keeps the two nodes in mind.
LEMMA ReturnsEffect ==
    ASSUME TypeOK, NEW m \in Mig, Returns(m)
    PROVE  /\ pc'[m] = "done" /\ down'[m] = <<>>
           /\ job'[m].from = job[m].from /\ job'[m].to = job[m].to
           /\ \A o \in Mig \ {m} : pc'[o] = pc[o] /\ job'[o] = job[o] /\ down'[o] = down[o]
  <1>1. \A j \in Job : \A a, b \in Nodes :
          [j EXCEPT !.from = a, !.to = b].from = a /\ [j EXCEPT !.from = a, !.to = b].to = b
    BY DEF Job
  <1>2. job'[m] = [NoJob EXCEPT !.from = job[m].from, !.to = job[m].to]
    BY DEF TypeOK, Returns
  <1>3. job'[m].from = job[m].from /\ job'[m].to = job[m].to
    <2>1. job[m].from \in Nodes /\ job[m].to \in Nodes
      BY JobEdit DEF TypeOK
    <2>2. NoJob \in Job
      BY JobEdit
    <2>. QED  BY <1>1, <1>2, <2>1, <2>2
  <1>. QED  BY <1>3 DEF TypeOK, Returns

\* Hanging up touches no other receiver and no other connection.
LEMMA HangsUpEffect ==
    ASSUME TypeOK, NEW n \in Nodes, rx[n].peer \in Mig, HangsUp(n)
    PROVE  /\ rx'[n] = Listening
           /\ conn'[rx[n].peer] = "over" /\ up'[rx[n].peer] = <<>>
           /\ \A o \in Nodes \ {n} : rx'[o] = rx[o]
           /\ \A o \in Mig \ {rx[n].peer} : conn'[o] = conn[o] /\ up'[o] = up[o]
  BY DEF TypeOK, HangsUp

\* A new command has the locals it was given.
LEMMA MigrateEffect ==
    ASSUME TypeOK, NEW m \in Mig, NEW n \in Nodes, NEW to \in Nodes, NEW existing \in BOOLEAN,
           Migrate(m, n, to, existing)
    PROVE  /\ job'[m].from = n /\ job'[m].to = to
           /\ existing => job'[m].path = file[n].snap /\ file[n].snap \in {"own", "inbox"}
           /\ ~existing => job'[m].path = "own"
           /\ \A o \in Mig \ {m} : pc'[o] = pc[o] /\ job'[o] = job[o]
  <1>. DEFINE p == IF existing THEN file[n].snap ELSE "own"
  <1>1. p \in {"own", "inbox"}
    BY DEF TypeOK, Migrate, Snapshot
  <1>. HIDE DEF p
  <1>2. \A j \in Job :
          /\ [j EXCEPT !.from = n, !.to = to, !.path = p].from = n
          /\ [j EXCEPT !.from = n, !.to = to, !.path = p].to = to
          /\ [j EXCEPT !.from = n, !.to = to, !.path = p].path = p
    BY DEF Job
  <1>3. job'[m] = [NoJob EXCEPT !.from = n, !.to = to, !.path = p]
    BY DEF TypeOK, Migrate, p
  <1>4. job'[m].from = n /\ job'[m].to = to /\ job'[m].path = p
    BY <1>2, <1>3, JobEdit
  <1>5. \A o \in Mig \ {m} : pc'[o] = pc[o] /\ job'[o] = job[o]
    BY DEF TypeOK, Migrate
  <1>. QED  BY <1>1, <1>4, <1>5 DEF p

\* A frame that is sent arrives at the end of the queue, or nowhere.
LEMMA SentEffect ==
    ASSUME TypeOK, NEW m \in Mig, NEW f
    PROVE  /\ ToReceiver(m, f)[m] = up[m] \/ ToReceiver(m, f)[m] = Append(up[m], f)
           /\ conn[m] = "over" => ToReceiver(m, f)[m] = up[m]
           /\ ToSender(m, f)[m] = down[m] \/ ToSender(m, f)[m] = Append(down[m], f)
           /\ \A o \in Mig \ {m} : ToReceiver(m, f)[o] = up[o] /\ ToSender(m, f)[o] = down[o]
  BY DEF TypeOK, ToReceiver, ToSender, Sent

\* The next chunk of the file is a frame.
LEMMA ChunkFrame ==
    ASSUME TypeOK, NEW m \in Mig, job[m].sent < Len(Streamed(m))
    PROVE  LET f == MkFrame("chunk", <<Streamed(m)[job[m].sent + 1]>>, 1, TRUE)
           IN  f \in Frame /\ f.t = "chunk"
  <1>. DEFINE next == Streamed(m)[job[m].sent + 1]
  <1>1. Streamed(m) \in Content /\ job[m].sent \in Nat
    BY JobEdit DEF TypeOK, Streamed
  <1>2. next \in Nat
    BY <1>1, LenProperties, ElementOfSeq DEF Content
  <1>. HIDE DEF next
  <1>3. <<next>> \in Content
    BY <1>2 DEF Content
  <1>4. MkFrame("chunk", <<next>>, 1, TRUE) \in Frame
    BY <1>3, FrameType DEF FrameTypes
  <1>. QED  BY <1>4 DEF MkFrame, next

\* The frame that ends the file is one, too.
LEMMA EofFrame ==
    ASSUME TypeOK, NEW m \in Mig
    PROVE  LET f == MkFrame("eof", job[m].crc, job[m].sent, TRUE)
           IN  f \in Frame /\ f.t = "eof" /\ f.data = job[m].crc
  <1>1. job[m].crc \in Content /\ job[m].sent \in Nat
    BY JobEdit DEF TypeOK
  <1>2. MkFrame("eof", job[m].crc, job[m].sent, TRUE) \in Frame
    BY <1>1, FrameType DEF FrameTypes
  <1>. QED  BY <1>2 DEF MkFrame

\* So are the other two that a connection may begin with, and the answers.
LEMMA OtherFrames ==
    ASSUME TypeOK
    PROVE  /\ \A m \in Mig :
                LET f == MkFrame("hello", job[m].crc, Len(job[m].crc), TRUE)
                IN  f \in Frame /\ f.t = "hello" /\ f.data = job[m].crc
           /\ LET f == MkFrame("junk", <<>>, 0, FALSE) IN f \in Frame /\ f.t = "junk"
           /\ \A t \in {"ack", "error", "result"}, ok \in BOOLEAN :
                LET f == MkFrame(t, <<>>, 0, ok) IN f \in Frame /\ f.t = t /\ f.ok = ok
  <1>1. ASSUME NEW m \in Mig
        PROVE  LET f == MkFrame("hello", job[m].crc, Len(job[m].crc), TRUE)
               IN  f \in Frame /\ f.t = "hello" /\ f.data = job[m].crc
    <2>1. job[m].crc \in Content
      BY JobEdit DEF TypeOK
    <2>2. Len(job[m].crc) \in Nat
      BY <2>1 DEF Content
    <2>3. MkFrame("hello", job[m].crc, Len(job[m].crc), TRUE) \in Frame
      BY <2>1, <2>2, FrameType DEF FrameTypes
    <2>. QED  BY <2>3 DEF MkFrame
  <1>2. MkFrame("junk", <<>>, 0, FALSE) \in Frame
    BY FrameType, EmptyContent DEF FrameTypes
  <1>3. MkFrame("junk", <<>>, 0, FALSE).t = "junk"
    BY DEF MkFrame
  <1>4. ASSUME NEW t \in {"ack", "error", "result"}, NEW ok \in BOOLEAN
        PROVE  LET f == MkFrame(t, <<>>, 0, ok) IN f \in Frame /\ f.t = t /\ f.ok = ok
    <2>1. MkFrame(t, <<>>, 0, ok) \in Frame
      BY FrameType, EmptyContent DEF FrameTypes
    <2>. QED  BY <2>1 DEF MkFrame
  <1>. QED  BY <1>1, <1>2, <1>3, <1>4

Carries(q, t) == \E f \in Frames(q) : f.t = t

\* Which kinds of frames are left in a queue.
LEMMA CarriesOf ==
    /\ \A t : ~Carries(<<>>, t)
    /\ \A f \in Frame : \A t : Carries(<<f>>, t) <=> f.t = t
    /\ \A q \in Seq(Frame), f \in Frame : \A t : Carries(Append(q, f), t) <=> Carries(q, t) \/ f.t = t
    /\ \A q \in Seq(Frame) : \A t : q # <<>> =>
          /\ Carries(Tail(q), t) => Carries(q, t)
          /\ Head(q).t = t => Carries(q, t)
    /\ \A q \in Seq(Frame) : \A t : \A i \in 0 .. Len(q) : Carries(SubSeq(q, 1, i), t) => Carries(q, t)
  BY FramesOf DEF Carries

\* What a step can do to the connections besides passing frames on: nothing, the
\* end of a command, the end of a connection, the progress of a receiver.
Quiet == UNCHANGED <<pc, job, rx, conn, up, down, landed>>
Leaves(m) == pc[m] # "unused" /\ Returns(m) /\ UNCHANGED <<rx, conn, up, landed>>
Hangs(n) ==
    /\ rx[n].pc # "listen"
    /\ HangsUp(n)
    /\ \/ UNCHANGED down
       \/ \E t \in {"ack", "error", "result"}, ok \in BOOLEAN :
            /\ t = "result" /\ ok => rx[n].ok
            /\ down' = ToSender(rx[n].peer, MkFrame(t, <<>>, 0, ok))
    /\ UNCHANGED <<pc, job, landed>>
Moves(n) ==
    /\ rx[n].pc \in {"commit", "adopt", "restore", "build"}
    /\ \E p \in {"adopt", "restore", "build", "reply"} : rx' = [rx EXCEPT ![n].pc = p]
    /\ UNCHANGED <<pc, job, conn, up, down, landed>>

\* Every step is one of these, or one of the actions that pass frames on.
LEMMA Kinds ==
    ASSUME TypeOK, [Next]_vars
    PROVE  \/ Quiet
           \/ \E m \in Mig : Leaves(m)
           \/ \E n \in Nodes : Hangs(n) \/ Moves(n)
           \/ \E m \in Mig, n, to \in Nodes, existing \in BOOLEAN : Migrate(m, n, to, existing)
           \/ \E m \in Mig : Freeze(m) \/ Hash(m) \/ Connect(m) \/ Stream(m) \/ Cut(m)
           \/ \E m \in Mig : (ReadAck(m) \/ StreamEnd(m) \/ ReadResult(m)) /\ ~Returns(m)
           \/ \E n \in Nodes : RxBuild(n) \/ \E m \in Mig : Accept(n, m)
           \/ \E n \in Nodes : (ReadHello(n) \/ ReadChunk(n) \/ ReadEof(n)) /\ ~HangsUp(n)
           \/ \E m \in Mig, n \in Nodes : Stray(m, n)
  <1>. USE DEF Quiet, Leaves, Hangs, Moves, disk, host, wire, count, history
  <1>1. CASE UNCHANGED vars
    BY <1>1 DEF vars
  <1>2. ASSUME NEW n \in Nodes,
               \/ Sweep(n) \/ Restore(n) \/ RestoreFail(n) \/ RestoreBlind(n) \/ RestoreKilled(n)
               \/ OrphanEngine(n) \/ Exit(n)
        PROVE  Quiet
    BY <1>2 DEF Sweep, Restore, RestoreFail, RestoreBlind, RestoreKilled, OrphanEngine, Exit
  <1>3. ASSUME NEW m \in Mig,
               \/ FreezeFail(m) \/ PackFail(m) \/ ConnectFail(m) \/ StreamFail(m) \/ GiveUp(m)
               \/ Release(m) \/ KillSender(m) \/ KillFreeze(m)
        PROVE  Leaves(m)
    BY <1>3 DEF FreezeFail, PackFail, ConnectFail, StreamFail, GiveUp, Release, KillSender,
                KillFreeze
  <1>4. ASSUME NEW m \in Mig, (ReadAck(m) \/ StreamEnd(m) \/ ReadResult(m)) /\ Returns(m)
        PROVE  Leaves(m)
    <2>1. pc'[m] = "done"
      BY <1>4, ReturnsEffect
    <2>2. UNCHANGED <<rx, conn, landed>> /\ pc[m] # "unused"
      BY <1>4 DEF ReadAck, StreamEnd, ReadResult
    <2>3. UNCHANGED up
      BY <1>4, <2>1 DEF TypeOK, ReadAck, StreamEnd, ReadResult
    <2>. QED  BY <1>4, <2>2, <2>3
  <1>5. ASSUME NEW n \in Nodes,
               RxCommit(n) \/ Adopt(n) \/ RxRestore(n) \/ RxBuildFail(n) \/ RxBuildBlind(n)
        PROVE  Moves(n)
    BY <1>5 DEF RxCommit, Adopt, RxRestore, RxBuildFail, RxBuildBlind
  <1>6. ASSUME NEW n \in Nodes, RxGiveUp(n) \/ KillReceiver(n) \/ Reply(n)
        PROVE  Hangs(n)
    <2>1. rx[n].ok \in BOOLEAN
      BY RxEdit DEF TypeOK
    <2>. QED  BY <1>6, <2>1 DEF RxGiveUp, KillReceiver, Reply
  <1>7. ASSUME NEW n \in Nodes, (ReadHello(n) \/ ReadChunk(n) \/ ReadEof(n)) /\ HangsUp(n)
        PROVE  Hangs(n)
    <2>1. rx'[n] = Listening
      BY <1>7 DEF TypeOK, HangsUp
    <2>2. rx[n].pc # "listen" /\ UNCHANGED <<pc, job, landed>>
      BY <1>7 DEF ReadHello, ReadChunk, ReadEof
    <2>3. rx'[n].pc = "listen"
      BY <2>1 DEF Listening
    <2>4. CASE ReadHello(n)
      <3>1. rx' = [rx EXCEPT ![n].pc = "recv", ![n].crc = Head(up[rx[n].peer]).data] => rx'[n].pc = "recv"
        BY DEF TypeOK, Rx
      <3>. QED  BY <1>7, <2>2, <2>3, <2>4, <3>1 DEF ReadHello
    <2>5. CASE ReadChunk(n)
      BY <1>7, <2>2, <2>5 DEF ReadChunk
    <2>6. CASE ReadEof(n)
      <3>1. rx' = [rx EXCEPT ![n].pc = "commit"] => rx'[n].pc = "commit"
        BY DEF TypeOK, Rx
      <3>. QED  BY <1>7, <2>2, <2>3, <2>6, <3>1 DEF ReadEof
    <2>. QED  BY <1>7, <2>4, <2>5, <2>6
  <1>. QED
    BY <1>1, <1>2, <1>3, <1>4, <1>5, <1>6, <1>7 DEF Next, Operate, TxStep, RxStep, Environment

-----------------------------------------------------------------------------
(* The state of each connection *)

Active(m) == pc[m] \notin {"unused", "done"}

\* How far the command is, what state its connection is in, and what can be on
\* its way.  A connection that waits to be accepted has not been answered.
Wired(m) ==
    /\ pc[m] \in {"unused", "freeze", "hash", "connect"} => conn[m] = "none"
    /\ pc[m] \in {"stream", "result", "release"} => conn[m] \in {"serving", "over"}
    /\ conn[m] \in {"none", "backlog"} => down[m] = <<>> /\ m \notin landed
    /\ conn[m] = "serving" => rx[job[m].to].peer = m /\ rx[job[m].to].pc # "listen"
    /\ conn[m] \in {"none", "over"} => up[m] = <<>>
    /\ Carries(up[m], "eof") => conn[m] = "serving"
    /\ Active(m) => job[m].from # job[m].to

WireInv == Served /\ \A m \in Mig : Wired(m)

\* Every step keeps it.
LEMMA WireStep ==
    ASSUME TypeOK, WireInv, [Next]_vars
    PROVE  WireInv'
  <1>. USE DEF disk, host, wire, count, history
  <1>0. \A m \in Mig : Wired(m) /\ job[m].to \in Nodes
    BY JobEdit DEF TypeOK, WireInv
  <1>1. CASE Quiet
    BY <1>1 DEF Quiet, WireInv, Served, Wired, Active
  <1>2. ASSUME NEW m \in Mig, Leaves(m)  PROVE WireInv'
    <2>1. \A o \in Mig : job'[o].to = job[o].to /\ ((pc'[o] = pc[o] /\ job'[o] = job[o]) \/ pc'[o] = "done")
      BY <1>2, ReturnsEffect DEF Leaves
    <2>2. \A o \in Mig : down'[o] = down[o] \/ down'[o] = <<>>
      BY <1>2, ReturnsEffect DEF Leaves
    <2>. QED  BY <1>2, <2>1, <2>2 DEF Leaves, WireInv, Served, Wired, Active
  <1>3. ASSUME NEW n \in Nodes, Hangs(n)  PROVE WireInv'
    <2>1. PICK m \in Mig : m = rx[n].peer /\ job[m].to = n /\ conn[m] = "serving"
      BY <1>3 DEF Hangs, WireInv, Served
    <2>2. /\ rx'[n].pc = "listen" /\ conn'[m] = "over" /\ up'[m] = <<>>
          /\ \A o \in Nodes \ {n} : rx'[o] = rx[o]
          /\ \A o \in Mig \ {m} : conn'[o] = conn[o] /\ up'[o] = up[o]
      BY <1>3, <2>1, HangsUpEffect DEF Hangs, Listening
    <2>3. \A o \in Mig \ {m} : down'[o] = down[o]
      BY <1>3, <2>1, SentEffect DEF Hangs
    <2>4. Served'
      BY <1>3, <2>1, <2>2 DEF Hangs, WireInv, Served
    <2>5. ~Carries(up'[m], "eof")
      BY <2>2, CarriesOf
    <2>6. \A o \in Mig \ {m} : Wired(o)'
      <3>. SUFFICES ASSUME NEW o \in Mig \ {m}  PROVE Wired(o)'
        OBVIOUS
      <3>1. conn[o] = "serving" => job[o].to # n
        BY <1>0, <2>1 DEF Wired
      <3>. QED  BY <1>0, <1>3, <2>2, <2>3, <3>1 DEF Hangs, Wired, Active
    <2>7. Wired(m)'
      <3>1. Wired(m) /\ UNCHANGED <<pc, job, landed>>
        BY <1>0, <1>3, <2>1 DEF Hangs
      <3>. QED  BY <2>1, <2>2, <2>5, <3>1 DEF Wired, Active
    <2>. QED  BY <2>4, <2>6, <2>7 DEF WireInv
  <1>4. ASSUME NEW n \in Nodes, Moves(n)  PROVE WireInv'
    <2>1. rx'[n].pc # "listen" /\ rx'[n].peer = rx[n].peer /\ \A o \in Nodes \ {n} : rx'[o] = rx[o]
      BY <1>4 DEF Moves, TypeOK, Rx
    <2>. QED  BY <1>0, <1>4, <2>1 DEF Moves, WireInv, Served, Wired, Active
  <1>5. ASSUME NEW m \in Mig, NEW n \in Nodes, NEW to \in Nodes, NEW existing \in BOOLEAN,
               Migrate(m, n, to, existing)
        PROVE  WireInv'
    <2>1. /\ pc[m] = "unused" /\ n # to /\ UNCHANGED <<rx, conn, up, down, landed>>
          /\ pc'[m] \in {"freeze", "hash"}
      BY <1>5 DEF TypeOK, Migrate
    <2>2. conn[m] = "none"
      BY <1>0, <2>1 DEF Wired
    <2>3. Served'
      BY <1>5, <2>1, <2>2, MigrateEffect DEF WireInv, Served
    <2>. QED  BY <1>0, <1>5, <2>1, <2>2, <2>3, MigrateEffect DEF WireInv, Wired, Active
  <1>6. ASSUME NEW m \in Mig, Freeze(m) \/ Hash(m)  PROVE WireInv'
    <2>1. /\ pc[m] \in {"freeze", "hash"} /\ pc'[m] \in {"hash", "connect"}
          /\ \A o \in Mig \ {m} : pc'[o] = pc[o]
          /\ UNCHANGED <<rx, conn, up, down, landed>>
      BY <1>6 DEF TypeOK, Freeze, Hash
    <2>2. \A o \in Mig : job'[o].from = job[o].from /\ job'[o].to = job[o].to
      <3>1. CASE Freeze(m)  BY <3>1 DEF Freeze
      <3>2. CASE Hash(m)
        <4>1. job \in [Mig -> Job] /\ \E content : job' = [job EXCEPT ![m].crc = content]
          BY <3>2, Zenon DEF TypeOK, Hash
        <4>. QED  BY <4>1 DEF Job
      <3>. QED  BY <1>6, <3>1, <3>2
    <2>. QED  BY <2>1, <2>2 DEF WireInv, Served, Wired, Active
  <1>7. ASSUME NEW m \in Mig, Connect(m)  PROVE WireInv'
    <2>1. /\ pc[m] = "connect" /\ pc'[m] = "ack" /\ conn'[m] = "backlog"
          /\ \A o \in Mig \ {m} : pc'[o] = pc[o] /\ conn'[o] = conn[o] /\ up'[o] = up[o]
          /\ UNCHANGED <<job, rx, down, landed>>
      BY <1>7 DEF TypeOK, Connect
    <2>2. ~Carries(up'[m], "eof")
      <3>3. /\ MkFrame("hello", job[m].crc, Len(job[m].crc), TRUE) \in Frame
            /\ MkFrame("hello", job[m].crc, Len(job[m].crc), TRUE).t = "hello"
        BY OtherFrames
      <3>. QED  BY <1>7, <3>3, CarriesOf DEF TypeOK, Connect
    <2>. QED  BY <1>0, <2>1, <2>2 DEF WireInv, Served, Wired, Active
  <1>8. ASSUME NEW m \in Mig, Stream(m)  PROVE WireInv'
    <2>1. /\ pc[m] = "stream" /\ UNCHANGED <<pc, rx, conn, down, landed>>
      BY <1>8 DEF Stream
    <2>2. \A o \in Mig : job'[o].from = job[o].from /\ job'[o].to = job[o].to
      BY <1>8 DEF TypeOK, Job, Stream
    <2>3. \A o \in Mig : (conn[o] \in {"none", "over"} => up'[o] = up[o])
                         /\ (Carries(up'[o], "eof") => Carries(up[o], "eof"))
      <3>. DEFINE f == MkFrame("chunk", <<Streamed(m)[job[m].sent + 1]>>, 1, TRUE)
      <3>1. up[m] \in Seq(Frame) /\ up' = ToReceiver(m, f)
        BY <1>8 DEF TypeOK, Stream
      <3>2. f \in Frame /\ f.t = "chunk"
        BY <1>8, ChunkFrame DEF Stream
      <3>. HIDE DEF f
      <3>3. Carries(Append(up[m], f), "eof") => Carries(up[m], "eof")
        BY <3>1, <3>2, CarriesOf
      <3>4. conn[m] \in {"serving", "over"}
        BY <1>0, <2>1 DEF Wired
      <3>5. \A o \in Mig \ {m} : up'[o] = up[o]
        BY <3>1, SentEffect
      <3>6. /\ up'[m] = up[m] \/ up'[m] = Append(up[m], f)
            /\ conn[m] = "over" => up'[m] = up[m]
        BY <3>1, SentEffect
      <3>. QED  BY <3>3, <3>4, <3>5, <3>6
    <2>. QED  BY <1>0, <2>1, <2>2, <2>3 DEF WireInv, Served, Wired, Active

  <1>9. ASSUME NEW m \in Mig, StreamEnd(m), ~Returns(m)  PROVE WireInv'
    <2>. DEFINE f == MkFrame("eof", job[m].crc, job[m].sent, TRUE)
    <2>1. /\ pc[m] = "stream" /\ pc'[m] = "result" /\ up' = ToReceiver(m, f)
          /\ \A o \in Mig \ {m} : pc'[o] = pc[o]
          /\ UNCHANGED <<job, rx, conn, down, landed>>
      BY <1>9 DEF TypeOK, StreamEnd
    <2>. HIDE DEF f
    <2>2. conn[m] \in {"serving", "over"}
      BY <1>0, <2>1 DEF Wired
    <2>3. conn[m] = "over" => up'[m] = up[m]
      BY <2>1, SentEffect
    <2>4. \A o \in Mig \ {m} : up'[o] = up[o]
      BY <2>1, SentEffect
    <2>5. \A o \in Mig \ {m} : Wired(o)'
      BY <1>0, <2>1, <2>4 DEF Wired, Active
    <2>6. Wired(m)'
      BY <1>0, <2>1, <2>2, <2>3 DEF Wired, Active
    <2>. QED  BY <2>1, <2>5, <2>6 DEF WireInv, Served
  <1>10. ASSUME NEW m \in Mig, ReadAck(m) \/ ReadResult(m), ~Returns(m)  PROVE WireInv'
    <2>1. /\ pc[m] \in {"ack", "result"} /\ pc'[m] \in {"stream", "release"}
          /\ down[m] # <<>>
          /\ \A o \in Mig \ {m} : pc'[o] = pc[o] /\ down'[o] = down[o]
          /\ UNCHANGED <<rx, conn, up, landed>>
      BY <1>10 DEF TypeOK, ReadAck, ReadResult
    <2>2. \A o \in Mig : job'[o].from = job[o].from /\ job'[o].to = job[o].to
      <3>1. CASE ReadAck(m)
        <4>1. job' = [job EXCEPT ![m].view = inbox[job[m].from]]
          BY <1>10, <3>1 DEF ReadAck
        <4>. QED  BY <4>1 DEF TypeOK, Job
      <3>2. CASE ReadResult(m)
        BY <1>10, <3>2 DEF ReadResult
      <3>. QED  BY <1>10, <3>1, <3>2
    <2>3. conn[m] \in {"serving", "over"}
      BY <1>0, <2>1 DEF TypeOK, Wired
    <2>. QED  BY <1>0, <2>1, <2>2, <2>3 DEF WireInv, Served, Wired, Active
  <1>11. ASSUME NEW m \in Mig, Cut(m)  PROVE WireInv'
    <2>1. PICK i \in 0 .. Len(up[m]), j \in 0 .. Len(down[m]) :
              /\ up' = [up EXCEPT ![m] = SubSeq(@, 1, i)]
              /\ down' = [down EXCEPT ![m] = SubSeq(@, 1, j)]
      BY <1>11 DEF Cut
    <2>2. up[m] \in Seq(Frame) /\ down[m] \in Seq(Frame)
      BY DEF TypeOK
    <2>3. /\ up'[m] = SubSeq(up[m], 1, i) /\ down'[m] = SubSeq(down[m], 1, j)
          /\ \A o \in Mig \ {m} : up'[o] = up[o] /\ down'[o] = down[o]
          /\ conn[m] \in {"backlog", "serving"}
          /\ UNCHANGED <<pc, job, rx, conn, landed>>
      BY <1>11, <2>1 DEF TypeOK, Cut
    <2>4. Carries(up'[m], "eof") => Carries(up[m], "eof")
      BY <2>2, <2>3, CarriesOf
    <2>5. down[m] = <<>> => down'[m] = <<>>
      <3>. SUFFICES ASSUME down[m] = <<>>  PROVE down'[m] = <<>>
        OBVIOUS
      <3>1. j = 0
        OBVIOUS
      <3>. QED  BY <2>3, <3>1
    <2>6. Served'
      BY <2>3 DEF WireInv, Served
    <2>7. \A o \in Mig \ {m} : Wired(o)'
      BY <1>0, <2>3 DEF Wired, Active
    <2>8. Wired(m)'
      BY <1>0, <2>3, <2>4, <2>5 DEF Wired, Active
    <2>. QED  BY <2>6, <2>7, <2>8 DEF WireInv
  <1>12. ASSUME NEW n \in Nodes, NEW m \in Mig, Accept(n, m)  PROVE WireInv'
    <2>1. /\ conn[m] = "backlog" /\ conn'[m] = "serving" /\ job[m].to = n
          /\ rx[n].pc = "listen"
          /\ \A o \in Mig \ {m} : conn'[o] = conn[o]
          /\ \A o \in Nodes \ {n} : rx'[o] = rx[o]
          /\ UNCHANGED <<pc, job, up, down, landed>>
      BY <1>12 DEF TypeOK, Accept
    <2>2. rx'[n].pc = "hello" /\ rx'[n].peer = m
      <3>1. \A r \in Rx : /\ [r EXCEPT !.pc = "hello", !.peer = m].pc = "hello"
                          /\ [r EXCEPT !.pc = "hello", !.peer = m].peer = m
        BY DEF Rx
      <3>2. rx'[n] = [Listening EXCEPT !.pc = "hello", !.peer = m]
        BY <1>12 DEF TypeOK, Accept
      <3>. QED  BY <3>1, <3>2, RxEdit
    <2>3. Served'
      BY <2>1, <2>2 DEF WireInv, Served
    <2>4. \A o \in Mig \ {m} : Wired(o)'
      <3>. SUFFICES ASSUME NEW o \in Mig \ {m}  PROVE Wired(o)'
        OBVIOUS
      <3>1. conn[o] = "serving" => job[o].to # n
        BY <1>0, <2>1 DEF Wired
      <3>. QED  BY <1>0, <2>1, <3>1 DEF Wired, Active
    <2>5. Wired(m)'
      BY <1>0, <2>1, <2>2 DEF Wired, Active
    <2>. QED  BY <2>3, <2>4, <2>5 DEF WireInv
  <1>13. ASSUME NEW n \in Nodes, RxBuild(n)  PROVE WireInv'
    <2>1. /\ rx[n].pc = "build" /\ rx'[n].pc = "reply" /\ rx'[n].peer = rx[n].peer
          /\ \A o \in Nodes \ {n} : rx'[o] = rx[o]
          /\ landed' = landed \cup {rx[n].peer}
          /\ UNCHANGED <<pc, job, conn, up, down>>
      BY <1>13 DEF TypeOK, Rx, RxBuild
    <2>2. conn[rx[n].peer] = "serving"
      BY <2>1 DEF WireInv, Served
    <2>. QED  BY <1>0, <2>1, <2>2 DEF WireInv, Served, Wired, Active
  <1>14. ASSUME NEW n \in Nodes, ReadHello(n) \/ ReadChunk(n) \/ ReadEof(n), ~HangsUp(n)
         PROVE  WireInv'
    <2>1. rx[n].pc # "listen" /\ UNCHANGED <<pc, job, conn, landed>>
      BY <1>14 DEF ReadHello, ReadChunk, ReadEof
    <2>2. PICK m \in Mig : m = rx[n].peer /\ job[m].to = n /\ conn[m] = "serving"
      BY <2>1 DEF WireInv, Served
    <2>3. /\ rx'[n].pc # "listen" /\ rx'[n].peer = m
          /\ \A o \in Nodes \ {n} : rx'[o] = rx[o]
      <3>1. CASE ReadHello(n)
        <4>1. rx' = [rx EXCEPT ![n].pc = "recv", ![n].crc = Head(up[m]).data]
          BY <1>14, <2>2, <3>1 DEF ReadHello
        <4>2. \A r \in Rx : \A c : /\ [r EXCEPT !.pc = "recv", !.crc = c].pc = "recv"
                                    /\ [r EXCEPT !.pc = "recv", !.crc = c].peer = r.peer
          BY DEF Rx
        <4>. QED  BY <2>2, <4>1, <4>2 DEF TypeOK
      <3>2. CASE ReadChunk(n)
        <4>1. rx' = rx
          BY <1>14, <3>2 DEF ReadChunk
        <4>. QED  BY <2>1, <2>2, <4>1
      <3>3. CASE ReadEof(n)
        <4>1. rx' = [rx EXCEPT ![n].pc = "commit"]
          BY <1>14, <3>3 DEF ReadEof
        <4>. QED  BY <2>2, <4>1 DEF TypeOK, Rx
      <3>. QED  BY <1>14, <3>1, <3>2, <3>3
    <2>4. \A o \in Mig \ {m} : up'[o] = up[o] /\ down'[o] = down[o]
      <3>1. \A o \in Mig \ {m} : up'[o] = up[o]
        BY <1>14, <2>2 DEF TypeOK, ReadHello, ReadChunk, ReadEof
      <3>2. \/ down' = down
            \/ down' = ToSender(m, MkFrame("ack", <<>>, 0, TRUE))
        BY <1>14, <2>2 DEF ReadHello, ReadChunk, ReadEof
      <3>3. \A o \in Mig \ {m} : ToSender(m, MkFrame("ack", <<>>, 0, TRUE))[o] = down[o]
        BY SentEffect
      <3>. QED  BY <3>1, <3>2, <3>3
    <2>5. \A o \in Mig \ {m} : Wired(o)'
      <3>. SUFFICES ASSUME NEW o \in Mig \ {m}  PROVE Wired(o)'
        OBVIOUS
      <3>1. conn[o] = "serving" => job[o].to # n
        BY <1>0, <2>2 DEF Wired
      <3>. QED  BY <1>0, <2>1, <2>3, <2>4, <3>1 DEF Wired, Active
    <2>6. Wired(m)'
      BY <1>0, <2>1, <2>2, <2>3 DEF Wired, Active
    <2>7. Served'
      BY <2>1, <2>2, <2>3 DEF WireInv, Served
    <2>. QED  BY <2>5, <2>6, <2>7 DEF WireInv
  <1>15. ASSUME NEW m \in Mig, NEW n \in Nodes, Stray(m, n)  PROVE WireInv'
    <2>1. /\ pc[m] = "unused" /\ pc'[m] = "done" /\ conn'[m] = "backlog"
          /\ \A o \in Mig \ {m} : /\ pc'[o] = pc[o] /\ conn'[o] = conn[o] /\ up'[o] = up[o]
                                  /\ job'[o] = job[o]
          /\ UNCHANGED <<rx, down, landed>>
      BY <1>15 DEF TypeOK, Stray
    <2>2. ~Carries(up'[m], "eof")
      <3>1. /\ MkFrame("junk", <<>>, 0, FALSE) \in Frame
            /\ MkFrame("junk", <<>>, 0, FALSE).t = "junk"
        BY OtherFrames
      <3>. QED  BY <1>15, <3>1, CarriesOf DEF TypeOK, Stray
    <2>3. conn[m] = "none"
      BY <1>0, <2>1 DEF Wired
    <2>4. Served'
      BY <2>1, <2>3 DEF WireInv, Served
    <2>. QED  BY <1>0, <2>1, <2>2, <2>3, <2>4 DEF WireInv, Wired, Active
  <1>. QED
    BY <1>1, <1>2, <1>3, <1>4, <1>5, <1>6, <1>7, <1>8, <1>9, <1>10, <1>11, <1>12, <1>13, <1>14,
       <1>15, Kinds

\* Every variable keeps its type, for any number of nodes and migrations, any
\* operator and any faults; and connections, commands and receivers always fit.
THEOREM MigrationTypeCorrect == Spec => [](TypeOK /\ WireInv)
  <1>1. Init => TypeOK /\ WireInv
    <2>. SUFFICES ASSUME Init  PROVE TypeOK /\ WireInv
      OBVIOUS
    <2>1. file \in [Nodes -> FileState]
      BY DEF Init, FileState, Status
    <2>2. job \in [Mig -> Job] /\ rx \in [Nodes -> Rx]
      BY JobEdit, RxEdit DEF Init
    <2>3. TypeOK
      BY <2>1, <2>2, EmptyContent, EmptySeq DEF Init, TypeOK, FileState, TxPc
    <2>4. \A m : ~Carries(<<>>, m)
      BY CarriesOf
    <2>. QED  BY <2>3, <2>4 DEF Init, WireInv, Served, Wired, Active, Listening
  <1>2. TypeOK /\ WireInv /\ [Next]_vars => (TypeOK /\ WireInv)'
    BY MigrationTypeStep, WireStep DEF WireInv
  <1>. QED  BY <1>1, <1>2, PTL DEF Spec

-----------------------------------------------------------------------------
(* Where the content of an inbox comes from *)

\* What checkpoints have written, in full or in part.
Files == written \cup torn

\* The file that the command ships.
Shipped(m) == IF job[m].path = "own" THEN own[job[m].from] ELSE inbox[job[m].from]

\* Every file is one that a checkpoint wrote, and a new one differs from all.
Stored ==
    /\ \A n \in Nodes : own[n] \in Files \cup {<<>>} /\ inbox[n] \in Files \cup {<<>>}
    /\ \A c \in Files : c # <<>> /\ c[1] < freezes
    /\ ended \/ torn = {}

\* The checksum is one of such a file from the hash on, and so is the announced one.
Shipping(m) ==
    /\ pc[m] = "freeze" => job[m].path = "own"
    /\ pc[m] = "hash" => Shipped(m) \in Files
    /\ pc[m] \in {"connect", "ack", "stream"} => job[m].crc \in Files
    /\ \A f \in Frames(up[m]) : f.t = "hello" => f.data \in Files

\* What is received must match it before it is renamed.
Receiving(n) ==
    /\ rx[n].pc \in {"recv", "commit"} => rx[n].crc \in Files
    /\ rx[n].pc = "commit" => part[n] = rx[n].crc

ShipInv ==
    /\ Stored
    /\ \A m \in Mig : Shipping(m)
    /\ \A n \in Nodes : Receiving(n)

store == <<own, part, inbox, written, torn, freezes>>

\* A checkpoint that comes to nothing.
Wastes(m) == Freezable(job[m].from) /\ Wasted(job[m].from) /\ UNCHANGED <<part, inbox>>

\* The steps that write a file.
LEMMA Writers ==
    ASSUME [Next]_vars
    PROVE  \/ UNCHANGED store /\ (ended => ended')
           \/ \E m \in Mig : Freeze(m) \/ Wastes(m)
           \/ \E n \in Nodes : ReadHello(n) \/ ReadChunk(n) \/ ReadEof(n) \/ RxCommit(n)
  <1>. USE DEF store, disk, host, wire, count, history
  <1>1. CASE UNCHANGED vars
    BY <1>1 DEF vars
  <1>2. ASSUME NEW n \in Nodes,
               \/ Sweep(n) \/ Restore(n) \/ RestoreFail(n) \/ RestoreBlind(n) \/ RestoreKilled(n)
               \/ RxRestore(n)
        PROVE  UNCHANGED store /\ (ended => ended')
    <2>1. Reaps(n)
      BY <1>2 DEF Sweep, Restore, RestoreFail, RestoreBlind, RestoreKilled, RxRestore, Restores
    <2>2. UNCHANGED store
      BY <1>2 DEF Sweep, Restore, RestoreFail, RestoreBlind, RestoreKilled, RxRestore, Restores
    <2>. QED  BY <2>1, <2>2 DEF Reaps
  <1>3. ASSUME NEW m \in Mig, TxStep(m), ~Freeze(m), ~PackFail(m)
        PROVE  UNCHANGED store /\ (ended => ended')
    <2>1. FreezeFail(m) => UNCHANGED store
      BY DEF FreezeFail
    <2>2. FreezeFail(m) => (ended => ended')
      BY DEF FreezeFail
    <2>3. \/ Hash(m) \/ Connect(m) \/ ConnectFail(m) \/ ReadAck(m) \/ Stream(m) \/ StreamEnd(m)
          \/ StreamFail(m) \/ ReadResult(m) \/ GiveUp(m) \/ Release(m)
          => UNCHANGED store /\ ended' = ended
      BY DEF Hash, Connect, ConnectFail, ReadAck, Stream, StreamEnd, StreamFail, ReadResult, GiveUp,
             Release
    <2>. QED  BY <1>3, <2>1, <2>2, <2>3 DEF TxStep
  <1>4. ASSUME NEW n \in Nodes, RxStep(n), ~ReadHello(n), ~ReadChunk(n), ~ReadEof(n), ~RxCommit(n),
               ~RxRestore(n)
        PROVE  UNCHANGED store /\ ended' = ended
    BY <1>4 DEF RxStep, Accept, RxGiveUp, Adopt, RxBuild, RxBuildFail, RxBuildBlind, Reply
  <1>5. ASSUME NEW m \in Mig, KillFreeze(m), ~Wastes(m)
        PROVE  UNCHANGED store /\ ended' = ended
    BY <1>5 DEF KillFreeze, Wastes
  <1>6. ASSUME NEW m \in Mig,
               Cut(m) \/ KillSender(m) \/ \E n \in Nodes : Stray(m, n)
        PROVE  UNCHANGED store /\ ended' = ended
    BY <1>6 DEF Cut, KillSender, Stray
  <1>7. ASSUME NEW n \in Nodes, KillReceiver(n) \/ OrphanEngine(n) \/ Exit(n)
        PROVE  UNCHANGED store /\ (ended => ended')
    BY <1>7 DEF KillReceiver, OrphanEngine, Exit
  <1>8. ASSUME NEW m \in Mig, PackFail(m)  PROVE Wastes(m)
    BY <1>8 DEF PackFail, Wastes
  <1>9. ASSUME NEW m \in Mig, NEW n \in Nodes, NEW to \in Nodes, NEW existing \in BOOLEAN,
               Migrate(m, n, to, existing)
        PROVE  UNCHANGED store /\ ended' = ended
    BY <1>9 DEF Migrate
  <1>10. CASE Operate
    BY <1>2, <1>9, <1>10 DEF Operate
  <1>11. CASE Environment
    BY <1>5, <1>6, <1>7, <1>11 DEF Environment
  <1>. QED  BY <1>1, <1>2, <1>3, <1>4, <1>8, <1>10, <1>11 DEF Next

\* A checkpoint writes a content that is new, and whole unless it failed.
LEMMA Fresh ==
    ASSUME TypeOK, NEW m \in Mig, Freeze(m) \/ Wastes(m)
    PROVE  /\ freezes' = freezes + 1 /\ UNCHANGED <<part, inbox>> /\ job[m].from \in Nodes
           /\ \E new \in Content :
                /\ new # <<>> /\ new[1] = freezes
                /\ \/ /\ own' = [own EXCEPT ![job[m].from] = new]
                      /\ Freeze(m) /\ written' = written \cup {new} /\ UNCHANGED <<torn, ended>>
                   \/ /\ own' = [own EXCEPT ![job[m].from] = new]
                      /\ torn' = torn \cup {new} /\ UNCHANGED written /\ ended' = TRUE
                   \/ /\ own' = [own EXCEPT ![job[m].from] = new]
                      /\ written' = written \cup {new} /\ UNCHANGED torn /\ ended' = TRUE
                   \/ UNCHANGED <<own, torn, written>> /\ ended' = TRUE
  <1>. DEFINE Pack(len) == [i \in 1 .. len |-> freezes]
  <1>1. job[m].from \in Nodes
    BY JobEdit DEF TypeOK
  <1>2. CASE Freeze(m)
    <2>1. PICK len \in Lens : /\ own' = [own EXCEPT ![job[m].from] = Pack(len)]
                              /\ written' = written \cup {Pack(len)}
      BY <1>2 DEF Freeze
    <2>2. len \in Nat /\ len > 0
      BY MigrationAssumption
    <2>3. Pack(len) \in Content /\ Pack(len) # <<>> /\ Pack(len)[1] = freezes
      BY <2>2, PackType
    <2>. HIDE DEF Pack
    <2>4. freezes' = freezes + 1 /\ UNCHANGED <<part, inbox, torn, ended>>
      BY <1>2 DEF Freeze
    <2>. QED  BY <1>1, <1>2, <2>1, <2>3, <2>4
  <1>3. CASE Wastes(m)
    <2>1. freezes' = freezes + 1 /\ UNCHANGED <<part, inbox>> /\ ended' = TRUE
      BY <1>3 DEF Wastes, Wasted
    <2>2. CASE UNCHANGED <<own, torn, written>>
      <3>1. <<freezes>> \in Content /\ <<freezes>> # <<>> /\ <<freezes>>[1] = freezes
        BY DEF TypeOK, Content
      <3>. HIDE DEF Pack
      <3>. QED  BY <1>1, <2>1, <2>2, <3>1
    <2>3. CASE ~UNCHANGED <<own, torn, written>>
      <3>1. \E len \in Nat \ {0} :
                   /\ own' = [own EXCEPT ![job[m].from] = Pack(len)]
                   /\ \/ torn' = torn \cup {Pack(len)} /\ UNCHANGED written
                      \/ written' = written \cup {Pack(len)} /\ UNCHANGED torn
        <4>1. \A size \in Lens : size \in Nat \ {0} /\ \A len \in 1 .. size - 1 : len \in Nat \ {0}
          BY MigrationAssumption
        <4>2. \/ \E size \in Lens : \E len \in 1 .. size - 1 :
                    /\ own' = [own EXCEPT ![job[m].from] = Pack(len)]
                    /\ torn' = torn \cup {Pack(len)} /\ UNCHANGED written
              \/ \E len \in Lens :
                    /\ own' = [own EXCEPT ![job[m].from] = Pack(len)]
                    /\ written' = written \cup {Pack(len)} /\ UNCHANGED torn
          BY <1>3, <2>3 DEF Wastes, Wasted
        <4>. HIDE DEF Pack
        <4>. QED  BY <4>1, <4>2
      <3>2. PICK len \in Nat \ {0} :
                   /\ own' = [own EXCEPT ![job[m].from] = Pack(len)]
                   /\ \/ torn' = torn \cup {Pack(len)} /\ UNCHANGED written
                      \/ written' = written \cup {Pack(len)} /\ UNCHANGED torn
        BY <3>1
      <3>4. Pack(len) \in Content /\ Pack(len) # <<>> /\ Pack(len)[1] = freezes
        BY <3>2, PackType
      <3>. HIDE DEF Pack
      <3>. QED  BY <1>1, <2>1, <3>2, <3>4
    <2>. QED  BY <2>2, <2>3
  <1>. QED  BY <1>2, <1>3

\* The files stay of this kind; and what a receiver is about to rename stays as
\* it is.
LEMMA StoreStep ==
    ASSUME TypeOK, ShipInv, [Next]_vars
    PROVE  /\ Stored' /\ Files \subseteq Files'
           /\ \A n \in Nodes : /\ own'[n] = own[n] \/ own'[n] \in Files'
                               /\ inbox'[n] = inbox[n] \/ inbox'[n] \in Files'
                               /\ rx'[n].pc = "commit" => part'[n] = part[n]
  <1>. DEFINE Goal == /\ Stored' /\ Files \subseteq Files'
                      /\ \A n \in Nodes : /\ own'[n] = own[n] \/ own'[n] \in Files'
                                          /\ inbox'[n] = inbox[n] \/ inbox'[n] \in Files'
                                          /\ rx'[n].pc = "commit" => part'[n] = part[n]
  <1>0. Stored
    BY DEF ShipInv
  <1>1. CASE UNCHANGED store /\ (ended => ended')
    BY <1>0, <1>1 DEF store, Stored, Files
  <1>2. ASSUME NEW m \in Mig, Freeze(m) \/ Wastes(m)  PROVE Goal
    <2>1. PICK new \in Content :
                /\ new # <<>> /\ new[1] = freezes
                /\ \/ /\ own' = [own EXCEPT ![job[m].from] = new]
                      /\ Freeze(m) /\ written' = written \cup {new} /\ UNCHANGED <<torn, ended>>
                   \/ /\ own' = [own EXCEPT ![job[m].from] = new]
                      /\ torn' = torn \cup {new} /\ UNCHANGED written /\ ended' = TRUE
                   \/ /\ own' = [own EXCEPT ![job[m].from] = new]
                      /\ written' = written \cup {new} /\ UNCHANGED torn /\ ended' = TRUE
                   \/ UNCHANGED <<own, torn, written>> /\ ended' = TRUE
      BY <1>2, Fresh
    <2>2. /\ freezes' = freezes + 1 /\ UNCHANGED <<part, inbox>> /\ job[m].from \in Nodes
          /\ own \in [Nodes -> Content]
      BY <1>2, Fresh DEF TypeOK
    <2>3. /\ \A n \in Nodes : own'[n] = own[n] \/ own'[n] \in Files'
          /\ Files \subseteq Files' /\ Files' \subseteq Files \cup {new}
      BY <2>1, <2>2 DEF Files
    <2>4. ended' \/ torn' = {}
      BY <1>0, <2>1 DEF Stored
    <2>5. \A c \in Files' : c # <<>> /\ c[1] < freezes'
      <3>1. \A c \in Files : c[1] \in Nat
        BY <1>0 DEF TypeOK, Files, Content, Stored
      <3>2. freezes \in Nat
        BY DEF TypeOK
      <3>. QED  BY <1>0, <2>1, <2>2, <2>3, <3>1, <3>2 DEF Stored
    <2>. QED  BY <1>0, <2>2, <2>3, <2>4, <2>5 DEF Stored
  <1>3. ASSUME NEW n \in Nodes, ReadHello(n) \/ ReadChunk(n)  PROVE Goal
    <2>1. /\ UNCHANGED <<own, inbox, written, torn, freezes, ended>> /\ rx'[n].pc # "commit"
          /\ \A o \in Nodes \ {n} : part'[o] = part[o]
      <3>1. CASE ReadHello(n)
        <4>1. /\ UNCHANGED <<own, inbox, written, torn, freezes, ended>>
              /\ \A o \in Nodes \ {n} : part'[o] = part[o]
          BY <3>1 DEF TypeOK, ReadHello, count
        <4>2. HangsUp(n) => rx'[n].pc = "listen"
          BY DEF HangsUp, TypeOK, Listening
        <4>3. \A c : rx' = [rx EXCEPT ![n].pc = "recv", ![n].crc = c] => rx'[n].pc = "recv"
          BY DEF TypeOK, Rx
        <4>. QED  BY <3>1, <4>1, <4>2, <4>3 DEF ReadHello
      <3>2. CASE ReadChunk(n)
        <4>1. /\ UNCHANGED <<own, inbox, written, torn, freezes, ended>>
              /\ \A o \in Nodes \ {n} : part'[o] = part[o]
          BY <3>2 DEF TypeOK, ReadChunk, count, history
        <4>2. HangsUp(n) => rx'[n].pc = "listen"
          BY DEF HangsUp, TypeOK, Listening
        <4>. QED  BY <3>2, <4>1, <4>2 DEF ReadChunk
      <3>. QED  BY <1>3, <3>1, <3>2
    <2>. QED  BY <1>0, <2>1 DEF Stored, Files
  <1>4. ASSUME NEW n \in Nodes, ReadEof(n)  PROVE Goal
    <2>1. /\ UNCHANGED <<own, inbox, written, torn, freezes, ended>>
          /\ \A o \in Nodes \ {n} : part'[o] = part[o]
      BY <1>4 DEF TypeOK, ReadEof, count, history
    <2>2. HangsUp(n) => rx'[n].pc = "listen"
      BY DEF HangsUp, TypeOK, Listening
    <2>3. rx'[n].pc = "commit" => part'[n] = part[n]
      BY <1>4, <2>2 DEF ReadEof
    <2>. QED  BY <1>0, <2>1, <2>3 DEF Stored, Files
  <1>5. ASSUME NEW n \in Nodes, RxCommit(n)  PROVE Goal
    <2>1. /\ UNCHANGED <<own, written, torn, freezes, ended>> /\ rx'[n].pc # "commit"
          /\ \A o \in Nodes \ {n} : part'[o] = part[o] /\ inbox'[o] = inbox[o]
          /\ inbox'[n] = part[n] /\ rx[n].pc = "commit"
      BY <1>5 DEF TypeOK, Rx, RxCommit, count, history
    <2>2. part[n] \in Files
      BY <2>1 DEF ShipInv, Receiving
    <2>. QED  BY <1>0, <2>1, <2>2 DEF Stored, Files
  <1>. QED  BY <1>1, <1>2, <1>3, <1>4, <1>5, Writers

\* What a step does to the queue of one connection: it is emptied, cut or read
\* from, or the peer puts a frame there.
LEMMA UpShape ==
    ASSUME TypeOK, WireInv, [Next]_vars, NEW m \in Mig
    PROVE  \/ up'[m] = up[m] \/ up'[m] = <<>>
           \/ \E i \in 0 .. Len(up[m]) : up'[m] = SubSeq(up[m], 1, i)
           \/ up[m] # <<>> /\ up'[m] = Tail(up[m])
           \/ \E f \in Frame :
                \/ up'[m] = <<f>> /\ f.t = "junk"
                \/ up'[m] = <<f>> /\ f.t = "hello" /\ f.data = job[m].crc /\ Connect(m)
                \/ up'[m] = Append(up[m], f) /\ f.t = "chunk" /\ pc[m] = "stream"
                \/ /\ up'[m] = Append(up[m], f) /\ f.t = "eof" /\ f.data = job[m].crc
                   /\ StreamEnd(m) /\ ~Returns(m)
  <1>. DEFINE Goal ==
           \/ up'[m] = up[m] \/ up'[m] = <<>>
           \/ \E i \in 0 .. Len(up[m]) : up'[m] = SubSeq(up[m], 1, i)
           \/ up[m] # <<>> /\ up'[m] = Tail(up[m])
           \/ \E f \in Frame :
                \/ up'[m] = <<f>> /\ f.t = "junk"
                \/ up'[m] = <<f>> /\ f.t = "hello" /\ f.data = job[m].crc /\ Connect(m)
                \/ up'[m] = Append(up[m], f) /\ f.t = "chunk" /\ pc[m] = "stream"
                \/ /\ up'[m] = Append(up[m], f) /\ f.t = "eof" /\ f.data = job[m].crc
                   /\ StreamEnd(m) /\ ~Returns(m)
  <1>0. up \in [Mig -> Seq(Frame)]
    BY DEF TypeOK
  <1>1. up'[m] = up[m] \/ up'[m] = <<>> => Goal
    OBVIOUS
  <1>2. Quiet => Goal
    BY DEF Quiet
  <1>3. ASSUME NEW o \in Mig, Leaves(o)  PROVE Goal
    BY <1>3 DEF Leaves
  <1>4. ASSUME NEW n \in Nodes, Hangs(n)  PROVE Goal
    <2>1. rx[n].peer \in Mig
      BY <1>4 DEF Hangs, WireInv, Served
    <2>2. up'[m] = up[m] \/ up'[m] = <<>>
      BY <1>4, <2>1, HangsUpEffect DEF Hangs
    <2>. QED  BY <2>2
  <1>5. ASSUME NEW n \in Nodes, Moves(n) \/ RxBuild(n)  PROVE Goal
    BY <1>5 DEF Moves, RxBuild, wire
  <1>6. ASSUME NEW o \in Mig, NEW n \in Nodes, NEW to \in Nodes, NEW existing \in BOOLEAN,
               Migrate(o, n, to, existing)
        PROVE  Goal
    <2>1. up' = up
      BY <1>6 DEF Migrate, wire
    <2>. QED  BY <2>1
  <1>7. ASSUME NEW o \in Mig,
               \/ Freeze(o) \/ Hash(o) \/ ReadAck(o) \/ ReadResult(o)
               \/ \E n \in Nodes : Accept(n, o)
        PROVE  Goal
    <2>1. up' = up
      BY <1>7 DEF Freeze, Hash, ReadAck, ReadResult, Accept, wire
    <2>. QED  BY <2>1
  <1>8. ASSUME NEW o \in Mig, Connect(o)  PROVE Goal
    <2>1. CASE o # m
      <3>1. up'[m] = up[m]
        BY <1>0, <1>8, <2>1 DEF Connect
      <3>. QED  BY <3>1
    <2>2. CASE o = m
      <3>. DEFINE h == MkFrame("hello", job[m].crc, Len(job[m].crc), TRUE)
      <3>1. h \in Frame /\ h.t = "hello" /\ h.data = job[m].crc
        BY OtherFrames
      <3>2. up'[m] = <<h>>
        BY <1>0, <1>8, <2>2 DEF Connect
      <3>. HIDE DEF h
      <3>. QED  BY <1>8, <2>2, <3>1, <3>2
    <2>. QED  BY <2>1, <2>2
  <1>9. ASSUME NEW o \in Mig, Stream(o)  PROVE Goal
    <2>. DEFINE c == MkFrame("chunk", <<Streamed(o)[job[o].sent + 1]>>, 1, TRUE)
    <2>1. c \in Frame /\ c.t = "chunk" /\ up' = ToReceiver(o, c) /\ pc[o] = "stream"
      BY <1>9, ChunkFrame DEF Stream
    <2>. HIDE DEF c
    <2>2. up'[m] = up[m] \/ (m = o /\ up'[m] = Append(up[m], c))
      BY <2>1, SentEffect
    <2>. QED  BY <2>1, <2>2
  <1>10. ASSUME NEW o \in Mig, Cut(o)  PROVE Goal
    <2>1. PICK i \in 0 .. Len(up[o]) : up' = [up EXCEPT ![o] = SubSeq(@, 1, i)]
      BY <1>10 DEF Cut
    <2>2. up'[m] = up[m] \/ (o = m /\ up'[m] = SubSeq(up[m], 1, i))
      BY <1>0, <2>1
    <2>. QED  BY <2>2
  <1>11. ASSUME NEW o \in Mig, StreamEnd(o), ~Returns(o)  PROVE Goal
    <2>. DEFINE e == MkFrame("eof", job[o].crc, job[o].sent, TRUE)
    <2>1. e \in Frame /\ e.t = "eof" /\ e.data = job[o].crc /\ up' = ToReceiver(o, e)
      BY <1>11, EofFrame DEF StreamEnd
    <2>. HIDE DEF e
    <2>2. up'[m] = up[m] \/ (m = o /\ up'[m] = Append(up[m], e))
      BY <2>1, SentEffect
    <2>. QED  BY <1>11, <2>1, <2>2
  <1>12. ASSUME NEW n \in Nodes, ReadHello(n) \/ ReadChunk(n) \/ ReadEof(n), ~HangsUp(n)
         PROVE  Goal
    <2>1. rx[n].peer \in Mig
      BY <1>12 DEF ReadHello, ReadChunk, ReadEof, WireInv, Served
    <2>2. up' = [up EXCEPT ![rx[n].peer] = Tail(@)] /\ up[rx[n].peer] # <<>>
      BY <1>12 DEF ReadHello, ReadChunk, ReadEof
    <2>3. up'[m] = up[m] \/ (up[m] # <<>> /\ up'[m] = Tail(up[m]))
      BY <1>0, <2>1, <2>2
    <2>. QED  BY <2>3
  <1>13. ASSUME NEW o \in Mig, NEW n \in Nodes, Stray(o, n)  PROVE Goal
    <2>. DEFINE j == MkFrame("junk", <<>>, 0, FALSE)
    <2>1. j \in Frame /\ j.t = "junk"
      BY OtherFrames
    <2>2. up'[m] = up[m] \/ up'[m] = <<j>>
      BY <1>0, <1>13 DEF Stray
    <2>. HIDE DEF j
    <2>. QED  BY <2>1, <2>2
  <1>. HIDE DEF Goal
  <1>14. Goal
    BY <1>2, <1>3, <1>4, <1>5, <1>6, <1>7, <1>8, <1>9, <1>10, <1>11, <1>12, <1>13, Kinds
  <1>. QED  BY <1>14 DEF Goal

\* The frames that are on their way to a receiver were there, or have just been
\* put there by the peer.
LEMMA UpFrames ==
    ASSUME TypeOK, WireInv, [Next]_vars, NEW m \in Mig, NEW f \in Frames(up'[m])
    PROVE  \/ f \in Frames(up[m])
           \/ f.t \in {"chunk", "junk"}
           \/ f.t = "hello" /\ f.data = job[m].crc /\ Connect(m)
           \/ f.t = "eof" /\ f.data = job[m].crc /\ StreamEnd(m) /\ ~Returns(m)
  <1>1. up[m] \in Seq(Frame)
    BY DEF TypeOK
  <1>2. CASE \/ up'[m] = up[m] \/ up'[m] = <<>>
             \/ \E i \in 0 .. Len(up[m]) : up'[m] = SubSeq(up[m], 1, i)
             \/ up[m] # <<>> /\ up'[m] = Tail(up[m])
    <2>1. Frames(up'[m]) \subseteq Frames(up[m])
      BY <1>1, <1>2, FramesOf
    <2>. QED  BY <2>1
  <1>3. ASSUME NEW g \in Frame, up'[m] = <<g>> \/ up'[m] = Append(up[m], g)
        PROVE  f \in Frames(up[m]) \/ f = g
    <2>1. Frames(<<g>>) = {g} /\ Frames(Append(up[m], g)) = Frames(up[m]) \cup {g}
      BY <1>1, FramesOf
    <2>2. Frames(up'[m]) = Frames(<<g>>) \/ Frames(up'[m]) = Frames(Append(up[m], g))
      BY <1>3, Zenon
    <2>3. Frames(up'[m]) \subseteq Frames(up[m]) \cup {g}
      BY <2>1, <2>2
    <2>. QED  BY <2>3
  <1>. QED  BY <1>2, <1>3, UpShape

\* What a command has hashed stays a file, whatever is written meanwhile.
LEMMA ShippingStep ==
    ASSUME TypeOK, WireInv, ShipInv, [Next]_vars, NEW m \in Mig
    PROVE  Shipping(m)'
  <1>1. /\ Files \subseteq Files'
        /\ \A n \in Nodes : /\ own'[n] = own[n] \/ own'[n] \in Files'
                            /\ inbox'[n] = inbox[n] \/ inbox'[n] \in Files'
    BY StoreStep
  <1>2. Shipping(m) /\ Stored
    BY DEF ShipInv
  <1>3. job[m].from \in Nodes /\ job[m] \in Job
    BY JobEdit DEF TypeOK
  <1>4. \A f \in Frames(up'[m]) : f.t = "hello" => f.data \in Files'
    <2>. SUFFICES ASSUME NEW f \in Frames(up'[m]), f.t = "hello"  PROVE f.data \in Files'
      OBVIOUS
    <2>1. Connect(m) => job[m].crc \in Files
      BY <1>2 DEF Connect, Shipping
    <2>2. f \in Frames(up[m]) \/ (f.data = job[m].crc /\ Connect(m))
      BY UpFrames
    <2>. QED  BY <1>1, <1>2, <2>1, <2>2 DEF Shipping
  <1>5. CASE pc'[m] \notin {"freeze", "hash", "connect", "ack", "stream"}
    BY <1>4, <1>5 DEF Shipping
  <1>6. CASE pc'[m] = pc[m] /\ job'[m].from = job[m].from /\ job'[m].path = job[m].path
             /\ job'[m].crc = job[m].crc
    <2>1. pc'[m] = "hash" => Shipped(m)' \in Files'
      BY <1>1, <1>2, <1>3, <1>6 DEF Shipping, Shipped
    <2>. QED  BY <1>1, <1>2, <1>4, <1>6, <2>1 DEF Shipping
  <1>. DEFINE Same == pc'[m] = pc[m] /\ job'[m] = job[m]
  <1>7. CASE Same
    BY <1>6, <1>7
  <1>8. CASE Quiet
    BY <1>7, <1>8 DEF Quiet
  <1>9. ASSUME NEW o \in Mig, Leaves(o)  PROVE Shipping(m)'
    BY <1>5, <1>7, <1>9, ReturnsEffect DEF Leaves
  <1>10. ASSUME NEW n \in Nodes,
                \/ Hangs(n) \/ Moves(n) \/ RxBuild(n) \/ \E o \in Mig : Accept(n, o)
                \/ ReadHello(n) \/ ReadChunk(n) \/ ReadEof(n)
         PROVE  Shipping(m)'
    BY <1>7, <1>10 DEF Hangs, Moves, RxBuild, Accept, ReadHello, ReadChunk, ReadEof
  <1>11. ASSUME NEW o \in Mig, NEW n \in Nodes, NEW to \in Nodes, NEW existing \in BOOLEAN,
                Migrate(o, n, to, existing)
         PROVE  Shipping(m)'
    <2>1. CASE o # m
      BY <1>7, <1>11, <2>1, MigrateEffect
    <2>2. CASE o = m
      <3>1. CASE ~existing
        <4>1. pc'[m] = "freeze" /\ job'[m].path = "own"
          BY <1>11, <2>2, <3>1, MigrateEffect DEF TypeOK, Migrate
        <4>. QED  BY <1>4, <4>1 DEF Shipping
      <3>2. CASE existing
        <4>1. /\ job'[m].from = n /\ job'[m].path = file[n].snap /\ file[n].snap \in {"own", "inbox"}
              /\ pc'[m] = "hash" /\ UNCHANGED <<own, inbox>> /\ Snapshot(n) # <<>>
          BY <1>11, <2>2, <3>2, MigrateEffect DEF TypeOK, Migrate, disk
        <4>2. Shipped(m)' = Snapshot(n)
          BY <4>1 DEF Shipped, Snapshot
        <4>3. Snapshot(n) \in Files
          BY <1>2, <4>1 DEF Snapshot, Stored
        <4>. QED  BY <1>1, <1>4, <4>1, <4>2, <4>3 DEF Shipping
      <3>. QED  BY <3>1, <3>2
    <2>. QED  BY <2>1, <2>2
  <1>12. ASSUME NEW o \in Mig, Freeze(o)  PROVE Shipping(m)'
    <2>1. CASE o # m
      BY <1>7, <1>12, <2>1 DEF TypeOK, Freeze
    <2>2. CASE o = m
      <3>1. pc'[m] = "hash" /\ UNCHANGED <<job, inbox>>
        BY <1>12, <2>2 DEF TypeOK, Freeze
      <3>2. job[m].path = "own"
        BY <1>12, <2>2 DEF ShipInv, Shipping, Freeze
      <3>3. own'[job[m].from] \in Files'
        BY <1>3, <1>12, <2>2 DEF TypeOK, Freeze, Files
      <3>. QED  BY <1>4, <3>1, <3>2, <3>3 DEF Shipping, Shipped
    <2>. QED  BY <2>1, <2>2
  <1>13. ASSUME NEW o \in Mig, Hash(o)  PROVE Shipping(m)'
    <2>1. CASE o # m
      BY <1>7, <1>13, <2>1 DEF TypeOK, Hash
    <2>2. CASE o = m
      <3>1. pc[m] = "hash" /\ pc'[m] = "connect" /\ job' = [job EXCEPT ![m].crc = Shipped(m)]
        BY <1>13, <2>2 DEF TypeOK, Hash, Shipped
      <3>2. job'[m].crc = Shipped(m)
        BY <3>1 DEF TypeOK, Job
      <3>. QED  BY <1>1, <1>2, <1>4, <3>1, <3>2 DEF Shipping
    <2>. QED  BY <2>1, <2>2
  <1>14. ASSUME NEW o \in Mig, Connect(o) \/ ReadAck(o) \/ Stream(o), ~Returns(o)
         PROVE  Shipping(m)'
    <2>1. pc'[m] = pc[m] \/ (pc[m] \in {"connect", "ack"} /\ pc'[m] \in {"ack", "stream"})
      BY <1>14 DEF TypeOK, Connect, ReadAck, Stream
    <2>2. /\ job'[m].from = job[m].from /\ job'[m].path = job[m].path
          /\ job'[m].crc = job[m].crc
      <3>1. \/ UNCHANGED job
            \/ job' = [job EXCEPT ![o].view = inbox[job[o].from]]
            \/ job' = [job EXCEPT ![o].sent = @ + 1]
        BY <1>14 DEF Connect, ReadAck, Stream
      <3>2. \/ job'[m] = job[m]
            \/ job'[m] = [job[m] EXCEPT !.view = inbox[job[o].from]]
            \/ job'[m] = [job[m] EXCEPT !.sent = job[m].sent + 1]
        BY <3>1 DEF TypeOK
      <3>. QED  BY <1>3, <3>2 DEF Job
    <2>. QED  BY <1>1, <1>2, <1>4, <1>6, <2>1, <2>2 DEF Shipping
  <1>15. ASSUME NEW o \in Mig, StreamEnd(o) \/ ReadResult(o), ~Returns(o)
         PROVE  Shipping(m)'
    BY <1>5, <1>7, <1>15 DEF TypeOK, StreamEnd, ReadResult
  <1>16. ASSUME NEW o \in Mig, Cut(o)  PROVE Shipping(m)'
    BY <1>7, <1>16 DEF Cut
  <1>17. ASSUME NEW o \in Mig, NEW n \in Nodes, Stray(o, n)  PROVE Shipping(m)'
    BY <1>5, <1>7, <1>17 DEF TypeOK, Stray
  <1>. HIDE DEF Same
  <1>18. ASSUME NEW o \in Mig, Connect(o) \/ Stream(o)  PROVE ~Returns(o)
    BY <1>18 DEF TypeOK, Returns, Connect, Stream
  <1>. QED
    BY <1>8, <1>9, <1>10, <1>11, <1>12, <1>13, <1>14, <1>15, <1>16, <1>17, <1>18, Kinds

\* What a receiver renames is what was announced to it.
LEMMA ReceivingStep ==
    ASSUME TypeOK, WireInv, ShipInv, [Next]_vars, NEW n \in Nodes
    PROVE  Receiving(n)'
  <1>1. Files \subseteq Files' /\ (rx'[n].pc = "commit" => part'[n] = part[n])
    BY StoreStep
  <1>2. Receiving(n)
    BY DEF ShipInv
  <1>3. CASE rx'[n].pc \notin {"recv", "commit"}
    BY <1>3 DEF Receiving
  <1>4. CASE rx'[n].pc = rx[n].pc /\ rx'[n].crc = rx[n].crc
    BY <1>1, <1>2, <1>4 DEF Receiving
  <1>5. CASE UNCHANGED rx
    BY <1>4, <1>5
  <1>6. CASE Quiet
    BY <1>5, <1>6 DEF Quiet
  <1>7. ASSUME NEW o \in Nodes, Hangs(o)  PROVE Receiving(n)'
    <2>1. rx[o].peer \in Mig
      BY <1>7 DEF Hangs, WireInv, Served
    <2>2. Listening.pc = "listen"
      BY DEF Listening
    <2>3. IF n = o THEN rx'[n] = Listening ELSE rx'[n] = rx[n]
      BY <1>7, <2>1, HangsUpEffect DEF Hangs
    <2>. QED  BY <1>3, <1>4, <2>2, <2>3
  <1>8. ASSUME NEW o \in Nodes, Moves(o) \/ RxBuild(o)  PROVE Receiving(n)'
    <2>1. rx'[n] = rx[n] \/ rx'[n].pc \notin {"recv", "commit"}
      BY <1>8 DEF TypeOK, Rx, Moves, RxBuild
    <2>. QED  BY <1>3, <1>4, <2>1
  <1>9. ASSUME NEW o \in Nodes, NEW m \in Mig, Accept(o, m)  PROVE Receiving(n)'
    <2>1. \A r \in Rx : [r EXCEPT !.pc = "hello", !.peer = m].pc = "hello"
      BY DEF Rx
    <2>2. IF n = o THEN rx'[n] = [Listening EXCEPT !.pc = "hello", !.peer = m] ELSE rx'[n] = rx[n]
      BY <1>9 DEF TypeOK, Accept
    <2>. QED  BY <1>3, <1>4, <2>1, <2>2, RxEdit
  <1>10. ASSUME NEW o \in Nodes, ReadHello(o), ~HangsUp(o)  PROVE Receiving(n)'
    <2>. DEFINE h == Head(up[rx[o].peer])
    <2>1. rx' = [rx EXCEPT ![o].pc = "recv", ![o].crc = h.data] /\ h.t = "hello"
          /\ up[rx[o].peer] # <<>> /\ rx[o].pc = "hello"
      BY <1>10 DEF ReadHello
    <2>2. rx[o].peer \in Mig
      BY <2>1 DEF WireInv, Served
    <2>3. h \in Frames(up[rx[o].peer])
      BY <2>1, <2>2, FramesOf DEF TypeOK
    <2>4. h.data \in Files
      BY <2>1, <2>2, <2>3 DEF ShipInv, Shipping
    <2>. HIDE DEF h
    <2>6. IF n = o THEN rx'[n] = [rx[n] EXCEPT !.pc = "recv", !.crc = h.data] ELSE rx'[n] = rx[n]
      BY <2>1 DEF TypeOK
    <2>7. rx[n] \in Rx
      BY DEF TypeOK
    <2>8. CASE n = o
      <3>1. rx'[n].pc = "recv" /\ rx'[n].crc = h.data
        BY <2>6, <2>7, <2>8 DEF Rx
      <3>. QED  BY <1>1, <2>4, <3>1 DEF Receiving
    <2>. QED  BY <1>4, <2>6, <2>8
  <1>11. ASSUME NEW o \in Nodes, ReadChunk(o), ~HangsUp(o)  PROVE Receiving(n)'
    BY <1>5, <1>11 DEF ReadChunk
  <1>12. ASSUME NEW o \in Nodes, ReadEof(o), ~HangsUp(o)  PROVE Receiving(n)'
    <2>1. rx' = [rx EXCEPT ![o].pc = "commit"] /\ part[o] = rx[o].crc /\ rx[o].pc = "recv"
      BY <1>12 DEF ReadEof, Intact
    <2>2. IF n = o THEN rx'[n].pc = "commit" /\ rx'[n].crc = rx[n].crc ELSE rx'[n] = rx[n]
      BY <2>1 DEF TypeOK, Rx
    <2>. QED  BY <1>1, <1>2, <1>4, <2>1, <2>2 DEF Receiving
  <1>13. ASSUME NEW m \in Mig,
                \/ Leaves(m) \/ Freeze(m) \/ Hash(m) \/ Connect(m) \/ Stream(m) \/ Cut(m)
                \/ ReadAck(m) \/ StreamEnd(m) \/ ReadResult(m) \/ \E o \in Nodes : Stray(m, o)
         PROVE  Receiving(n)'
    BY <1>5, <1>13 DEF Leaves, Freeze, Hash, Connect, Stream, Cut, ReadAck, StreamEnd, ReadResult,
                       Stray
  <1>14. ASSUME NEW m \in Mig, NEW o \in Nodes, NEW to \in Nodes, NEW existing \in BOOLEAN,
                Migrate(m, o, to, existing)
         PROVE  Receiving(n)'
    BY <1>5, <1>14 DEF Migrate
  <1>. QED
    BY <1>6, <1>7, <1>8, <1>9, <1>10, <1>11, <1>12, <1>13, <1>14, Kinds

\* The types, the connections and the contents together are inductive.
LEMMA ShipAlways == Spec => [](TypeOK /\ WireInv /\ ShipInv)
  <1>1. Init => ShipInv
    <2>1. Frames(<<>>) = {}
      BY FramesOf
    <2>. QED
      BY <2>1 DEF Init, ShipInv, Stored, Files, Shipping, Receiving, Listening
  <1>2. TypeOK /\ WireInv /\ TypeOK' /\ WireInv' /\ ShipInv /\ [Next]_vars => ShipInv'
    BY StoreStep, ShippingStep, ReceivingStep DEF ShipInv
  <1>. QED  BY <1>1, <1>2, MigrationTypeCorrect, PTL DEF Spec

\* What is renamed into an inbox is all of one file that a checkpoint wrote,
\* for any number of nodes, migrations, chunks and faults, and although the
\* file may be rewritten between the hash and the last chunk (handle_one).
THEOREM InboxAlwaysWhole == Spec => []InboxWhole
  <1>1. ShipInv => InboxWhole
    BY DEF ShipInv, Stored, Files, InboxWhole
  <1>. QED  BY <1>1, ShipAlways, PTL

-----------------------------------------------------------------------------
(* What a confirmation is worth *)

\* A receiver that reports success, a report on its way and a command that has
\* read one all belong to a migration whose container was brought up; the
\* receiver hangs up with the report.
LandInv ==
    /\ \A n \in Nodes : rx[n].ok => rx[n].pc = "reply" /\ rx[n].peer \in landed
    /\ \A m \in Mig :
          /\ \A f \in Frames(down[m]) :
                f.t = "result" /\ f.ok => m \in landed /\ conn[m] = "over"
          /\ pc[m] = "release" => m \in landed /\ conn[m] = "over"

\* A report of success that is on its way was there, or the receiver of this
\* very connection has just sent it.
LEMMA DownFrames ==
    ASSUME TypeOK, WireInv, [Next]_vars, NEW m \in Mig, NEW f \in Frames(down'[m]),
           f.t = "result", f.ok
    PROVE  \/ f \in Frames(down[m])
           \/ conn'[m] = "over" /\ \E n \in Nodes : rx[n].ok /\ rx[n].peer = m
  <1>. DEFINE Goal == \/ f \in Frames(down[m])
                      \/ conn'[m] = "over" /\ \E n \in Nodes : rx[n].ok /\ rx[n].peer = m
  <1>0. down \in [Mig -> Seq(Frame)]
    BY DEF TypeOK
  <1>1. CASE down'[m] = down[m] \/ down'[m] = <<>>
    BY <1>1, FramesOf
  <1>2. CASE Quiet
    BY <1>1, <1>2 DEF Quiet
  <1>3. ASSUME NEW o \in Mig, Leaves(o)  PROVE Goal
    BY <1>1, <1>3, ReturnsEffect DEF Leaves
  <1>4. ASSUME NEW o \in Mig, NEW t \in {"ack", "error", "result"}, NEW ok \in BOOLEAN,
               down' = ToSender(o, MkFrame(t, <<>>, 0, ok))
        PROVE  f \in Frames(down[m]) \/ (o = m /\ t = "result" /\ ok)
    <2>. DEFINE a == MkFrame(t, <<>>, 0, ok)
    <2>1. a \in Frame /\ a.t = t /\ a.ok = ok /\ down' = ToSender(o, a)
      BY <1>4, OtherFrames
    <2>. HIDE DEF a
    <2>2. down'[m] = down[m] \/ (o = m /\ down'[m] = Append(down[m], a))
      BY <2>1, SentEffect
    <2>3. down'[m] = Append(down[m], a) => f \in Frames(down[m]) \/ f = a
      BY <1>0, <2>1, FramesOf
    <2>. QED  BY <2>1, <2>2, <2>3
  <1>5. ASSUME NEW n \in Nodes, Hangs(n)  PROVE Goal
    <2>1. rx[n].peer \in Mig
      BY <1>5 DEF Hangs, WireInv, Served
    <2>2. CASE UNCHANGED down
      BY <1>1, <2>2
    <2>3. ASSUME NEW t \in {"ack", "error", "result"}, NEW ok \in BOOLEAN,
                 t = "result" /\ ok => rx[n].ok,
                 down' = ToSender(rx[n].peer, MkFrame(t, <<>>, 0, ok))
          PROVE  Goal
      <3>1. conn'[rx[n].peer] = "over"
        BY <1>5, <2>1, HangsUpEffect DEF Hangs
      <3>. QED  BY <1>4, <2>1, <2>3, <3>1
    <2>. QED  BY <1>5, <2>2, <2>3 DEF Hangs
  <1>6. ASSUME NEW n \in Nodes, (ReadHello(n) \/ ReadChunk(n) \/ ReadEof(n)) /\ ~HangsUp(n)
        PROVE  Goal
    <2>1. rx[n].peer \in Mig
      BY <1>6 DEF ReadHello, ReadChunk, ReadEof, WireInv, Served
    <2>2. UNCHANGED down \/ down' = ToSender(rx[n].peer, MkFrame("ack", <<>>, 0, TRUE))
      BY <1>6 DEF ReadHello, ReadChunk, ReadEof
    <2>. QED  BY <1>1, <1>4, <2>1, <2>2
  <1>7. ASSUME NEW n \in Nodes, Moves(n) \/ RxBuild(n)  PROVE Goal
    BY <1>1, <1>7 DEF Moves, RxBuild, wire
  <1>12. ASSUME NEW n \in Nodes, NEW o \in Mig, Accept(n, o) \/ Stray(o, n)  PROVE Goal
    BY <1>1, <1>12 DEF Accept, Stray
  <1>8. ASSUME NEW o \in Mig,
               \/ Freeze(o) \/ Hash(o) \/ Connect(o) \/ Stream(o) \/ (StreamEnd(o) /\ ~Returns(o))
        PROVE  Goal
    BY <1>1, <1>8 DEF Freeze, Hash, Connect, Stream, StreamEnd, wire
  <1>13. ASSUME NEW o \in Mig, NEW n \in Nodes, NEW to \in Nodes, NEW existing \in BOOLEAN,
                Migrate(o, n, to, existing)
         PROVE  Goal
    BY <1>1, <1>13 DEF Migrate, wire
  <1>9. ASSUME NEW o \in Mig, Cut(o)  PROVE Goal
    <2>1. PICK j \in 0 .. Len(down[o]) : down' = [down EXCEPT ![o] = SubSeq(@, 1, j)]
      BY <1>9 DEF Cut
    <2>2. CASE o # m
      BY <1>0, <1>1, <2>1, <2>2
    <2>3. CASE o = m
      BY <1>0, <2>1, <2>3, FramesOf
    <2>. QED  BY <2>2, <2>3
  <1>10. ASSUME NEW o \in Mig, ReadAck(o) \/ ReadResult(o), ~Returns(o)  PROVE Goal
    <2>1. down' = [down EXCEPT ![o] = Tail(@)] /\ down[o] # <<>>
      BY <1>10 DEF ReadAck, ReadResult
    <2>2. CASE o # m
      BY <1>0, <1>1, <2>1, <2>2
    <2>3. CASE o = m
      BY <1>0, <2>1, <2>3, FramesOf
    <2>. QED  BY <2>2, <2>3
  <1>. QED  BY <1>2, <1>3, <1>5, <1>6, <1>7, <1>8, <1>9, <1>10, <1>12, <1>13, Kinds

\* A connection that is over stays so.
LEMMA OverStays ==
    ASSUME TypeOK, WireInv, [Next]_vars, NEW m \in Mig, conn[m] = "over"
    PROVE  conn'[m] = "over"
  <1>0. conn \in [Mig -> {"none", "backlog", "serving", "over"}]
    BY DEF TypeOK
  <1>1. ASSUME NEW n \in Nodes, Hangs(n)  PROVE conn'[m] = "over"
    <2>1. rx[n].peer \in Mig
      BY <1>1 DEF Hangs, WireInv, Served
    <2>. QED  BY <1>1, <2>1, HangsUpEffect DEF Hangs
  <1>2. ASSUME NEW o \in Mig, NEW n \in Nodes, Stray(o, n)  PROVE conn'[m] = "over"
    BY <1>0, <1>2 DEF Stray, WireInv, Wired
  <1>3. ASSUME NEW o \in Mig, Connect(o)  PROVE conn'[m] = "over"
    BY <1>0, <1>3 DEF Connect, WireInv, Wired
  <1>4. ASSUME NEW n \in Nodes, NEW o \in Mig, Accept(n, o)  PROVE conn'[m] = "over"
    BY <1>0, <1>4 DEF Accept
  <1>5. ASSUME NEW n \in Nodes,
               \/ Moves(n) \/ RxBuild(n)
               \/ (ReadHello(n) \/ ReadChunk(n) \/ ReadEof(n)) /\ ~HangsUp(n)
        PROVE  UNCHANGED conn
    BY <1>5 DEF Moves, RxBuild, ReadHello, ReadChunk, ReadEof, wire
  <1>6. ASSUME NEW o \in Mig,
               \/ Leaves(o) \/ Freeze(o) \/ Hash(o) \/ Stream(o) \/ Cut(o)
               \/ ReadAck(o) \/ StreamEnd(o) \/ ReadResult(o)
        PROVE  UNCHANGED conn
    BY <1>6 DEF Leaves, Freeze, Hash, Stream, Cut, ReadAck, StreamEnd, ReadResult, wire
  <1>7. ASSUME NEW o \in Mig, NEW n \in Nodes, NEW to \in Nodes, NEW existing \in BOOLEAN,
               Migrate(o, n, to, existing)
        PROVE  UNCHANGED conn
    BY <1>7 DEF Migrate, wire
  <1>8. CASE UNCHANGED conn
    BY <1>8
  <1>9. Quiet => UNCHANGED conn
    BY DEF Quiet
  <1>. QED  BY <1>1, <1>2, <1>3, <1>4, <1>5, <1>6, <1>7, <1>8, <1>9, Kinds

\* Every step keeps it.
LEMMA LandStep ==
    ASSUME TypeOK, WireInv, LandInv, [Next]_vars
    PROVE  LandInv'
  <1>0. \A m \in Mig : conn[m] = "over" => conn'[m] = "over"
    BY OverStays
  <1>1. landed \subseteq landed'
    BY Kinds
    DEF Quiet, Leaves, Hangs, Moves, Migrate, Freeze, Hash, Connect, Stream, Cut, ReadAck,
        StreamEnd, ReadResult, RxBuild, Accept, ReadHello, ReadChunk, ReadEof, Stray, history
  <1>2. ASSUME NEW m \in Mig, NEW f \in Frames(down'[m]), f.t = "result", f.ok
        PROVE  m \in landed' /\ conn'[m] = "over"
    BY <1>0, <1>1, <1>2, DownFrames DEF LandInv
  <1>3. ASSUME NEW m \in Mig, pc'[m] = "release"  PROVE m \in landed' /\ conn'[m] = "over"
    <2>1. pc[m] = "release" \/ (ReadResult(m) /\ ~Returns(m))
      <3>1. ASSUME NEW o \in Mig, Leaves(o)  PROVE pc[m] = "release"
        BY <1>3, <3>1, ReturnsEffect DEF Leaves
      <3>2. ASSUME NEW o \in Mig, ReadResult(o) /\ ~Returns(o)
            PROVE  pc[m] = "release" \/ o = m
        BY <1>3, <3>2 DEF ReadResult, TypeOK
      <3>3. ASSUME NEW o \in Mig, Freeze(o) \/ Hash(o) \/ Connect(o)
            PROVE  pc[m] = "release"
        BY <1>3, <3>3 DEF Freeze, Hash, Connect, TypeOK
      <3>4. ASSUME NEW o \in Mig, Stream(o) \/ Cut(o)
            PROVE  pc[m] = "release"
        BY <1>3, <3>4 DEF Stream, Cut, TypeOK
      <3>5. ASSUME NEW o \in Mig, (ReadAck(o) \/ StreamEnd(o)) /\ ~Returns(o)
            PROVE  pc[m] = "release"
        BY <1>3, <3>5 DEF ReadAck, StreamEnd, TypeOK
      <3>6. ASSUME NEW o \in Mig, NEW n \in Nodes, NEW to \in Nodes, NEW existing \in BOOLEAN,
                   Migrate(o, n, to, existing)
            PROVE  pc[m] = "release"
        BY <1>3, <3>6 DEF Migrate, TypeOK
      <3>7. ASSUME NEW n \in Nodes,
                   \/ Hangs(n) \/ Moves(n) \/ RxBuild(n)
                   \/ ReadHello(n) \/ ReadChunk(n) \/ ReadEof(n)
                   \/ \E o \in Mig : Accept(n, o) \/ Stray(o, n)
            PROVE  pc[m] = "release"
        <4>1. Hangs(n) \/ Moves(n) \/ RxBuild(n) => pc' = pc
          BY DEF Hangs, Moves, RxBuild
        <4>2. ReadHello(n) \/ ReadChunk(n) \/ ReadEof(n) => pc' = pc
          BY DEF ReadHello, ReadChunk, ReadEof
        <4>3. \A o \in Mig : Accept(n, o) => pc' = pc
          BY DEF Accept
        <4>4. ASSUME NEW o \in Mig, Stray(o, n)  PROVE pc[m] = "release"
          BY <1>3, <4>4 DEF Stray, TypeOK
        <4>. QED  BY <1>3, <3>7, <4>1, <4>2, <4>3, <4>4
      <3>8. Quiet => pc[m] = "release"
        BY <1>3 DEF Quiet
      <3>. QED  BY <3>1, <3>2, <3>3, <3>4, <3>5, <3>6, <3>7, <3>8, Kinds
    <2>2. CASE ReadResult(m) /\ ~Returns(m)
      <3>1. Head(down[m]).t = "result" /\ Head(down[m]).ok /\ down[m] # <<>>
        BY <2>2 DEF ReadResult, Confirmed
      <3>2. Head(down[m]) \in Frames(down[m])
        BY <3>1, FramesOf DEF TypeOK
      <3>. QED  BY <1>0, <1>1, <3>1, <3>2 DEF LandInv
    <2>. QED  BY <1>0, <1>1, <2>1, <2>2 DEF LandInv
  <1>4. ASSUME NEW n \in Nodes, rx'[n].ok
        PROVE  rx'[n].pc = "reply" /\ rx'[n].peer \in landed'
    <2>0. rx[n] \in Rx /\ rx \in [Nodes -> Rx] /\ ~Listening.ok
      BY DEF TypeOK, Listening
    <2>1. CASE rx'[n] = rx[n]
      BY <1>1, <1>4, <2>1 DEF LandInv
    <2>2. ASSUME NEW o \in Nodes, Hangs(o)  PROVE rx'[n] = rx[n]
      <3>1. rx[o].peer \in Mig
        BY <2>2 DEF Hangs, WireInv, Served
      <3>. QED  BY <1>4, <2>0, <2>2, <3>1, HangsUpEffect DEF Hangs
    <2>3. ASSUME NEW o \in Nodes, Moves(o)  PROVE rx'[n] = rx[n]
      <3>1. CASE n # o
        BY <2>0, <2>3, <3>1 DEF Moves
      <3>2. CASE n = o
        <4>1. ~rx[n].ok
          BY <2>3, <3>2 DEF Moves, LandInv
        <4>2. rx'[n].ok = rx[n].ok
          BY <2>0, <2>3, <3>2 DEF Moves, Rx
        <4>. QED  BY <1>4, <4>1, <4>2
      <3>. QED  BY <3>1, <3>2
    <2>4. ASSUME NEW o \in Nodes, RxBuild(o)
          PROVE  rx'[n] = rx[n] \/ (rx'[n].pc = "reply" /\ rx'[n].peer \in landed')
      BY <2>0, <2>4 DEF RxBuild, Rx
    <2>5. ASSUME NEW o \in Nodes, NEW m \in Mig, Accept(o, m)  PROVE rx'[n] = rx[n]
      <3>1. n = o => rx'[n] = [Listening EXCEPT !.pc = "hello", !.peer = m]
        BY <2>0, <2>5 DEF Accept
      <3>2. Listening \in Rx
        BY RxEdit
      <3>3. \A r \in Rx : [r EXCEPT !.pc = "hello", !.peer = m].ok = r.ok
        BY DEF Rx
      <3>4. n # o
        BY <1>4, <2>0, <3>1, <3>2, <3>3
      <3>. QED  BY <2>0, <2>5, <3>4 DEF Accept
    <2>6. ASSUME NEW o \in Nodes, ReadHello(o) \/ ReadChunk(o) \/ ReadEof(o), ~HangsUp(o)
          PROVE  rx'[n] = rx[n]
      <3>1. rx[o].pc \in {"hello", "recv"}
        BY <2>6 DEF ReadHello, ReadChunk, ReadEof
      <3>2. \/ UNCHANGED rx
            \/ rx' = [rx EXCEPT ![o].pc = "recv", ![o].crc = Head(up[rx[o].peer]).data]
            \/ rx' = [rx EXCEPT ![o].pc = "commit"]
        BY <2>6 DEF ReadHello, ReadChunk, ReadEof
      <3>3. rx'[n] = rx[n] \/ (n = o /\ rx'[n].ok = rx[n].ok)
        BY <2>0, <3>2 DEF Rx
      <3>. QED  BY <1>4, <3>1, <3>3 DEF LandInv
    <2>7. ASSUME NEW m \in Mig,
                 \/ Leaves(m) \/ Freeze(m) \/ Hash(m) \/ Connect(m) \/ Stream(m) \/ Cut(m)
                 \/ ReadAck(m) \/ StreamEnd(m) \/ ReadResult(m) \/ \E o \in Nodes : Stray(m, o)
                 \/ \E o, to \in Nodes, existing \in BOOLEAN : Migrate(m, o, to, existing)
          PROVE  rx'[n] = rx[n]
      BY <2>7 DEF Leaves, Freeze, Hash, Connect, Stream, Cut, ReadAck, StreamEnd, ReadResult,
                  Stray, Migrate
    <2>8. CASE Quiet
      BY <2>1, <2>8 DEF Quiet
    <2>. QED  BY <2>1, <2>2, <2>3, <2>4, <2>5, <2>6, <2>7, <2>8, Kinds
  <1>. QED  BY <1>2, <1>3, <1>4 DEF LandInv

\* A confirmation always stands for a container that was brought up.
LEMMA LandAlways == Spec => []LandInv
  <1>1. Init => LandInv
    <2>1. Frames(<<>>) = {}
      BY FramesOf
    <2>. QED  BY <2>1 DEF Init, LandInv, Listening
  <1>2. TypeOK /\ WireInv /\ LandInv /\ [Next]_vars => LandInv'
    BY LandStep
  <1>. QED  BY <1>1, <1>2, MigrationTypeCorrect, PTL DEF Spec

\* A node gives up its claim on the container only in the last step of a
\* migrate command whose container the target has brought up, whatever frames
\* were lost, answers came late or receivers were killed (migrate.rs).
THEOREM AlwaysReleasedAfterRunning == Spec => ReleasedAfterRunning
  <1>. DEFINE Gives == \A n \in Nodes :
                  file'[n].status = "migrated" /\ file[n].status # "migrated" =>
                      \E m \in landed : pc[m] = "release" /\ job[m].from = n
  <1>1. ASSUME TypeOK, LandInv, [Next]_vars  PROVE Gives
    <2>0. file \in [Nodes -> FileState] /\ Frozen.status # "migrated" /\ Adopted.status # "migrated"
      BY <1>1, FileEdit DEF Frozen, Adopted
    <2>1. ASSUME NEW m \in Mig, Release(m)  PROVE Gives
      <3>1. m \in landed /\ pc[m] = "release"
        BY <1>1, <2>1 DEF Release, LandInv
      <3>2. \A n \in Nodes : n # job[m].from => file'[n] = file[n]
        BY <2>0, <2>1 DEF Release
      <3>. QED  BY <3>1, <3>2
    <2>2. CASE UNCHANGED file
      BY <2>2
    <2>3. ASSUME NEW n \in Nodes,
                 NEW st \in {"running", "failed", "checkpointing", "checkpointed", "restoring",
                             file[n].status},
                 file' = [file EXCEPT ![n].status = st]
          PROVE  Gives
      BY <2>0, <2>3 DEF FileState
    <2>4. ASSUME NEW n \in Nodes, file' = [file EXCEPT ![n] = Frozen] \/ file' = [file EXCEPT ![n] = Adopted]
          PROVE  Gives
      BY <2>0, <2>4
    <2>. HIDE DEF Gives
    <2>5. ASSUME NEW n \in Nodes,
                 \/ Sweep(n) \/ Restore(n) \/ RestoreFail(n) \/ RestoreBlind(n) \/ RestoreKilled(n)
                 \/ RxRestore(n)
          PROVE  Gives
      <3>1. Resolved(n) \in {file[n].status, "checkpointed", "failed"}
        BY <1>1, SweepType
      <3>2. \E st \in {"running", "restoring", "checkpointed", Resolved(n)} :
                file' = [file EXCEPT ![n].status = st]
        BY <2>5 DEF Sweep, Restore, RestoreFail, RestoreBlind, RestoreKilled, RxRestore
      <3>. QED  BY <2>3, <3>1, <3>2
    <2>6. ASSUME NEW m \in Mig, Freeze(m) \/ FreezeFail(m) \/ PackFail(m) \/ KillFreeze(m)
          PROVE  Gives
      <3>1. job[m].from \in Nodes
        BY <1>1, JobEdit DEF TypeOK
      <3>2. \/ file' = [file EXCEPT ![job[m].from] = Frozen]
            \/ UNCHANGED file
            \/ \E st \in {"failed", "checkpointing"} :
                   file' = [file EXCEPT ![job[m].from].status = st]
        BY <2>6 DEF Freeze, FreezeFail, PackFail, KillFreeze, Wasted
      <3>. QED  BY <2>2, <2>3, <2>4, <3>1, <3>2
    <2>7. ASSUME NEW n \in Nodes, Adopt(n) \/ RxBuild(n) \/ RxBuildFail(n) \/ RxBuildBlind(n)
          PROVE  Gives
      BY <2>2, <2>3, <2>4, <2>7 DEF Adopt, RxBuild, Built, RxBuildFail, RxBuildBlind
    <2>8. ASSUME NEW m \in Mig,
                 \/ Hash(m) \/ Connect(m) \/ ConnectFail(m) \/ ReadAck(m)
                 \/ Stream(m) \/ StreamEnd(m) \/ StreamFail(m) \/ ReadResult(m) \/ GiveUp(m)
                 \/ Cut(m) \/ KillSender(m) \/ \E n \in Nodes : Stray(m, n) \/ Accept(n, m)
                 \/ \E n, to \in Nodes, existing \in BOOLEAN : Migrate(m, n, to, existing)
          PROVE  UNCHANGED file
      BY <2>8 DEF Hash, Connect, ConnectFail, ReadAck, Stream, StreamEnd, StreamFail,
                  ReadResult, GiveUp, Cut, KillSender, Stray, Accept, Migrate, disk
    <2>9. ASSUME NEW n \in Nodes,
                 \/ ReadHello(n) \/ ReadChunk(n) \/ ReadEof(n) \/ RxGiveUp(n) \/ RxCommit(n)
                 \/ Reply(n) \/ KillReceiver(n) \/ OrphanEngine(n) \/ Exit(n)
          PROVE  UNCHANGED file
      BY <2>9 DEF ReadHello, ReadChunk, ReadEof, RxGiveUp, RxCommit, Reply, KillReceiver,
                  OrphanEngine, Exit, disk
    <2>10. CASE UNCHANGED vars
      BY <2>2, <2>10 DEF vars, disk
    <2>. QED
      BY <1>1, <2>1, <2>2, <2>5, <2>6, <2>7, <2>8, <2>9, <2>10
      DEF Next, Operate, TxStep, RxStep, Environment
  <1>2. TypeOK /\ LandInv /\ [Next]_vars => [Gives]_vars
    BY <1>1
  <1>. QED
    BY <1>2, MigrationTypeCorrect, LandAlways, PTL DEF Spec, ReleasedAfterRunning

=============================================================================
