----------------------------- MODULE Migration -----------------------------
(***************************************************************************)
(* Moving one container between nodes: the migrate command (migrate.rs,      *)
(* transport::send_snapshot) on one node and the receiver (transport.rs      *)
(* serve, handle_one) on the other, over one TCP connection per migration.   *)
(*                                                                           *)
(* Checkpoint and restore are single steps here, each with what it leaves    *)
(* when it fails or is killed somewhere inside; how they work inside is the  *)
(* module Lifecycle.  An engine outlives the command that ran it, and brings *)
(* its container up whenever it gets to it.  A snapshot is                   *)
(* the sequence of its chunks, each the number of the freeze that wrote it,  *)
(* so a file that was rewritten while it was read shows as a mixture.  A     *)
(* checksum stands for the content it was taken of.  Writing frames and      *)
(* flushing them is one step.                                                *)
(***************************************************************************)
EXTENDS Naturals, Sequences, FiniteSets

CONSTANTS
    Nodes,
    Home,         \* the node the container is started on
    Mig,          \* invocations of migrate: bounds their number
    None,
    Lens,         \* how many chunks a snapshot may have
    MaxFreezes,   \* bounds the checkpoints
    MaxRestores,  \* bounds the engines that restore
    Policy,       \* the operator looks first, follows advice, or does anything
    Faults,       \* the failures that may happen
    MaxKinds      \* how many kinds of them may meet in one behaviour

FaultKinds == {"stage", "dump", "pack", "refused", "token", "junk", "cut", "slow",
               "unpack", "build", "pidfile", "txkill", "rxkill"}

ASSUME MigrationAssumption ==
    /\ Home \in Nodes
    /\ None \notin Mig
    /\ Lens \subseteq Nat \ {0}
    /\ MaxFreezes \in Nat
    /\ MaxRestores \in Nat
    /\ Policy \in {"look", "advice", "any"}
    /\ Faults \subseteq FaultKinds
    /\ MaxKinds \in Nat

VARIABLES
    file,     \* state.json of each node: status, and which snapshot it records
    own,      \* snapshots/migrate.mcsnap of each node
    part,     \* inbox/<id>.mcsnap.part of each node
    inbox,    \* inbox/<id>.mcsnap of each node
    live,     \* how many copies of the container run on each node
    hidden,   \* how many of them no state.json names
    engines,  \* engines on each node that outlived the restore that ran them
    pc, job,  \* the migrate commands: control point and locals
    rx,       \* the receiver of each node
    conn,     \* each connection: none, backlog, serving, over
    cut,      \* the connections that silently carry nothing any more
    up, down, \* the frames on their way to the receiver and back
    freezes, restores,
    \* History, for the properties:
    written,  \* the snapshots checkpoint has written
    landed,   \* the migrations whose container was brought up on the target
    torn,     \* what a checkpoint that failed to write its snapshot left of it
    ended,    \* a container process ended by itself, or by a checkpoint come to nothing
    rash,     \* the operator acted without looking, or while such an engine was at work
    hits      \* the faults that have happened

disk == <<file, own, part, inbox>>
host == <<live, hidden, engines>>
wire == <<conn, cut, up, down>>
count == <<freezes, restores>>
history == <<written, torn, landed, ended, rash, hits>>
vars == <<disk, host, pc, job, rx, wire, count, history>>

Content == Seq(Nat)
Status == {"none", "running", "failed", "checkpointing", "checkpointed", "restoring", "migrated"}
TxPc == {"unused", "freeze", "hash", "connect", "ack", "stream", "result", "release", "done"}
RxPc == {"listen", "hello", "recv", "commit", "adopt", "restore", "build", "reply"}
FrameTypes == {"hello", "ack", "chunk", "eof", "result", "error", "junk"}

Frame == [t : FrameTypes, data : Content, n : Nat, ok : BOOLEAN]
Job == [from : Nodes, to : Nodes, path : {"own", "inbox"},
        crc : Content, view : Content, sent : Nat]
Rx == [pc : RxPc, peer : Mig \cup {None}, crc : Content, ok : BOOLEAN]

NoJob == [from |-> Home, to |-> Home, path |-> "own",
          crc |-> <<>>, view |-> <<>>, sent |-> 0]
Listening == [pc |-> "listen", peer |-> None, crc |-> <<>>, ok |-> FALSE]

Init ==
    /\ file = [n \in Nodes |-> [status |-> IF n = Home THEN "running" ELSE "none",
                                snap |-> "none"]]
    /\ own = [n \in Nodes |-> <<>>]
    /\ part = [n \in Nodes |-> <<>>]
    /\ inbox = [n \in Nodes |-> <<>>]
    /\ live = [n \in Nodes |-> IF n = Home THEN 1 ELSE 0]
    /\ hidden = [n \in Nodes |-> 0]
    /\ engines = [n \in Nodes |-> 0]
    /\ pc = [m \in Mig |-> "unused"]
    /\ job = [m \in Mig |-> NoJob]
    /\ rx = [n \in Nodes |-> Listening]
    /\ conn = [m \in Mig |-> "none"]
    /\ cut = {}
    /\ up = [m \in Mig |-> <<>>]
    /\ down = [m \in Mig |-> <<>>]
    /\ freezes = 0 /\ restores = 0
    /\ written = {} /\ torn = {} /\ landed = {} /\ ended = FALSE /\ rash = FALSE /\ hits = {}

-----------------------------------------------------------------------------
(* Helpers *)

Snapshot(n) ==
    CASE file[n].snap = "own" -> own[n]
      [] file[n].snap = "inbox" -> inbox[n]
      [] OTHER -> <<>>

\* SnapshotReader::open and verify accept what a checkpoint finished.
Whole(content) == content \in written

MkFrame(t, data, n, ok) == [t |-> t, data |-> data, n |-> n, ok |-> ok]

\* What is written to a connection that is cut, or whose other end is gone,
\* goes nowhere.
Sent(q, m, f, gone) == [q EXCEPT ![m] = IF m \in cut \/ gone THEN @ ELSE Append(@, f)]
ToReceiver(m, f) == Sent(up, m, f, conn[m] = "over")
ToSender(m, f) == Sent(down, m, f, pc[m] = "done")

\* The migrate command returns; nobody reads what is still on its way to it.
Returns(m) ==
    /\ pc' = [pc EXCEPT ![m] = "done"]
    /\ job' = [job EXCEPT ![m] = [NoJob EXCEPT !.from = job[m].from, !.to = job[m].to]]
    /\ down' = [down EXCEPT ![m] = <<>>]

\* handle_one returns, and the receiver listens again.
HangsUp(n) ==
    /\ rx' = [rx EXCEPT ![n] = Listening]
    /\ conn' = [conn EXCEPT ![rx[n].peer] = "over"]
    /\ up' = [up EXCEPT ![rx[n].peer] = <<>>]

\* The content the sender's open file has now: a rewrite in place shows through,
\* a file renamed over it does not.
Streamed(m) == IF job[m].path = "own" THEN own[job[m].from] ELSE job[m].view

Nowhere == \A n \in Nodes : live[n] = 0
NoEngine == \A n \in Nodes : engines[n] = 0
Idle ==
    /\ \A m \in Mig : pc[m] \in {"unused", "done"}
    /\ \A n \in Nodes : rx[n].pc = "listen"

\* A migrate from this node failed, and said to restore here or to retry.
Advised(n) ==
    /\ file[n].status = "checkpointed"
    /\ \E m \in Mig : pc[m] = "done" /\ job[m].from = n

\* The operator acts on node n: with a look at every node, or without; and having
\* waited for the engines that still run, or not.
Acts(n, looked, waited) ==
    /\ looked \/ Policy = "any" \/ (Policy = "advice" /\ Advised(n))
    /\ rash' = (rash \/ ~looked \/ ~waited)

Fault(f) ==
    /\ f \in Faults
    /\ hits' = hits \cup {f}
    /\ Cardinality(hits') <= MaxKinds

\* A socket without a read timeout.
BrokenDeadRead(q, m, gone) == q[m] = <<>> /\ gone /\ UNCHANGED hits

\* A read that fails: nothing is there to read, and the connection was cut, or
\* the other end is gone, or the read timed out.
DeadRead(q, m, gone) ==
    /\ q[m] = <<>>
    /\ \/ (m \in cut \/ gone) /\ UNCHANGED hits
       \/ Fault("slow")

\* An engine is started.
Engine == restores < MaxRestores /\ restores' = restores + 1

-----------------------------------------------------------------------------
(* restore::reconcile, which `ps` runs, and every restore first *)

\* The process that state.json names is alive.
Recorded(n) == live[n] > hidden[n]

Stale(n) ==
    \/ file[n].status \in {"checkpointing", "restoring"}
    \/ file[n].status = "running" /\ ~Recorded(n)

\* The label it leaves, and the copies: the recorded one is killed.
Resolved(n) ==
    IF ~Stale(n) THEN file[n].status
    ELSE IF Snapshot(n) # <<>> THEN "checkpointed" ELSE "failed"
Spared(n) == IF Stale(n) THEN hidden[n] ELSE live[n]
Reaps(n) == ended' = (ended \/ Spared(n) # live[n])

Sweep(n) ==
    /\ Stale(n)
    /\ Acts(n, Idle, TRUE)
    /\ Reaps(n)
    /\ live' = [live EXCEPT ![n] = Spared(n)]
    /\ file' = [file EXCEPT ![n].status = Resolved(n)]
    /\ UNCHANGED <<own, part, inbox, hidden, engines, pc, job, rx, wire, count, written, torn,
                   landed, hits>>

-----------------------------------------------------------------------------
(* The operator, and the migrate command *)

\* migrate freezes a running container, or ships the recorded snapshot.
Migrate(m, n, to, existing) ==
    /\ pc[m] = "unused"
    /\ n # to
    /\ IF existing THEN Snapshot(n) # <<>> ELSE file[n].status = "running"
    /\ Acts(n, Idle /\ (existing => Nowhere), NoEngine)
    /\ pc' = [pc EXCEPT ![m] = IF existing THEN "hash" ELSE "freeze"]
    /\ job' = [job EXCEPT ![m] =
                 [NoJob EXCEPT !.from = n, !.to = to,
                               !.path = IF existing THEN file[n].snap ELSE "own"]]
    /\ UNCHANGED <<disk, host, rx, wire, count, written, torn, landed, ended, hits>>

\* `mincontainer restore` on node n gets past its checks, reconciliation first: any
\* status will do but running with a process.  A restore that fails before its mark
\* has done no more than a Sweep.
Restorable(n) ==
    /\ file[n].status # "none"
    /\ ~(file[n].status = "running" /\ Recorded(n))
    /\ Whole(Snapshot(n))

Restores(n) ==
    /\ Restorable(n)
    /\ Acts(n, Idle /\ Nowhere, NoEngine)
    /\ Reaps(n)

\* All of it.
Restore(n) ==
    /\ Restores(n)
    /\ Engine
    /\ file' = [file EXCEPT ![n].status = "running"]
    /\ live' = [live EXCEPT ![n] = Spared(n) + 1]
    /\ hidden' = [hidden EXCEPT ![n] = Spared(n)]
    /\ UNCHANGED <<own, part, inbox, engines, pc, job, rx, wire, freezes, written, torn, landed, hits>>

\* Failing before the engine it leaves its mark, failing later it rolls back.
RestoreFail(n) ==
    /\ Restores(n)
    /\ Fault("build")
    /\ \E st \in {"restoring", "checkpointed"} : file' = [file EXCEPT ![n].status = st]
    /\ live' = [live EXCEPT ![n] = Spared(n)]
    /\ UNCHANGED <<own, part, inbox, hidden, engines, pc, job, rx, wire, count, written, torn, landed>>

\* The engine succeeds and its pid file cannot be read: it is rolled back without
\* a pid to kill.
RestoreBlind(n) ==
    /\ Restores(n)
    /\ Fault("pidfile")
    /\ Engine
    /\ file' = [file EXCEPT ![n].status = "checkpointed"]
    /\ live' = [live EXCEPT ![n] = Spared(n) + 1]
    /\ hidden' = [hidden EXCEPT ![n] = @ + 1]
    /\ UNCHANGED <<own, part, inbox, engines, pc, job, rx, wire, freezes, written, torn, landed>>

\* Killed after its mark, before or while its engine runs.
RestoreKilled(n) ==
    /\ Restores(n)
    /\ Fault("rxkill")
    /\ file' = [file EXCEPT ![n].status = "restoring"]
    /\ live' = [live EXCEPT ![n] = Spared(n)]
    /\ \/ Engine /\ engines' = [engines EXCEPT ![n] = @ + 1]
       \/ UNCHANGED <<restores, engines>>
    /\ UNCHANGED <<own, part, inbox, hidden, pc, job, rx, wire, freezes, written, torn, landed>>

BrokenFreezes(n) == live
BrokenFrozen == [status |-> "checkpointed", snap |-> "none"]

\* criu dump ends the process tree it saves.
Freezes(n) == [live EXCEPT ![n] = @ - 1]

\* Checkpoint records the status and the snapshot in one write of state.json.
Frozen == [status |-> "checkpointed", snap |-> "own"]

\* checkpoint's checks, of the status and of the process; and the bound.
Freezable(n) ==
    /\ file[n].status = "running"
    /\ Recorded(n)
    /\ freezes < MaxFreezes

\* checkpoint::checkpoint
Freeze(m) ==
    LET n == job[m].from IN
    /\ pc[m] = "freeze"
    /\ Freezable(n)
    /\ \E len \in Lens :
          LET new == [i \in 1 .. len |-> freezes] IN
          /\ own' = [own EXCEPT ![n] = new]
          /\ written' = written \cup {new}
    /\ live' = Freezes(n)
    /\ file' = [file EXCEPT ![n] = Frozen]
    /\ freezes' = freezes + 1
    /\ pc' = [pc EXCEPT ![m] = "hash"]
    /\ UNCHANGED <<part, inbox, hidden, engines, job, rx, wire, restores, torn, landed, ended, rash,
                   hits>>

\* The dump has ended the container, and its snapshot is not on record: the mark
\* stays, and the earlier snapshot is still there, or what was written over it, in
\* part or all of it.
Wasted(n) ==
    /\ \/ UNCHANGED <<own, torn, written>>
       \/ \E size \in Lens : \E len \in 1 .. size - 1 :
             LET rest == [i \in 1 .. len |-> freezes] IN
             /\ own' = [own EXCEPT ![n] = rest]
             /\ torn' = torn \cup {rest}
             /\ UNCHANGED written
       \/ \E len \in Lens :
             LET new == [i \in 1 .. len |-> freezes] IN
             /\ own' = [own EXCEPT ![n] = new]
             /\ written' = written \cup {new}
             /\ UNCHANGED torn
    /\ live' = Freezes(n)
    /\ file' = [file EXCEPT ![n].status = "checkpointing"]
    /\ freezes' = freezes + 1
    /\ ended' = TRUE

\* The snapshot cannot be written, or its record cannot.
PackFail(m) ==
    /\ pc[m] = "freeze"
    /\ Freezable(job[m].from)
    /\ Fault("pack")
    /\ Wasted(job[m].from)
    /\ Returns(m)
    /\ UNCHANGED <<part, inbox, hidden, engines, rx, conn, cut, up, restores, landed, rash>>

\* Refused; or the dump fails, and the container runs on or is lost; or there is no
\* place for the images, and the mark stays.
FreezeFail(m) ==
    LET n == job[m].from IN
    /\ pc[m] = "freeze"
    /\ \/ ~Freezable(n) /\ UNCHANGED <<file, live, ended, hits>>
       \/ Freezable(n) /\ Fault("dump") /\ UNCHANGED <<file, live, ended>>
       \/ /\ Freezable(n)
          /\ Fault("dump")
          /\ file' = [file EXCEPT ![n].status = "failed"]
          /\ live' = Freezes(n)
          /\ ended' = TRUE
       \/ /\ Freezable(n)
          /\ Fault("stage")
          /\ file' = [file EXCEPT ![n].status = "checkpointing"]
          /\ UNCHANGED <<live, ended>>
    /\ Returns(m)
    /\ UNCHANGED <<own, part, inbox, hidden, engines, rx, conn, cut, up, count, written, torn, landed,
                   rash>>

\* Killed in its checkpoint: before the mark, before the dump has ended the
\* container (a dump that runs on by itself may end it later, as Exit does), or
\* after it.
KillFreeze(m) ==
    LET n == job[m].from IN
    /\ pc[m] = "freeze"
    /\ Fault("txkill")
    /\ \/ UNCHANGED <<file, own, live, freezes, written, torn, ended>>
       \/ /\ Freezable(n)
          /\ file' = [file EXCEPT ![n].status = "checkpointing"]
          /\ UNCHANGED <<own, live, freezes, written, torn, ended>>
       \/ Freezable(n) /\ Wasted(n)
    /\ Returns(m)
    /\ UNCHANGED <<part, inbox, hidden, engines, rx, conn, cut, up, restores, landed, rash>>

\* crc_of_file, before connecting.
Hash(m) ==
    LET content == IF job[m].path = "own" THEN own[job[m].from] ELSE inbox[job[m].from] IN
    /\ pc[m] = "hash"
    /\ job' = [job EXCEPT ![m].crc = content]
    /\ pc' = [pc EXCEPT ![m] = "connect"]
    /\ UNCHANGED <<disk, host, rx, wire, count, history>>

Connect(m) ==
    /\ pc[m] = "connect"
    /\ up' = [up EXCEPT ![m] = <<MkFrame("hello", job[m].crc, Len(job[m].crc), TRUE)>>]
    /\ conn' = [conn EXCEPT ![m] = "backlog"]
    /\ pc' = [pc EXCEPT ![m] = "ack"]
    /\ UNCHANGED <<disk, host, job, rx, cut, down, count, history>>

ConnectFail(m) ==
    /\ pc[m] = "connect"
    /\ Fault("refused")
    /\ Returns(m)
    /\ UNCHANGED <<disk, host, rx, conn, cut, up, count, written, torn, landed, ended, rash>>

ReadAck(m) ==
    /\ pc[m] = "ack"
    /\ down[m] # <<>>
    /\ IF Head(down[m]).t = "ack" /\ Head(down[m]).ok
         THEN /\ pc' = [pc EXCEPT ![m] = "stream"]
              /\ job' = [job EXCEPT ![m].view = inbox[job[m].from]]
              /\ down' = [down EXCEPT ![m] = Tail(@)]
         ELSE Returns(m)
    /\ UNCHANGED <<disk, host, rx, conn, cut, up, count, history>>

\* The next chunk of what the file holds by now.
Stream(m) ==
    /\ pc[m] = "stream"
    /\ job[m].sent < Len(Streamed(m))
    /\ up' = ToReceiver(m, MkFrame("chunk", <<Streamed(m)[job[m].sent + 1]>>, 1, TRUE))
    /\ job' = [job EXCEPT ![m].sent = @ + 1]
    /\ UNCHANGED <<disk, host, pc, rx, conn, cut, down, count, history>>

\* End of the file: refuse if it has changed its size, else EOF and wait.
StreamEnd(m) ==
    /\ pc[m] = "stream"
    /\ job[m].sent >= Len(Streamed(m))
    /\ IF job[m].sent = Len(job[m].crc)
         THEN /\ up' = ToReceiver(m, MkFrame("eof", job[m].crc, job[m].sent, TRUE))
              /\ pc' = [pc EXCEPT ![m] = "result"]
              /\ UNCHANGED <<job, down>>
         ELSE Returns(m) /\ UNCHANGED up
    /\ UNCHANGED <<disk, host, rx, conn, cut, count, history>>

\* A write to a receiver that has hung up fails.
StreamFail(m) ==
    /\ pc[m] = "stream"
    /\ m \in cut \/ conn[m] = "over"
    /\ Returns(m)
    /\ UNCHANGED <<disk, host, rx, conn, cut, up, count, history>>

BrokenConfirmed(f) == f.t = "result"

\* Only a RESULT that says the container is running counts.
Confirmed(f) == f.t = "result" /\ f.ok

ReadResult(m) ==
    /\ pc[m] = "result"
    /\ down[m] # <<>>
    /\ IF Confirmed(Head(down[m]))
         THEN /\ pc' = [pc EXCEPT ![m] = "release"]
              /\ down' = [down EXCEPT ![m] = Tail(@)]
              /\ UNCHANGED job
         ELSE Returns(m)
    /\ UNCHANGED <<disk, host, rx, conn, cut, up, count, history>>

\* Silence taken for success.
BrokenGiveUp(m) ==
    /\ pc[m] \in {"ack", "result"}
    /\ DeadRead(down, m, conn[m] = "over")
    /\ pc' = [pc EXCEPT ![m] = "release"]
    /\ UNCHANGED <<disk, host, job, rx, wire, count, written, torn, landed, ended, rash>>

\* An error while waiting for the receiver: the container "was NOT handed over".
GiveUp(m) ==
    /\ pc[m] \in {"ack", "result"}
    /\ DeadRead(down, m, conn[m] = "over")
    /\ Returns(m)
    /\ UNCHANGED <<disk, host, rx, conn, cut, up, count, written, torn, landed, ended, rash>>

\* Unless migrate was told to keep the container; the pid is cleared unseen.
Release(m) ==
    /\ pc[m] = "release"
    /\ \/ /\ file' = [file EXCEPT ![job[m].from].status = "migrated"]
          /\ hidden' = [hidden EXCEPT ![job[m].from] = live[job[m].from]]
       \/ UNCHANGED <<file, hidden>>
    /\ Returns(m)
    /\ UNCHANGED <<own, part, inbox, live, engines, rx, conn, cut, up, count, history>>

-----------------------------------------------------------------------------
(* The receiver: serve takes one connection at a time through handle_one *)

Accept(n, m) ==
    /\ rx[n].pc = "listen"
    /\ conn[m] = "backlog"
    /\ job[m].to = n
    /\ conn' = [conn EXCEPT ![m] = "serving"]
    /\ rx' = [rx EXCEPT ![n] = [Listening EXCEPT !.pc = "hello", !.peer = m]]
    /\ UNCHANGED <<disk, host, pc, job, cut, up, down, count, history>>

\* Refuse (version, token, architecture), or acknowledge and open the .part file.
ReadHello(n) ==
    LET m == rx[n].peer IN
    /\ rx[n].pc = "hello"
    /\ up[m] # <<>>
    /\ \/ /\ Head(up[m]).t = "hello"
          /\ down' = ToSender(m, MkFrame("ack", <<>>, 0, TRUE))
          /\ part' = [part EXCEPT ![n] = <<>>]
          /\ rx' = [rx EXCEPT ![n].pc = "recv", ![n].crc = Head(up[m]).data]
          /\ up' = [up EXCEPT ![m] = Tail(@)]
          /\ UNCHANGED <<conn, hits>>
       \/ /\ Head(up[m]).t = "hello"
          /\ Fault("token")
          /\ down' = ToSender(m, MkFrame("ack", <<>>, 0, FALSE))
          /\ HangsUp(n)
          /\ UNCHANGED part
       \/ /\ Head(up[m]).t # "hello"
          /\ HangsUp(n)
          /\ UNCHANGED <<down, part, hits>>
    /\ UNCHANGED <<file, own, inbox, host, pc, job, cut, count, written, torn, landed, ended, rash>>

ReadChunk(n) ==
    LET m == rx[n].peer
        f == Head(up[m])
        got == part[n] \o f.data IN
    /\ rx[n].pc = "recv"
    /\ up[m] # <<>>
    /\ f.t = "chunk"
    /\ IF Len(got) > Len(rx[n].crc)      \* more than announced
         THEN /\ part' = [part EXCEPT ![n] = <<>>]
              /\ HangsUp(n)
         ELSE /\ part' = [part EXCEPT ![n] = got]
              /\ up' = [up EXCEPT ![m] = Tail(@)]
              /\ UNCHANGED <<rx, conn>>
    /\ UNCHANGED <<file, own, inbox, host, pc, job, cut, down, count, history>>

BrokenIntact(f, got, announced) == f.n = Len(got)
OffByOneIntact(f, got, announced) == f.n = Len(got) - 1 /\ f.data = got /\ got = announced

\* The bytes, the sender's checksum and the announced one all agree.
Intact(f, got, announced) == f.n = Len(got) /\ f.data = got /\ got = announced

ReadEof(n) ==
    LET m == rx[n].peer
        f == Head(up[m]) IN
    /\ rx[n].pc = "recv"
    /\ up[m] # <<>>
    /\ f.t = "eof"
    /\ IF Intact(f, part[n], rx[n].crc)
         THEN /\ rx' = [rx EXCEPT ![n].pc = "commit"]
              /\ up' = [up EXCEPT ![m] = Tail(@)]
              /\ UNCHANGED <<part, conn, down>>
         ELSE /\ part' = [part EXCEPT ![n] = <<>>]
              /\ down' = ToSender(m, MkFrame("error", <<>>, 0, FALSE))
              /\ HangsUp(n)
    /\ UNCHANGED <<file, own, inbox, host, pc, job, cut, count, history>>

\* A read that fails ends this transfer; the .part file stays where it is.
RxGiveUp(n) ==
    /\ rx[n].pc \in {"hello", "recv"}
    /\ DeadRead(up, rx[n].peer, pc[rx[n].peer] = "done")
    /\ HangsUp(n)
    /\ UNCHANGED <<disk, host, pc, job, cut, down, count, written, torn, landed, ended, rash>>

RxCommit(n) ==
    /\ rx[n].pc = "commit"
    /\ inbox' = [inbox EXCEPT ![n] = part[n]]
    /\ part' = [part EXCEPT ![n] = <<>>]
    /\ rx' = [rx EXCEPT ![n].pc = "adopt"]
    /\ UNCHANGED <<file, own, host, pc, job, wire, count, history>>

Adopted == [status |-> "checkpointed", snap |-> "inbox"]

\* adopt_snapshot verifies the file, and writes its state over whatever this
\* node had.
Adopt(n) ==
    /\ rx[n].pc = "adopt"
    /\ IF Whole(inbox[n])
         THEN /\ file' = [file EXCEPT ![n] = Adopted]
              /\ hidden' = [hidden EXCEPT ![n] = live[n]]
              /\ rx' = [rx EXCEPT ![n].pc = "restore"]
         ELSE /\ rx' = [rx EXCEPT ![n].pc = "reply"]
              /\ UNCHANGED <<file, hidden>>
    /\ UNCHANGED <<own, part, inbox, live, engines, pc, job, wire, count, history>>

\* restore::restore up to its mark: reconciliation, the check for a running
\* container, and the unpacking, which may fail.
RxRestore(n) ==
    /\ rx[n].pc = "restore"
    /\ Reaps(n)
    /\ live' = [live EXCEPT ![n] = Spared(n)]
    /\ \/ /\ ~(file[n].status = "running" /\ Recorded(n))
          /\ file' = [file EXCEPT ![n].status = "restoring"]
          /\ rx' = [rx EXCEPT ![n].pc = "build"]
          /\ UNCHANGED hits
       \/ /\ \/ file[n].status = "running" /\ Recorded(n) /\ UNCHANGED hits
             \/ Fault("unpack")
          /\ file' = [file EXCEPT ![n].status = Resolved(n)]
          /\ rx' = [rx EXCEPT ![n].pc = "reply"]
    /\ UNCHANGED <<own, part, inbox, hidden, engines, pc, job, wire, count, written, torn, landed, rash>>

BrokenBuilt(n) == file
\* The engine has brought the container up, and its pid is recorded.
Built(n) == [file EXCEPT ![n].status = "running"]

RxBuild(n) ==
    /\ rx[n].pc = "build"
    /\ Engine
    /\ live' = [live EXCEPT ![n] = @ + 1]
    /\ hidden' = [hidden EXCEPT ![n] = live[n]]
    /\ file' = Built(n)
    /\ rx' = [rx EXCEPT ![n].pc = "reply", ![n].ok = TRUE]
    /\ landed' = landed \cup {rx[n].peer}
    /\ UNCHANGED <<own, part, inbox, engines, pc, job, wire, freezes, written, torn, ended, rash, hits>>

\* Before the engine, the mark stays; later the rollback runs, and the state goes
\* back to checkpointed.
RxBuildFail(n) ==
    /\ rx[n].pc = "build"
    /\ \/ restores = MaxRestores /\ UNCHANGED hits
       \/ Fault("build")
    /\ \/ file' = [file EXCEPT ![n].status = "checkpointed"]
       \/ UNCHANGED file
    /\ rx' = [rx EXCEPT ![n].pc = "reply"]
    /\ UNCHANGED <<own, part, inbox, host, pc, job, wire, count, written, torn, landed, ended, rash>>

\* As RestoreBlind.
RxBuildBlind(n) ==
    /\ rx[n].pc = "build"
    /\ Fault("pidfile")
    /\ Engine
    /\ live' = [live EXCEPT ![n] = @ + 1]
    /\ hidden' = [hidden EXCEPT ![n] = @ + 1]
    /\ file' = [file EXCEPT ![n].status = "checkpointed"]
    /\ rx' = [rx EXCEPT ![n].pc = "reply"]
    /\ UNCHANGED <<own, part, inbox, engines, pc, job, wire, freezes, written, torn, landed, ended, rash>>

Reply(n) ==
    /\ rx[n].pc = "reply"
    /\ down' = ToSender(rx[n].peer, MkFrame("result", <<>>, 0, rx[n].ok))
    /\ HangsUp(n)
    /\ UNCHANGED <<disk, host, pc, job, cut, count, history>>

-----------------------------------------------------------------------------
(* The environment *)

\* From now on nothing arrives; of what was on its way, some did.
Cut(m) ==
    /\ conn[m] \in {"backlog", "serving"}
    /\ m \notin cut
    /\ Fault("cut")
    /\ cut' = cut \cup {m}
    /\ \E i \in 0 .. Len(up[m]), j \in 0 .. Len(down[m]) :
          /\ up' = [up EXCEPT ![m] = SubSeq(@, 1, i)]
          /\ down' = [down EXCEPT ![m] = SubSeq(@, 1, j)]
    /\ UNCHANGED <<disk, host, pc, job, rx, conn, count, written, torn, landed, ended, rash>>

\* Something that is no migrate command connects to a receiver.
Stray(m, n) ==
    /\ pc[m] = "unused"
    /\ Fault("junk")
    /\ pc' = [pc EXCEPT ![m] = "done"]
    /\ job' = [job EXCEPT ![m].to = n]
    /\ conn' = [conn EXCEPT ![m] = "backlog"]
    /\ up' = [up EXCEPT ![m] = <<MkFrame("junk", <<>>, 0, FALSE)>>]
    /\ UNCHANGED <<disk, host, rx, cut, down, count, written, torn, landed, ended, rash>>

KillSender(m) ==
    /\ pc[m] \notin {"unused", "freeze", "done"}
    /\ Fault("txkill")
    /\ Returns(m)
    /\ UNCHANGED <<disk, host, rx, conn, cut, up, count, written, torn, landed, ended, rash>>

\* The receiver is killed and started again; an engine it was waiting for runs on.
KillReceiver(n) ==
    /\ rx[n].pc # "listen"
    /\ Fault("rxkill")
    /\ HangsUp(n)
    /\ \/ UNCHANGED <<engines, restores>>
       \/ rx[n].pc = "build" /\ Engine /\ engines' = [engines EXCEPT ![n] = @ + 1]
    /\ UNCHANGED <<disk, live, hidden, pc, job, cut, down, freezes, written, torn, landed, ended, rash>>

\* Some time later it brings the container up, with nobody to record it, or fails.
OrphanEngine(n) ==
    /\ engines[n] > 0
    /\ engines' = [engines EXCEPT ![n] = @ - 1]
    /\ \/ /\ live' = [live EXCEPT ![n] = @ + 1]
          /\ hidden' = [hidden EXCEPT ![n] = @ + 1]
       \/ UNCHANGED <<live, hidden>>
    /\ UNCHANGED <<disk, pc, job, rx, wire, count, history>>

\* A copy ends; the label is not told apart from one whose process is gone.
Exit(n) ==
    /\ live[n] > 0
    /\ live' = [live EXCEPT ![n] = @ - 1]
    /\ \/ Recorded(n) /\ UNCHANGED hidden
       \/ hidden[n] > 0 /\ hidden' = [hidden EXCEPT ![n] = @ - 1]
    /\ ended' = TRUE
    /\ UNCHANGED <<disk, engines, pc, job, rx, wire, count, written, torn, landed, rash, hits>>

-----------------------------------------------------------------------------

Operate ==
    \/ \E m \in Mig, n, to \in Nodes, existing \in BOOLEAN : Migrate(m, n, to, existing)
    \/ \E n \in Nodes : \/ Sweep(n) \/ Restore(n) \/ RestoreFail(n) \/ RestoreBlind(n)
                       \/ RestoreKilled(n)

TxStep(m) ==
    \/ Freeze(m) \/ FreezeFail(m) \/ PackFail(m)
    \/ Hash(m) \/ Connect(m) \/ ConnectFail(m) \/ ReadAck(m)
    \/ Stream(m) \/ StreamEnd(m) \/ StreamFail(m) \/ ReadResult(m) \/ GiveUp(m) \/ Release(m)

RxStep(n) ==
    \/ \E m \in Mig : Accept(n, m)
    \/ ReadHello(n) \/ ReadChunk(n) \/ ReadEof(n) \/ RxGiveUp(n) \/ RxCommit(n) \/ Adopt(n)
    \/ RxRestore(n) \/ RxBuild(n) \/ RxBuildFail(n) \/ RxBuildBlind(n) \/ Reply(n)

Environment ==
    \/ \E m \in Mig : Cut(m) \/ KillFreeze(m) \/ KillSender(m)
    \/ \E m \in Mig, n \in Nodes : Stray(m, n)
    \/ \E n \in Nodes : KillReceiver(n) \/ OrphanEngine(n) \/ Exit(n)

Next ==
    \/ Operate
    \/ \E m \in Mig : TxStep(m)
    \/ \E n \in Nodes : RxStep(n)
    \/ Environment

Spec == Init /\ [][Next]_vars

\* Commands and receivers are scheduled, and a read that waits for nothing
\* fails after IO_TIMEOUT.
Fairness ==
    /\ \A m \in Mig : WF_vars(TxStep(m))
    /\ \A n \in Nodes : WF_vars(RxStep(n))

FairSpec == Spec /\ Fairness

-----------------------------------------------------------------------------
(* Properties *)

\* Every variable keeps its type.
TypeOK ==
    /\ file \in [Nodes -> [status : Status, snap : {"none", "own", "inbox"}]]
    /\ own \in [Nodes -> Content] /\ part \in [Nodes -> Content] /\ inbox \in [Nodes -> Content]
    /\ live \in [Nodes -> Nat] /\ hidden \in [Nodes -> Nat] /\ engines \in [Nodes -> Nat]
    /\ pc \in [Mig -> TxPc]
    /\ job \in [Mig -> Job]
    /\ rx \in [Nodes -> Rx]
    /\ conn \in [Mig -> {"none", "backlog", "serving", "over"}]
    /\ cut \in SUBSET Mig
    /\ up \in [Mig -> Seq(Frame)] /\ down \in [Mig -> Seq(Frame)]
    /\ freezes \in Nat /\ restores \in Nat
    /\ written \in SUBSET Content /\ torn \in SUBSET Content
    /\ landed \in SUBSET Mig
    /\ ended \in BOOLEAN /\ rash \in BOOLEAN
    /\ hits \in SUBSET FaultKinds

\* The container is never running in two places (migrate.rs:21).
NeverTwice ==
    /\ \A n \in Nodes : live[n] <= 1
    /\ \A n, o \in Nodes : live[n] > 0 /\ live[o] > 0 => n = o

\* ... as long as the operator looks at every node before acting, and also waits for
\* an engine that outlived a killed restore: it brings up a container that was not
\* there to be seen.
OnePlace == ~rash => NeverTwice

\* The failure mode is a container that stays put, never one that vanishes
\* (transport.rs:26-28): if it runs nowhere, did not end by itself and was not lost
\* in a checkpoint that failed or was killed, some node still offers a whole snapshot of it for
\* a plain restore.
NotLost ==
    Nowhere /\ ~ended =>
        \E n \in Nodes : /\ file[n].status \in {"checkpointed", "restoring"}
                         /\ Whole(Snapshot(n))

\* A half-received or mixed file is never mistaken for a snapshot
\* (transport.rs:496-497): what is renamed into the inbox is all of one file
\* that some node wrote, whatever happened to that file meanwhile.
InboxWhole == \A n \in Nodes : inbox[n] = <<>> \/ inbox[n] \in written \cup torn

\* A node gives up its claim only when the target has brought up the container
\* of this very migration (transport.rs:24-26).
ReleasedAfterRunning ==
    [][\A n \in Nodes :
          file'[n].status = "migrated" /\ file[n].status # "migrated" =>
              \E m \in landed : pc[m] = "release" /\ job[m].from = n]_vars

\* Once nothing is in flight, and the operator was not rash, a copy that runs is one
\* that its node's state.json names, as running, or as checkpointing after a
\* checkpoint that could not stage its images or was killed.  A copy that no record
\* names is left only by a killed restore or an unreadable pid file.
Tracked ==
    Idle /\ ~rash =>
        \A n \in Nodes :
            /\ Recorded(n) => \/ file[n].status = "running"
                              \/ /\ file[n].status = "checkpointing"
                                 /\ hits \cap {"stage", "txkill"} # {}
            /\ hidden[n] > 0 => hits \cap {"pidfile", "rxkill"} # {}

\* Every migrate command returns, and every receiver is free again, even from
\* a peer that says nothing any more: a command begins once, so that each of them
\* ends says that again and again none is under way.
MigrateEnds == []<>(\A m \in Mig : pc[m] \in {"unused", "done"})
ReceiverFrees == []<>(\A n \in Nodes : rx[n].pc = "listen")

\* Without a failure, a migration that has begun to ship hands over.
HandsOver ==
    \A m \in Mig :
        pc[m] = "hash" /\ hits = {} /\ ~rash /\ restores < MaxRestores ~>
            \/ m \in landed /\ pc[m] = "done"
            \/ hits # {} \/ rash

\* The promise that all this implements.
Handing == INSTANCE Handover WITH
    up <- {n \in Nodes : live[n] > 0},
    kept <- {n \in Nodes : Whole(Snapshot(n))},
    misused <- rash
KeepsPromise == Handing!Spec
=============================================================================
