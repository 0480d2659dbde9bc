------------------------------- MODULE Spawn -------------------------------
(***************************************************************************)
(* container::spawn and Handle::wait: how one container is brought up and  *)
(* torn down by three processes and two pipes (container.rs).              *)
(*                                                                         *)
(* The parent ("par", a supervisor or a foreground command) makes the      *)
(* cgroup and forks the middle process ("mid"), which unshares and forks   *)
(* the container's first process ("gc").  mid tells par the pid of gc over *)
(* the pipe pidp; par puts gc in the cgroup, wires its network and lets it *)
(* go over the pipe go.  A read of a pipe returns when there is data or    *)
(* when nobody holds the write end any more.                               *)
(***************************************************************************)
EXTENDS Naturals

CONSTANTS
    Codes,   \* the exit codes of the container's command
    Faults   \* the failures that may happen

\* A system call or helper that fails, or a process that is killed.
FaultKinds == {"cgroup", "unshare", "join", "net", "setup", "parkill", "midkill", "gckill"}

ASSUME SpawnAssumption ==
    /\ Codes \subseteq 0 .. 255
    /\ Faults \subseteq FaultKinds

VARIABLES
    net,           \* cfg.network
    par, mid, gc,  \* control points of the three processes
    hold,          \* for each pipe end, the processes that have it open
    go,            \* the go byte is in its pipe
    sent,          \* the pid is in the pipe pidp
    pid,           \* what the parent took for the pid: none, gc or zero
    leaf,          \* the cgroup leaf exists
    members,       \* the processes in it
    veth,          \* absent, host (both ends on the host) or gc
    status,        \* how mid and gc ended
    result         \* what spawn and wait return: an exit code, or Failed

vars == <<net, par, mid, gc, hold, go, sent, pid, leaf, members, veth, status, result>>
pipes == <<hold, go, sent>>
host == <<leaf, members, veth>>

Procs == {"par", "mid", "gc"}
Ends == {"go_r", "go_w", "pidp_r", "pidp_w"}
ParPc == {"cgroup", "fork", "close", "readpid", "join", "net", "notify", "wait",
          "finish", "exited"}
MidPc == {"none", "close", "unshare", "fork", "writepid", "wait", "exited"}
GcPc == {"none", "close", "wait", "setup", "running", "exited"}
Ended == [how : {"none", "exited", "signaled"}, n : Nat]
Unended == [how |-> "none", n |-> 0]
Failed == 1000   \* an Err, outside the range of exit codes
Pending == 1001

Init ==
    /\ net \in BOOLEAN
    /\ par = "cgroup" /\ mid = "none" /\ gc = "none"
    /\ hold = [e \in Ends |-> {}]
    /\ go = FALSE /\ sent = FALSE
    /\ pid = "none"
    /\ leaf = FALSE /\ members = {} /\ veth = "absent"
    /\ status = [p \in {"mid", "gc"} |-> Unended]
    /\ result = Pending

-----------------------------------------------------------------------------
(* Helpers.  A Broken... operator is never used: it is the next definition *)
(* with a plausible mistake, for mutation testing.                         *)

Up == gc \notin {"none", "exited"}

\* close(2) of some ends by process p; a process that exits closes them all.
Closed(p, ends) == [e \in Ends |-> IF e \in ends THEN hold[e] \ {p} ELSE hold[e]]

\* The exit code that stands for a wait status.
Relay(st) == IF st.how = "exited" THEN st.n ELSE 128 + st.n

\* The parent leaves with an error: its caller reports it and exits.
Fail ==
    /\ par' = "exited"
    /\ result' = Failed
    /\ hold' = Closed("par", Ends)

\* mid and gc share the new network namespace, which goes with the last of them.
NetnsUp == Up \/ mid \in {"fork", "writepid", "wait"}

\* mid ends; the kernel closes its pipe ends.
EndMid(how, n) ==
    /\ mid' = "exited"
    /\ status' = [status EXCEPT !["mid"] = [how |-> how, n |-> n]]
    /\ hold' = Closed("mid", Ends)
    /\ veth' = IF veth = "gc" /\ ~Up THEN "absent" ELSE veth

\* gc ends; it leaves the cgroup.
EndGc(how, n) ==
    /\ gc' = "exited"
    /\ status' = [status EXCEPT !["gc"] = [how |-> how, n |-> n]]
    /\ hold' = Closed("gc", Ends)
    /\ members' = members \ {"gc"}
    /\ veth' = IF veth = "gc" /\ mid = "exited" THEN "absent" ELSE veth

-----------------------------------------------------------------------------
(* The parent: spawn *)

CreateCgroup ==
    /\ par = "cgroup"
    /\ leaf' = TRUE
    /\ par' = "fork"
    /\ UNCHANGED <<net, mid, gc, pipes, pid, members, veth, status, result>>

\* Cgroup::create, apply, make_pipe or fork fails.
CreateFail ==
    /\ "cgroup" \in Faults
    /\ par = "cgroup"
    /\ leaf' \in BOOLEAN
    /\ Fail
    /\ UNCHANGED <<net, mid, gc, go, sent, pid, members, veth, status>>

Fork ==
    /\ par = "fork"
    /\ hold' = [e \in Ends |-> {"par", "mid"}]
    /\ par' = "close" /\ mid' = "close"
    /\ UNCHANGED <<net, gc, go, sent, pid, host, status, result>>

BrokenParClose ==
    /\ par = "close"
    /\ hold' = Closed("par", {"go_r"})
    /\ par' = "readpid"
    /\ UNCHANGED <<net, mid, gc, go, sent, pid, host, status, result>>

ParClose ==
    /\ par = "close"
    /\ hold' = Closed("par", {"go_r", "pidp_w"})
    /\ par' = "readpid"
    /\ UNCHANGED <<net, mid, gc, go, sent, pid, host, status, result>>

BrokenPidReadable == TRUE

PidReadable == sent \/ hold["pidp_w"] = {}

\* read_pid ignores the result of read: at end of file the buffer is still 0.
ReadPid ==
    /\ par = "readpid"
    /\ PidReadable
    /\ pid' = IF sent THEN "gc" ELSE "zero"
    /\ sent' = FALSE
    /\ hold' = Closed("par", {"pidp_r"})
    /\ par' = "join"
    /\ UNCHANGED <<net, mid, gc, go, host, status, result>>

BrokenJoin ==
    /\ par = "join"
    /\ members' = members \cup {"mid"}
    /\ par' = IF net THEN "net" ELSE "notify"
    /\ UNCHANGED <<net, mid, gc, pipes, pid, leaf, veth, status, result>>

\* cgroup.add_process: to the kernel pid 0 is the writer itself.  A process
\* that has just died is not moved.
Join ==
    /\ par = "join"
    /\ members' = members \cup (CASE pid = "zero" -> {"par"}
                                  [] pid = "gc" /\ Up -> {"gc"}
                                  [] OTHER -> {})
    /\ par' = IF net THEN "net" ELSE "notify"
    /\ UNCHANGED <<net, mid, gc, pipes, pid, leaf, veth, status, result>>

JoinFail ==
    /\ par = "join"
    /\ "join" \in Faults \/ (pid = "gc" /\ ~Up)
    /\ Fail
    /\ UNCHANGED <<net, mid, gc, go, sent, pid, host, status>>

NetUp ==
    /\ par = "net"
    /\ pid = "gc" /\ Up
    /\ veth' = "gc"
    /\ par' = "notify"
    /\ UNCHANGED <<net, mid, gc, pipes, pid, leaf, members, status, result>>

\* Network::setup fails part of the way; there is no such process as 0.
NetFail ==
    /\ par = "net"
    /\ "net" \in Faults \/ pid = "zero" \/ ~Up
    /\ veth' \in {"absent", "host"} \cup (IF pid = "gc" /\ NetnsUp THEN {"gc"} ELSE {})
    /\ Fail
    /\ members' = members \ {"par"}
    /\ UNCHANGED <<net, mid, gc, go, sent, pid, leaf, status>>

Notify ==
    /\ par = "notify"
    /\ go' = TRUE
    /\ hold' = Closed("par", {"go_w"})
    /\ par' = "wait"
    /\ UNCHANGED <<net, mid, gc, sent, pid, host, status, result>>

(* The parent: Handle::wait *)

Reap ==
    /\ par = "wait"
    /\ mid = "exited"
    /\ result' = Relay(status["mid"])
    /\ par' = "finish"
    /\ UNCHANGED <<net, mid, gc, pipes, pid, host, status>>

BrokenFinish ==
    /\ par = "finish"
    /\ veth' = IF net THEN "absent" ELSE veth
    /\ members' = members \ {"par"}
    /\ hold' = Closed("par", Ends)
    /\ par' = "exited"
    /\ UNCHANGED <<net, mid, gc, go, sent, pid, leaf, status, result>>

\* The veth is deleted, then the cgroup if it is empty; then the parent exits.
Finish ==
    /\ par = "finish"
    /\ veth' = IF net THEN "absent" ELSE veth
    /\ leaf' = (leaf /\ members # {})
    /\ members' = members \ {"par"}
    /\ hold' = Closed("par", Ends)
    /\ par' = "exited"
    /\ UNCHANGED <<net, mid, gc, go, sent, pid, status, result>>

\* The supervisor is killed.
ParKilled ==
    /\ "parkill" \in Faults
    /\ par \notin {"cgroup", "fork", "exited"}
    /\ Fail
    /\ members' = members \ {"par"}
    /\ UNCHANGED <<net, mid, gc, go, sent, pid, leaf, veth, status>>

-----------------------------------------------------------------------------
(* The middle process *)

BrokenMidClose ==
    /\ mid = "close"
    /\ hold' = Closed("mid", {"pidp_r"})
    /\ mid' = "unshare"
    /\ UNCHANGED <<net, par, gc, go, sent, pid, host, status, result>>

MidClose ==
    /\ mid = "close"
    /\ hold' = Closed("mid", {"go_w", "pidp_r"})
    /\ mid' = "unshare"
    /\ UNCHANGED <<net, par, gc, go, sent, pid, host, status, result>>

Unshare ==
    /\ mid = "unshare"
    /\ mid' = "fork"
    /\ UNCHANGED <<net, par, gc, pipes, pid, host, status, result>>

\* unshare or the second fork fails: _exit(127), no pid is sent.
MidFail ==
    /\ "unshare" \in Faults
    /\ mid \in {"unshare", "fork"}
    /\ EndMid("exited", 127)
    /\ UNCHANGED <<net, par, gc, go, sent, pid, leaf, members, result>>

MidFork ==
    /\ mid = "fork"
    /\ hold' = [e \in Ends |-> IF "mid" \in hold[e] THEN hold[e] \cup {"gc"} ELSE hold[e]]
    /\ mid' = "writepid" /\ gc' = "close"
    /\ UNCHANGED <<net, par, go, sent, pid, host, status, result>>

WritePid ==
    /\ mid = "writepid"
    /\ sent' = TRUE
    /\ mid' = "wait"
    /\ UNCHANGED <<net, par, gc, hold, go, pid, host, status, result>>

BrokenMidReap ==
    /\ mid = "wait"
    /\ gc = "exited"
    /\ EndMid("exited", status["gc"].n)
    /\ UNCHANGED <<net, par, gc, go, sent, pid, leaf, members, result>>

\* waitpid, then _exit with the code that stands for the status.
MidReap ==
    /\ mid = "wait"
    /\ gc = "exited"
    /\ EndMid("exited", Relay(status["gc"]))
    /\ UNCHANGED <<net, par, gc, go, sent, pid, leaf, members, result>>

MidKilled ==
    /\ "midkill" \in Faults
    /\ mid \notin {"none", "exited"}
    /\ EndMid("signaled", 9)
    /\ UNCHANGED <<net, par, gc, go, sent, pid, leaf, members, result>>

-----------------------------------------------------------------------------
(* The container's first process *)

GcClose ==
    /\ gc = "close"
    /\ hold' = Closed("gc", {"pidp_w"})
    /\ gc' = "wait"
    /\ UNCHANGED <<net, par, mid, go, sent, pid, host, status, result>>

BrokenReleased == TRUE

\* wait_for ignores the result of read, so end of file releases it as well.
Released == go \/ hold["go_w"] = {}

Wake ==
    /\ gc = "wait"
    /\ Released
    /\ go' = FALSE
    /\ hold' = Closed("gc", {"go_r"})
    /\ gc' = "setup"
    /\ UNCHANGED <<net, par, mid, sent, pid, host, status, result>>

\* Session, mounts, root, stdio, hardening; then execvpe.
Exec ==
    /\ gc = "setup"
    /\ gc' = "running"
    /\ UNCHANGED <<net, par, mid, pipes, pid, host, status, result>>

SetupFail ==
    /\ "setup" \in Faults
    /\ gc = "setup"
    /\ EndGc("exited", 127)
    /\ UNCHANGED <<net, par, mid, go, sent, pid, leaf, result>>

Exit ==
    /\ gc = "running"
    /\ \E n \in Codes : EndGc("exited", n)
    /\ UNCHANGED <<net, par, mid, go, sent, pid, leaf, result>>

GcKilled ==
    /\ "gckill" \in Faults
    /\ Up
    /\ EndGc("signaled", 9)
    /\ UNCHANGED <<net, par, mid, go, sent, pid, leaf, result>>

-----------------------------------------------------------------------------

ParStep ==
    \/ CreateCgroup \/ CreateFail \/ Fork \/ ParClose \/ ReadPid
    \/ Join \/ JoinFail \/ NetUp \/ NetFail \/ Notify \/ Reap \/ Finish
MidStep == MidClose \/ Unshare \/ MidFail \/ MidFork \/ WritePid \/ MidReap
\* Up to the container's own program, which may run for ever.
GcStep == GcClose \/ Wake \/ Exec \/ SetupFail
Killed == ParKilled \/ MidKilled \/ GcKilled

\* Everything has come to an end.
AllEnded ==
    /\ par = "exited" /\ mid \in {"none", "exited"} /\ ~Up
    /\ UNCHANGED vars

Next == ParStep \/ MidStep \/ GcStep \/ Exit \/ Killed \/ AllEnded

Spec == Init /\ [][Next]_vars

\* Every process is scheduled.
FairSpec == Spec /\ WF_vars(ParStep) /\ WF_vars(MidStep) /\ WF_vars(GcStep)

-----------------------------------------------------------------------------
(* Properties *)

\* Every variable keeps its type.
TypeOK ==
    /\ net \in BOOLEAN
    /\ par \in ParPc /\ mid \in MidPc /\ gc \in GcPc
    /\ hold \in [Ends -> SUBSET Procs]
    /\ go \in BOOLEAN /\ sent \in BOOLEAN
    /\ pid \in {"none", "gc", "zero"}
    /\ leaf \in BOOLEAN
    /\ members \in SUBSET {"par", "gc"}
    /\ veth \in {"absent", "host", "gc"}
    /\ status \in [{"mid", "gc"} -> Ended]
    /\ result \in Nat

\* The container is set up and execs only once the parent has put it in the
\* cgroup and wired its network (container.rs:288), as long as the parent is
\* there and has learned the pid.
ReadyBeforeExec ==
    gc \in {"setup", "running"} /\ par # "exited" /\ pid # "zero" =>
        "gc" \in members /\ (net => veth = "gc")

\* Once there is a container, the pid in the Handle is the "Host-visible pid
\* of the container's PID 1" (container.rs:59), unless mid was killed.
HandleHasPid ==
    par = "wait" /\ gc # "none" /\ status["mid"].how # "signaled" => pid = "gc"

\* wait reports how the container ended: its exit code, or 128 + the signal.
ExitCodeRelayed ==
    gc = "exited" /\ status["mid"].how = "exited" /\ result \notin {Failed, Pending} =>
        result = Relay(status["gc"])

\* Once wait has returned the container is gone, with its veth and its cgroup,
\* unless mid was killed or failed before it sent the pid.
NothingLeft ==
    par = "exited" /\ result # Failed /\ pid = "gc" /\ status["mid"].how = "exited" =>
        ~Up /\ ~leaf /\ veth = "absent"

\* The parent does not wait for a pid that nobody will send.
PidArrives == par = "readpid" ~> par # "readpid"

\* The container's process does not wait for a parent that is gone.
NeverStranded == gc = "wait" ~> gc # "wait"

\* The parent notices the end of a container, if it gets that far itself.
EndNoticed == gc = "exited" ~> par = "exited"
=============================================================================
