----------------------------- MODULE Lifecycle -----------------------------
(***************************************************************************)
(* The life of one container id on one host.                               *)
(*                                                                         *)
(* Several processes act on it without a lock: the CLI commands of the     *)
(* operator (main.rs, checkpoint.rs, restore.rs), the detached supervisor  *)
(* of each `start`, the dump/restore engine (criu.rs) and the kernel.      *)
(* They meet in the state directory (state.json, the snapshots, staging)   *)
(* and in the host's resources (processes, the cgroup leaf, the veth).     *)
(*                                                                         *)
(* A read-modify-write of state.json is two steps, Load and a save action, *)
(* so an update of another actor can fall in between.  A single read or a  *)
(* single write of the file is atomic here.  A SIGKILL takes a process     *)
(* down at once.                                                           *)
(***************************************************************************)
EXTENDS Naturals, FiniteSets

CONSTANTS
    Cmds,         \* CLI invocations that may be in flight at the same time
    Sups,         \* supervisors and foreground starts: bounds the starts
    Pids,         \* host pids of container processes: bounds their number
    Names,        \* the snapshots/<name>.mcsnap a checkpoint may write
    Latest,       \* the name `latest`, the default of checkpoint and restore
    None,         \* Option::None
    Net,          \* cfg.network
    Uses,         \* for each command, the statuses the operator issues it in
    Patient,      \* the operator lets earlier work settle before the next command
    Faults,       \* the failures that may happen
    CrashPoints,  \* where a command may be killed outright
    MaxCrashes    \* bounds the number of such kills

Transient == {"checkpointing", "restoring"}
Status == {"created", "running", "stopped", "failed", "checkpointed"} \cup Transient

Commands == {"create", "start", "foreground", "stop", "ps", "checkpoint", "restore", "rm"}

FaultKinds == {"slowstart", "slowsup", "supkill", "earlykill", "spawn", "stage", "dump", "pack",
               "reject", "unpack", "prep", "engine", "pidfile", "build", "net", "recycle",
               "fgkill"}

CmdPc == {"idle", "await", "sigterm", "sigkill",
          "sweep", "reap", "debris", "settle",
          "pick", "verify", "unpack", "restoring", "prep", "engine", "build",
          "rollback", "unrestore", "restored", "clean",
          "mark", "stage", "dump", "undump", "supwait", "pack", "fill", "commit"}
CheckpointPc == {"mark", "stage", "dump", "undump", "supwait", "pack", "fill", "commit"}
SupPc == {"unused", "cgroup", "fork", "fail", "publish", "wait",
          "netdown", "cgdown", "check", "stop", "gone"}
\* Where an actor is inside state::update, or an equal load, edit and save.
UpdatePc == {"settle", "restoring", "unrestore", "restored", "mark", "undump",
             "commit", "fail", "publish", "stop"}

ASSUME DistinctActors ==
    /\ Cmds \cap Sups = {}
    /\ None \notin Pids \cup Sups \cup Names
    /\ {"absent", "host"} \cap Pids = {}
ASSUME NamesAssumption == Latest \in Names
ASSUME EnvironmentAssumption ==
    /\ Net \in BOOLEAN
    /\ Patient \in BOOLEAN
    /\ Uses \in [Commands -> SUBSET (Status \cup {"none"})]
    /\ Faults \subseteq FaultKinds
    /\ CrashPoints \subseteq CmdPc \ {"idle"}
    /\ MaxCrashes \in Nat

VARIABLES
    dir,      \* the container's state directory exists
    file,     \* state.json
    snaps,    \* each snapshot file: absent, torn or ok
    staging,  \* image sets under staging/
    owner,    \* each pid: free, ctr, dead, dumped, or other's (recycled)
    incg,     \* the container processes that are in the cgroup
    cgroup,   \* the cgroup leaf exists
    veth,     \* the veth: absent, host (both ends) or the pid whose netns has the peer
    pc, loc,  \* control point and locals of every command and supervisor
    jobs,     \* engine processes that outlive the command that ran them
    crashes,  \* commands killed so far
    botched   \* history: a checkpoint failed, or was killed, with its mark in place

disk == <<dir, file, snaps, staging>>
host == <<owner, incg, cgroup, veth>>
env == <<jobs, crashes, botched>>
vars == <<disk, host, pc, loc, env>>

Actors == Cmds \cup Sups
State == [status : Status, pid : Pids \cup {None},
          snapshot : Names \cup {None}, sup : Sups \cup {None}]
Locals == [op : {"none", "ps", "restore", "fg"}, name : Names \cup {None}, leave : BOOLEAN,
           pid : Pids \cup {None}, sup : Sups \cup {None}, flag : BOOLEAN,
           buf : State \cup {None}]
Jobs == [kind : {"dump", "restore"}, pid : Pids \cup {None}]

NewState == [status |-> "created", pid |-> None, snapshot |-> None, sup |-> None]
NoLocals == [op |-> "none", name |-> None, leave |-> FALSE, pid |-> None,
             sup |-> None, flag |-> FALSE, buf |-> None]

Init ==
    /\ dir = FALSE
    /\ file = NewState
    /\ snaps = [n \in Names |-> "absent"]
    /\ staging = {}
    /\ owner = [p \in Pids |-> "free"]
    /\ incg = {}
    /\ cgroup = FALSE
    /\ veth = "absent"
    /\ pc = [a \in Actors |-> IF a \in Cmds THEN "idle" ELSE "unused"]
    /\ loc = [a \in Actors |-> NoLocals]
    /\ jobs = {}
    /\ crashes = 0
    /\ botched = FALSE

-----------------------------------------------------------------------------
(* Helpers *)

Live == {p \in Pids : owner[p] = "ctr"}
Fresh(p) == owner[p] = "free"
\* pid_alive: whatever process the pid names now, ours or not.
Alive(p) == p \in Pids /\ owner[p] \in {"ctr", "other"}
Exists(n) == n \in Names /\ snaps[n] # "absent"

\* s is a `start` without --detach, which runs the container itself.
Foreground(s) == loc[s].op = "fg"

\* No supervisor is starting a container or tearing one down, no foreground
\* start has yet to return, and the kernel is not still tearing down the network
\* namespace of a dead one.
Settled ==
    /\ \A s \in Sups :
          \/ pc[s] \in {"unused", "gone"}
          \/ pc[s] = "wait" /\ loc[s].pid \in Live /\ ~Foreground(s)
    /\ veth \in Pids => veth \in Live

\* The operator issues command op: when it does is for the model's constants
\* to say, the code has no such guard.
Issues(c, op) ==
    /\ pc[c] = "idle"
    /\ Patient => Settled
    /\ (IF dir THEN file.status ELSE "none") \in Uses[op]

Goto(a, l) == pc' = [pc EXCEPT ![a] = l]
Bind(a, r) == loc' = [loc EXCEPT ![a] = r]
Return(c) == Goto(c, "idle") /\ Bind(c, NoLocals)

\* Processes `ps` end; the kernel takes them out of their cgroup.
End(ps, how) ==
    /\ owner' = [p \in Pids |-> IF p \in ps THEN how ELSE owner[p]]
    /\ incg' = incg \ ps
\* kill(pid, sig) reaches whatever has the pid.
Hit(p) == End(IF Alive(p) THEN {p} ELSE {}, "dead")
\* rmdir of a cgroup fails, and is ignored, while `members` are in it.
Rmdir(members) == cgroup' = (cgroup /\ members # {})

(* Failing between `cgroup.add_process` and the end of `Network::setup`:   *)
(* process p joined the cgroup or did not, and the veth is left as v.  It  *)
(* happens when the fault does, and it must when the leaf is gone, the     *)
(* process is dead or the veth's name is taken.                            *)
HalfWired(p, joined, v, fault) ==
    /\ joined => cgroup
    /\ \/ ~joined /\ v = veth
       \/ joined /\ v = veth
       \/ joined /\ Net /\ veth = "absent" /\ v \in {"host", p}
    /\ \/ fault
       \/ ~joined /\ (~cgroup \/ owner[p] \in {"dead", "dumped"})
       \/ joined /\ Net /\ veth # "absent" /\ v = veth

\* state::update begins by loading the file.
Load(a) ==
    /\ pc[a] \in UpdatePc
    /\ loc[a].buf = None
    /\ dir
    /\ Bind(a, [loc[a] EXCEPT !.buf = file])
    /\ UNCHANGED <<disk, host, pc, env>>

\* ... and ends by writing the edited copy over whatever the file holds now.
Save(a, new) ==
    /\ loc[a].buf # None
    /\ dir
    /\ file' = new
    /\ UNCHANGED <<dir, snaps>>

-----------------------------------------------------------------------------
(* The edits of state.rs.  A Broken... operator is never used: it is the   *)
(* next definition with a plausible mistake, for mutation testing.         *)

SetRunningUnder(st, p, s) == [st EXCEPT !.status = "running", !.pid = p, !.sup = s]

\* The pid stays in the file.
SetStopped(st) == [st EXCEPT !.status = "stopped"]

SetCheckpointed(st, name) ==
    [st EXCEPT !.status = "checkpointed", !.pid = None, !.sup = None, !.snapshot = name]

BrokenSetRestoredSup(st, p) == [st EXCEPT !.status = "running", !.pid = p, !.sup = p]

SetRestored(st, p) == [st EXCEPT !.status = "running", !.pid = p, !.sup = None]

-----------------------------------------------------------------------------
(* create, rm *)

Create(c) ==
    /\ Issues(c, "create")
    /\ dir' = TRUE
    /\ file' = NewState
    /\ UNCHANGED <<snaps, staging, host, pc, loc, env>>

\* The operator does not run `rm` against a command still in flight.
Rm(c) ==
    /\ Issues(c, "rm")
    /\ dir
    /\ \A d \in Cmds : pc[d] = "idle"
    /\ dir' = FALSE
    /\ file' = NewState
    /\ snaps' = [n \in Names |-> "absent"]
    /\ staging' = {}
    /\ UNCHANGED <<host, pc, loc, env>>

-----------------------------------------------------------------------------
(* start --detach: fork the supervisor, then poll the state file *)

Start(c, s) ==
    /\ Issues(c, "start")
    /\ dir
    /\ pc[s] = "unused"
    /\ \E p \in Pids : Fresh(p)     \* the bound on processes
    /\ pc' = [pc EXCEPT ![c] = "await", ![s] = "cgroup"]
    /\ Bind(c, [NoLocals EXCEPT !.sup = s])
    /\ UNCHANGED <<disk, host, env>>

\* start in the foreground: the same steps without a supervisor; nothing is
\* recorded until the container has ended.  c is free for the next command.
StartForeground(c, s) ==
    /\ Issues(c, "foreground")
    /\ dir
    /\ pc[s] = "unused"
    /\ \E p \in Pids : Fresh(p)
    /\ Goto(s, "cgroup")
    /\ Bind(s, [NoLocals EXCEPT !.op = "fg"])
    /\ UNCHANGED <<disk, host, env>>

AwaitUp(c) ==
    /\ pc[c] = "await"
    /\ file.status = "running"
    /\ file.pid # None
    /\ Return(c)
    /\ UNCHANGED <<disk, host, env>>

GivesUp(st) == st.status \in {"failed", "stopped"}

AwaitDead(c) ==
    /\ pc[c] = "await"
    /\ GivesUp(file)
    /\ Return(c)
    /\ UNCHANGED <<disk, host, env>>

\* A loop without a deadline.
BrokenAwaitTimeout(c) == pc[c] = "await" /\ UNCHANGED vars

\* The ten seconds pass: the supervisor is slow, or is gone and will write nothing.
AwaitTimeout(c) ==
    /\ pc[c] = "await"
    /\ "slowstart" \in Faults \/ pc[loc[c].sup] = "gone"
    /\ Return(c)
    /\ UNCHANGED <<disk, host, env>>

(* The supervisor *)

SupCgroup(s) ==
    /\ pc[s] = "cgroup"
    /\ cgroup' = TRUE
    /\ Goto(s, "fork")
    /\ UNCHANGED <<disk, owner, incg, veth, loc, env>>

\* Cgroup::create or apply fails: nothing undoes the leaf.
SupCgroupFail(s) ==
    /\ "spawn" \in Faults
    /\ pc[s] = "cgroup"
    /\ cgroup' \in {cgroup, TRUE}
    /\ Goto(s, "fail")
    /\ UNCHANGED <<disk, owner, incg, veth, loc, env>>

SupFork(s, p) ==
    /\ pc[s] = "fork"
    /\ Fresh(p)
    /\ cgroup
    /\ Net => veth = "absent"
    /\ owner' = [owner EXCEPT ![p] = "ctr"]
    /\ incg' = incg \cup {p}
    /\ veth' = IF Net THEN p ELSE veth
    /\ Goto(s, IF Foreground(s) THEN "wait" ELSE "publish")
    /\ Bind(s, [loc[s] EXCEPT !.pid = p])
    /\ UNCHANGED <<disk, cgroup, env>>

\* An error after the fork: spawn returns, the forked container stays.
SupForkFail(s, p) ==
    /\ pc[s] = "fork"
    /\ Fresh(p)
    /\ \E joined \in BOOLEAN, v \in {veth, "host", p} :
          /\ HalfWired(p, joined, v, "spawn" \in Faults)
          /\ joined => Net
          /\ incg' = IF joined THEN incg \cup {p} ELSE incg
          /\ veth' = v
    /\ owner' = [owner EXCEPT ![p] = "ctr"]
    /\ Goto(s, "fail")
    /\ UNCHANGED <<disk, cgroup, loc, env>>

SupFail(s) ==
    /\ pc[s] = "fail"
    /\ Save(s, IF Foreground(s) THEN SetStopped(loc[s].buf)
               ELSE [loc[s].buf EXCEPT !.status = "failed", !.pid = None])
    /\ Goto(s, "gone")
    /\ Bind(s, NoLocals)
    /\ UNCHANGED <<staging, host, env>>

SupPublish(s) ==
    /\ pc[s] = "publish"
    /\ Save(s, SetRunningUnder(loc[s].buf, loc[s].pid, s))
    /\ Goto(s, "wait")
    /\ Bind(s, [loc[s] EXCEPT !.buf = None])
    /\ UNCHANGED <<staging, host, env>>

\* The directory is gone: the write fails, which the supervisor only logs.
SupLost(s) ==
    /\ pc[s] \in UpdatePc
    /\ ~dir
    /\ Goto(s, IF pc[s] = "publish" THEN "wait" ELSE "gone")
    /\ Bind(s, [NoLocals EXCEPT !.pid = IF pc[s] = "publish" THEN loc[s].pid ELSE None])
    /\ UNCHANGED <<disk, host, env>>

\* waitpid returns once the container's process is gone.
SupReap(s) ==
    /\ pc[s] = "wait"
    /\ loc[s].pid \notin Live
    /\ Goto(s, "netdown")
    /\ UNCHANGED <<disk, host, loc, env>>

SupNetDown(s) ==
    /\ pc[s] = "netdown"
    /\ veth' = IF Net THEN "absent" ELSE veth
    /\ Goto(s, "cgdown")
    /\ UNCHANGED <<disk, owner, incg, cgroup, loc, env>>

SupCgDown(s) ==
    /\ pc[s] = "cgdown"
    /\ Rmdir(incg)
    /\ Goto(s, "check")
    /\ UNCHANGED <<disk, owner, incg, veth, loc, env>>

BrokenFrozen(st) == st.status = "checkpointed"

Frozen(st) == st.status \in {"checkpointing", "checkpointed"}

SupCheck(s) ==
    /\ pc[s] = "check"
    /\ IF dir /\ Frozen(file) /\ ~Foreground(s)
         THEN Goto(s, "gone") /\ Bind(s, NoLocals)
         ELSE Goto(s, "stop") /\ UNCHANGED loc
    /\ UNCHANGED <<disk, host, env>>

SupStop(s) ==
    /\ pc[s] = "stop"
    /\ Save(s, SetStopped(loc[s].buf))
    /\ Goto(s, "gone")
    /\ Bind(s, NoLocals)
    /\ UNCHANGED <<staging, host, env>>

\* The supervisor, or the foreground start, is killed: before the container is
\* on record, or while it waits or tears down.  The container lives on.
SupKilled(s) ==
    /\ pc[s] \notin {"unused", "gone"}
    /\ \/ Foreground(s) /\ "fgkill" \in Faults
       \/ ~Foreground(s) /\ pc[s] \in {"cgroup", "fork", "fail", "publish"} /\ "earlykill" \in Faults
       \/ ~Foreground(s) /\ pc[s] \in {"wait", "netdown", "cgdown", "check", "stop"}
                        /\ "supkill" \in Faults
    /\ Goto(s, "gone")
    /\ Bind(s, NoLocals)
    /\ UNCHANGED <<disk, host, env>>

-----------------------------------------------------------------------------
(* stop: signals the recorded pid, writes no state *)

Stop(c) ==
    /\ Issues(c, "stop")
    /\ dir
    /\ file.status # "checkpointed"
    /\ file.pid # None
    /\ Goto(c, "sigterm")
    /\ Bind(c, [NoLocals EXCEPT !.pid = file.pid])
    /\ UNCHANGED <<disk, host, env>>

\* A container may ignore SIGTERM.
SigTerm(c) ==
    /\ pc[c] = "sigterm"
    /\ Hit(loc[c].pid) \/ UNCHANGED <<owner, incg>>
    /\ Goto(c, "sigkill")
    /\ UNCHANGED <<disk, cgroup, veth, loc, env>>

SigKill(c) ==
    /\ pc[c] = "sigkill"
    /\ Hit(loc[c].pid)
    /\ Return(c)
    /\ UNCHANGED <<disk, cgroup, veth, env>>

-----------------------------------------------------------------------------
(* restore::reconcile, run by `ps` and at the start of `restore` *)

BrokenStaleRestoring(st) ==
    \/ st.status = "checkpointing"
    \/ st.status = "running" /\ ~Alive(st.pid)

BrokenStaleRunning(st) == st.status \in Transient

Stale(st) ==
    \/ st.status \in Transient
    \/ st.status = "running" /\ ~Alive(st.pid)

Ps(c) ==
    /\ Issues(c, "ps")
    /\ Goto(c, "sweep")
    /\ Bind(c, [NoLocals EXCEPT !.op = "ps"])
    /\ UNCHANGED <<disk, host, env>>

Restore(c, from) ==
    /\ Issues(c, "restore")
    /\ dir
    /\ Goto(c, "sweep")
    /\ Bind(c, [NoLocals EXCEPT !.op = "restore", !.name = from])
    /\ UNCHANGED <<disk, host, env>>

AfterSweep(c) ==
    IF loc[c].op = "restore"
      THEN Goto(c, "pick") /\ Bind(c, [NoLocals EXCEPT !.name = loc[c].name])
      ELSE Return(c)

Sweep(c) ==
    /\ pc[c] = "sweep"
    /\ IF dir /\ Stale(file)
         THEN Goto(c, "reap") /\ Bind(c, [loc[c] EXCEPT !.buf = file])
         ELSE AfterSweep(c)
    /\ UNCHANGED <<disk, host, env>>

BrokenSweepHit(c) == UNCHANGED <<owner, incg>>

SweepHit(c) == Hit(loc[c].buf.pid)

SweepReap(c) ==
    /\ pc[c] = "reap"
    /\ SweepHit(c)
    /\ Goto(c, "debris")
    /\ UNCHANGED <<disk, cgroup, veth, loc, env>>

BrokenHasSnapshot(st) == TRUE

\* is_file on the recorded snapshot, or on latest.
HasSnapshot(st) == Exists(st.snapshot) \/ Exists(Latest)

SweepDebris(c) ==
    /\ pc[c] = "debris"
    /\ Rmdir(incg)
    /\ veth' = IF Net THEN "absent" ELSE veth
    /\ staging' = {}
    /\ Goto(c, "settle")
    /\ Bind(c, [loc[c] EXCEPT !.buf = None, !.flag = HasSnapshot(loc[c].buf)])
    /\ UNCHANGED <<dir, file, snaps, owner, incg, env>>

Settle(c) ==
    /\ pc[c] = "settle"
    /\ Save(c, [loc[c].buf EXCEPT !.pid = None,
                   !.status = IF loc[c].flag THEN "checkpointed" ELSE "failed"])
    /\ AfterSweep(c)
    /\ UNCHANGED <<staging, host, env>>

-----------------------------------------------------------------------------
(* restore: verify everything, then build *)

AlreadyRunning == file.status = "running" /\ Alive(file.pid)

\* resolve_snapshot
Resolve(from) ==
    CASE from # None -> IF Exists(from) THEN from ELSE None
      [] from = None /\ Exists(file.snapshot) -> file.snapshot
      [] from = None /\ ~Exists(file.snapshot) -> IF Exists(Latest) THEN Latest ELSE None

Pick(c) ==
    /\ pc[c] = "pick"
    /\ LET found == Resolve(loc[c].name) IN
         IF AlreadyRunning \/ found = None
           THEN Return(c)
           ELSE Goto(c, "verify") /\ Bind(c, [loc[c] EXCEPT !.name = found])
    /\ UNCHANGED <<disk, host, env>>

BrokenWhole(n) == Exists(n)

\* The checksums of the snapshot match.
Whole(n) == snaps[n] = "ok"

\* open, verify and check_compatible all refuse before anything is touched.
Verify(c) ==
    /\ pc[c] = "verify"
    /\ \/ Whole(loc[c].name) /\ Goto(c, "unpack") /\ UNCHANGED loc
       \/ (~Whole(loc[c].name) \/ "reject" \in Faults) /\ Return(c)
    /\ UNCHANGED <<disk, host, env>>

\* Staging is emptied, then filled; every entry's checksum is checked again.
Unpack(c) ==
    /\ pc[c] = "unpack"
    /\ \/ /\ Whole(loc[c].name)
          /\ staging' = {"images"}
          /\ Goto(c, "restoring")
          /\ UNCHANGED loc
       \/ /\ ~Whole(loc[c].name) \/ "unpack" \in Faults
          /\ staging' \in {{}, {"images"}}
          /\ Return(c)
    /\ UNCHANGED <<dir, file, snaps, host, env>>

MarkRestoring(c) ==
    /\ pc[c] = "restoring"
    /\ Save(c, [loc[c].buf EXCEPT !.status = "restoring"])
    /\ Goto(c, "prep")
    /\ Bind(c, [loc[c] EXCEPT !.buf = None])
    /\ UNCHANGED <<staging, host, env>>

\* Log files, mount points, Cgroup::create and apply.
Prep(c) ==
    /\ pc[c] = "prep"
    /\ cgroup' = TRUE
    /\ Goto(c, "engine")
    /\ UNCHANGED <<disk, owner, incg, veth, loc, env>>

\* Their `?` leaves restore with the rollback neither run nor disarmed.
PrepFail(c) ==
    /\ "prep" \in Faults
    /\ pc[c] = "prep"
    /\ cgroup' \in {cgroup, TRUE}
    /\ Return(c)
    /\ UNCHANGED <<disk, owner, incg, veth, env>>

EngineOk(c, p) ==
    /\ pc[c] = "engine"
    /\ Fresh(p)
    /\ "images" \in staging
    /\ owner' = [owner EXCEPT ![p] = "ctr"]
    /\ Goto(c, "build")
    /\ Bind(c, [loc[c] EXCEPT !.pid = p])
    /\ UNCHANGED <<disk, incg, cgroup, veth, env>>

EngineFail(c) ==
    /\ pc[c] = "engine"
    /\ \/ "engine" \in Faults
       \/ "images" \notin staging
       \/ \A p \in Pids : ~Fresh(p)
    /\ Goto(c, "rollback")
    /\ UNCHANGED <<disk, host, loc, env>>

\* The engine succeeds and its pid file cannot be read: the tree runs, and the
\* rollback that follows has no pid to kill.
EngineBlind(c, p) ==
    /\ "pidfile" \in Faults
    /\ pc[c] = "engine"
    /\ Fresh(p)
    /\ "images" \in staging
    /\ owner' = [owner EXCEPT ![p] = "ctr"]
    /\ Goto(c, "rollback")
    /\ UNCHANGED <<disk, incg, cgroup, veth, loc, env>>

\* pid_alive, add_process, the namespace check and Network::setup.
Build(c) ==
    LET p == loc[c].pid IN
    /\ pc[c] = "build"
    /\ Alive(p)
    /\ cgroup
    /\ Net => veth = "absent"
    /\ incg' = incg \cup {p}
    /\ veth' = IF Net THEN p ELSE veth
    /\ Goto(c, "restored")
    /\ UNCHANGED <<disk, owner, cgroup, loc, env>>

BuildFail(c) ==
    LET p == loc[c].pid IN
    /\ pc[c] = "build"
    /\ \E joined \in BOOLEAN, v \in {veth, "host", p} :
          /\ HalfWired(p, joined, v, "net" \in Faults \/ ("build" \in Faults /\ v = veth))
          /\ joined => Alive(p)
          /\ incg' = IF joined THEN incg \cup {p} ELSE incg
          /\ veth' = v
    /\ Goto(c, "rollback")
    /\ UNCHANGED <<disk, owner, cgroup, loc, env>>

BrokenRollbackHit(c) == UNCHANGED <<owner, incg>>

RollbackHit(c) == Hit(loc[c].pid)

BrokenLeftInCgroup(c) == incg

\* The kill comes before the rmdir.
LeftInCgroup(c) == incg \ {loc[c].pid}

\* Rollback::run.  Network::setup comes last in the build, so rb.network is
\* never set when this runs and the veth is left alone.
Rollback(c) ==
    /\ pc[c] = "rollback"
    /\ RollbackHit(c)
    /\ Rmdir(LeftInCgroup(c))
    /\ staging' = {}
    /\ Goto(c, "unrestore")
    /\ UNCHANGED <<dir, file, snaps, veth, loc, env>>

Unrestore(c) ==
    /\ pc[c] = "unrestore"
    /\ Save(c, [loc[c].buf EXCEPT !.status = "checkpointed"])
    /\ Return(c)
    /\ UNCHANGED <<staging, host, env>>

CommitRestored(c) ==
    /\ pc[c] = "restored"
    /\ Save(c, SetRestored(loc[c].buf, loc[c].pid))
    /\ Goto(c, "clean")
    /\ Bind(c, [loc[c] EXCEPT !.buf = None])
    /\ UNCHANGED <<staging, host, env>>

Clean(c) ==
    /\ pc[c] = "clean"
    /\ staging' = {}
    /\ Return(c)
    /\ UNCHANGED <<dir, file, snaps, host, env>>

-----------------------------------------------------------------------------
(* checkpoint: mark, dump, pack, commit *)

Checkpoint(c, name, leave) ==
    /\ Issues(c, "checkpoint")
    /\ dir
    /\ file.status = "running"
    /\ Alive(file.pid)
    /\ Goto(c, "mark")
    /\ Bind(c, [NoLocals EXCEPT !.name = name, !.leave = leave,
                                !.pid = file.pid, !.sup = file.sup])
    /\ UNCHANGED <<disk, host, env>>

Mark(c) ==
    /\ pc[c] = "mark"
    /\ Save(c, [loc[c].buf EXCEPT !.status = "checkpointing"])
    /\ Goto(c, "stage")
    /\ Bind(c, [loc[c] EXCEPT !.buf = None])
    /\ UNCHANGED <<staging, host, env>>

\* The images directory is made anew; its `?` returns with the mark in place.
Stage(c) ==
    /\ pc[c] = "stage"
    /\ \/ staging' = staging \cup {"dump"} /\ Goto(c, "dump") /\ UNCHANGED <<loc, botched>>
       \/ "stage" \in Faults /\ staging' = staging \ {"dump"} /\ Return(c) /\ botched' = TRUE
    /\ UNCHANGED <<dir, file, snaps, host, jobs, crashes>>

\* criu dump succeeds: the tree is gone, unless it is left running.
DumpOk(c) ==
    /\ pc[c] = "dump"
    /\ Alive(loc[c].pid)
    /\ "dump" \in staging
    /\ IF loc[c].leave
         THEN Goto(c, "pack") /\ UNCHANGED <<owner, incg>>
         ELSE Goto(c, "supwait") /\ End({loc[c].pid}, "dumped")
    /\ UNCHANGED <<disk, cgroup, veth, loc, env>>

\* criu dump fails: the tree runs on, or was lost.
DumpFail(c) ==
    /\ pc[c] = "dump"
    /\ \/ ~Alive(loc[c].pid) \/ "dump" \notin staging
       \/ "dump" \in Faults
    /\ \/ UNCHANGED <<owner, incg>>
       \/ "dump" \in Faults /\ Hit(loc[c].pid)
    /\ Goto(c, "undump")
    /\ Bind(c, [loc[c] EXCEPT !.flag = owner'[loc[c].pid] \in {"ctr", "other"}])
    /\ UNCHANGED <<disk, cgroup, veth, env>>

Undump(c) ==
    /\ pc[c] = "undump"
    /\ Save(c, [loc[c].buf EXCEPT
                   !.status = IF loc[c].flag THEN "running" ELSE "failed"])
    /\ Return(c)
    /\ UNCHANGED <<staging, host, env>>

\* await_supervisor_exit, then the cgroup is removed in any case.
SupWait(c) ==
    /\ pc[c] = "supwait"
    /\ \/ \A s \in Sups : loc[c].sup = s => pc[s] = "gone"
       \/ "slowsup" \in Faults
    /\ Rmdir(incg)
    /\ Goto(c, "pack")
    /\ UNCHANGED <<disk, owner, incg, veth, loc, env>>

\* The payload goes to a scratch file; then finish() truncates the destination ...
PackOpen(c) ==
    /\ pc[c] = "pack"
    /\ "dump" \in staging
    /\ snaps' = [snaps EXCEPT ![loc[c].name] = "torn"]
    /\ Goto(c, "fill")
    /\ UNCHANGED <<dir, file, staging, host, loc, env>>

\* ... and writes it, after which staging is removed.
PackDone(c) ==
    /\ pc[c] = "fill"
    /\ snaps' = [snaps EXCEPT ![loc[c].name] = "ok"]
    /\ staging' = {}
    /\ Goto(c, "commit")
    /\ UNCHANGED <<dir, file, host, loc, env>>

\* Either phase may fail; the `?` returns with the status at checkpointing.
PackFail(c) ==
    /\ \/ pc[c] = "pack" /\ ("pack" \in Faults \/ "dump" \notin staging)
       \/ pc[c] = "fill" /\ "pack" \in Faults
    /\ Return(c)
    /\ botched' = TRUE
    /\ UNCHANGED <<disk, host, jobs, crashes>>

BrokenKeptRunning(st, name) == [st EXCEPT !.snapshot = name]

KeptRunning(st, name) == [st EXCEPT !.status = "running", !.snapshot = name]

Commit(c) ==
    /\ pc[c] = "commit"
    /\ Save(c, IF loc[c].leave THEN KeptRunning(loc[c].buf, loc[c].name)
                               ELSE SetCheckpointed(loc[c].buf, loc[c].name))
    /\ Return(c)
    /\ UNCHANGED <<staging, host, env>>

-----------------------------------------------------------------------------
(* The kernel, and commands that are killed *)

Exit(p) ==
    /\ p \in Live
    /\ End({p}, "dead")
    /\ UNCHANGED <<disk, cgroup, veth, pc, loc, env>>

\* The network namespace dies with its last process and takes the veth along.
NetnsGone ==
    /\ veth \in Pids \ Live
    /\ veth' = "absent"
    /\ UNCHANGED <<disk, owner, incg, cgroup, pc, loc, env>>

\* The kernel hands the pid to a process that has nothing to do with us.
Recycle(p) ==
    /\ "recycle" \in Faults
    /\ owner[p] \in {"dead", "dumped"}
    /\ owner' = [owner EXCEPT ![p] = "other"]
    /\ UNCHANGED <<disk, incg, cgroup, veth, pc, loc, env>>

\* SIGKILL of a command; an engine it was waiting for runs on by itself.
Crash(c) ==
    /\ pc[c] \in CrashPoints
    /\ crashes < MaxCrashes
    /\ crashes' = crashes + 1
    /\ jobs' = jobs \cup
         (CASE pc[c] = "dump" /\ ~loc[c].leave -> {[kind |-> "dump", pid |-> loc[c].pid]}
            [] pc[c] = "engine" -> {[kind |-> "restore", pid |-> None]}
            [] OTHER -> {})
    /\ botched' = (botched \/ pc[c] \in CheckpointPc)
    /\ Return(c)
    /\ UNCHANGED <<disk, host>>

OrphanDump(j) ==
    /\ j.kind = "dump"
    /\ \/ j.pid \in Live /\ "dump" \in staging /\ End({j.pid}, "dumped")
       \/ UNCHANGED <<owner, incg>>
    /\ jobs' = jobs \ {j}
    /\ UNCHANGED <<disk, cgroup, veth, pc, loc, crashes, botched>>

OrphanRestore(j) ==
    /\ j.kind = "restore"
    /\ \/ /\ "images" \in staging
          /\ \E p \in Pids : Fresh(p) /\ owner' = [owner EXCEPT ![p] = "ctr"]
       \/ UNCHANGED owner
    /\ jobs' = jobs \ {j}
    /\ UNCHANGED <<disk, incg, cgroup, veth, pc, loc, crashes, botched>>

-----------------------------------------------------------------------------

SupStep(s) ==
    \/ SupCgroup(s) \/ SupCgroupFail(s)
    \/ \E p \in Pids : SupFork(s, p) \/ SupForkFail(s, p)
    \/ Load(s) \/ SupFail(s) \/ SupPublish(s) \/ SupLost(s)
    \/ SupReap(s) \/ SupNetDown(s) \/ SupCgDown(s) \/ SupCheck(s) \/ SupStop(s)

\* A command begins: the operator's choice.
Invoke(c) ==
    \/ Create(c) \/ Rm(c) \/ Stop(c) \/ Ps(c)
    \/ \E s \in Sups : Start(c, s) \/ StartForeground(c, s)
    \/ \E from \in Names \cup {None} : Restore(c, from)
    \/ \E name \in Names, leave \in BOOLEAN : Checkpoint(c, name, leave)

\* A command in flight runs on.
CmdStep(c) ==
    \/ AwaitUp(c) \/ AwaitDead(c) \/ AwaitTimeout(c)
    \/ SigTerm(c) \/ SigKill(c)
    \/ Load(c) \/ Sweep(c) \/ SweepReap(c) \/ SweepDebris(c) \/ Settle(c)
    \/ Pick(c) \/ Verify(c) \/ Unpack(c) \/ MarkRestoring(c) \/ Prep(c) \/ PrepFail(c)
    \/ \E p \in Pids : EngineOk(c, p) \/ EngineBlind(c, p)
    \/ EngineFail(c) \/ Build(c) \/ BuildFail(c) \/ Rollback(c) \/ Unrestore(c)
    \/ CommitRestored(c) \/ Clean(c)
    \/ Mark(c) \/ Stage(c) \/ DumpOk(c) \/ DumpFail(c) \/ Undump(c) \/ SupWait(c)
    \/ PackOpen(c) \/ PackDone(c) \/ PackFail(c) \/ Commit(c)

Kernel ==
    \/ NetnsGone
    \/ \E p \in Pids : Exit(p) \/ Recycle(p)
    \/ \E j \in jobs : OrphanDump(j) \/ OrphanRestore(j)

Next ==
    \/ \E c \in Cmds : Invoke(c) \/ CmdStep(c) \/ Crash(c)
    \/ \E s \in Sups : SupStep(s) \/ SupKilled(s)
    \/ Kernel

Spec == Init /\ [][Next]_vars

(* Processes are scheduled, the engine and the kernel get their work done, *)
(* and an operator who may run `ps` again and again some day does.  Nobody *)
(* is obliged to issue any other command, nor is a container to exit.      *)
Fairness ==
    /\ \A c \in Cmds : WF_vars(CmdStep(c)) /\ SF_vars(Ps(c))
    /\ \A s \in Sups : WF_vars(SupStep(s))
    /\ WF_vars(NetnsGone \/ \E j \in jobs : OrphanDump(j) \/ OrphanRestore(j))

FairSpec == Spec /\ Fairness

-----------------------------------------------------------------------------
(* Properties *)

\* Every variable keeps its type.
TypeOK ==
    /\ dir \in BOOLEAN
    /\ file \in State
    /\ snaps \in [Names -> {"absent", "torn", "ok"}]
    /\ staging \in SUBSET {"dump", "images"}
    /\ owner \in [Pids -> {"free", "ctr", "dead", "dumped", "other"}]
    /\ incg \in SUBSET Pids
    /\ cgroup \in BOOLEAN
    /\ veth \in {"absent", "host"} \cup Pids
    /\ pc \in [Actors -> CmdPc \cup SupPc]
    /\ loc \in [Actors -> Locals]
    /\ jobs \in SUBSET Jobs
    /\ crashes \in Nat
    /\ botched \in BOOLEAN

\* Nothing is in flight: no command, no engine, no supervisor with work to do.
Quiet ==
    /\ \A c \in Cmds : pc[c] = "idle"
    /\ Settled
    /\ jobs = {}

\* There are never two copies of the container (restore.rs:84-91).
SingleCopy == \A p, q \in Live : p = q

\* Once all is quiet, a container process that runs is the one state.json
\* records, so that `stop`, `checkpoint` and `ps` can find it.
Tracked ==
    Quiet => \A p \in Live : dir /\ file.status \in {"running"} \cup Transient /\ file.pid = p

\* A container shown as checkpointed can be brought back: it has a whole
\* snapshot, and a plain `restore` does not resolve to a torn one
\* (restore.rs:352 "A snapshot on disk means the container is recoverable").
Restorable ==
    dir /\ file.status = "checkpointed" =>
        /\ \E n \in Names : snaps[n] = "ok"
        /\ Resolve(None) # None => snaps[Resolve(None)] = "ok"

\* Once all is quiet, a container shown as stopped or checkpointed holds
\* nothing on the host: no process, no cgroup leaf, no stray veth.
NoLeak ==
    Quiet /\ dir /\ file.status \in {"stopped", "checkpointed"} =>
        Live = {} /\ ~cgroup /\ veth # "host"

\* A container whose processes the dump killed is not recorded as stopped by
\* the supervisor that reaps it (state.rs:11-15).
FrozenNotStopped ==
    dir /\ file.status = "stopped" /\ file.pid # None => owner[file.pid] # "dumped"

\* A state.json at `restoring` means some snapshot was whole when the build
\* began and still is: the restore "can simply be run again" (restore.rs:13).
RestoringRecoverable ==
    dir /\ file.status = "restoring" => \E n \in Names : snaps[n] = "ok"

\* Reconciliation kills a container process only after a checkpoint that failed, or
\* was killed, with its mark in place.  Otherwise, whatever else has failed or was
\* killed, what runs is left alone, and so is what a checkpoint deliberately kept
\* running (checkpoint.rs:197-200).
SweepSparesLive ==
    [][\A c \in Cmds : ~botched /\ pc[c] = "reap" /\ pc'[c] # "reap" => Live' = Live]_vars

\* A transient label does not outlive its command for good: `ps` sweeps it
\* (restore.rs:303-312).
LabelsResolve ==
    (dir /\ file.status \in Transient) ~> ~(dir /\ file.status \in Transient)

\* Every command returns.
CommandsFinish == \A c \in Cmds : pc[c] # "idle" ~> pc[c] = "idle"

\* A container recorded as running that is gone is noticed: by its supervisor,
\* or by `ps` when it has none (any more).
DeathNoticed ==
    (dir /\ file.status = "running" /\ ~Alive(file.pid)) ~>
        ~(dir /\ file.status = "running" /\ ~Alive(file.pid))
=============================================================================
