---------------------------- MODULE MCLifecycle ----------------------------
(***************************************************************************)
(* Small instances of Lifecycle for TLC.                                   *)
(***************************************************************************)
EXTENDS Lifecycle, TLC

\* A careful operator: nothing is started twice, removed while it runs, or
\* restored over something that was not checkpointed or interrupted.
CarefulUses ==
    [create     |-> {"none"},
     start      |-> {"created"},
     foreground |-> {"created"},
     stop       |-> {"running"},
     ps         |-> Status,
     checkpoint |-> {"running"},
     restore    |-> {"checkpointed"} \cup Transient,
     rm         |-> {"stopped", "failed", "checkpointed"}]

\* Where a killed command leaves nothing that reconciliation cannot find.
SafeCrashPoints ==
    CmdPc \ {"idle", "engine", "build", "rollback", "restored", "fill"}
AllCrashPoints == CmdPc \ {"idle"}

\* The careful operator who sweeps with `ps` before restoring.
SweepFirstUses == [CarefulUses EXCEPT !["restore"] = {"checkpointed"}]
\* The careful operator who also starts again what has ended.
RestartUses == [CarefulUses EXCEPT !["start"] = {"created", "stopped", "failed"}]
\* An operator who issues anything at any time.
AllUses == [op \in Commands |-> Status \cup {"none"}]

PidSymmetry == Permutations(Pids)
=============================================================================
