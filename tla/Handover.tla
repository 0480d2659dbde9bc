------------------------------ MODULE Handover ------------------------------
(***************************************************************************)
(* What migration promises (migrate.rs:21-29, transport.rs:22-28): the       *)
(* container runs on at most one node at a time, and as long as it has not   *)
(* ended it either runs or is kept as a snapshot on some node.  The promise  *)
(* is made to an operator who looks before acting, and waits for an engine   *)
(* that outlived its command; once the operator did not, anything goes.      *)
(***************************************************************************)
EXTENDS Naturals, FiniteSets

CONSTANTS Nodes, Home

VARIABLES
    up,       \* the nodes the container runs on
    kept,     \* the nodes that keep a snapshot it can be brought back from
    ended,    \* it has ended: by itself, or lost in a checkpoint that came to nothing
    misused   \* somebody acted without looking or waiting

hvars == <<up, kept, ended, misused>>

Init ==
    /\ up = {Home}
    /\ kept = {}
    /\ ended = FALSE
    /\ misused = FALSE

Freeze(n) ==
    /\ up = {n}
    /\ up' = {}
    /\ kept' = kept \cup {n}
    /\ UNCHANGED <<ended, misused>>

\* A node takes over what another one keeps, while it runs nowhere.
Take(n) ==
    /\ up = {}
    /\ kept # {}
    /\ kept' = kept \cup {n}
    /\ UNCHANGED <<up, ended, misused>>

Thaw(n) ==
    /\ up = {}
    /\ n \in kept
    /\ up' = {n}
    /\ UNCHANGED <<kept, ended, misused>>

\* A checkpoint that fails may take an older snapshot along, or leave a new one.
End(n) ==
    /\ up = {n}
    /\ up' = {}
    /\ ended' = TRUE
    /\ kept' \in SUBSET (kept \cup {n})
    /\ UNCHANGED misused

\* Nothing is promised about the snapshots of a container that has ended.
Forget ==
    /\ ended
    /\ kept' \in SUBSET kept
    /\ UNCHANGED <<up, ended, misused>>

Misuse ==
    /\ misused' = TRUE
    /\ up' \in SUBSET Nodes
    /\ kept' \in SUBSET Nodes
    /\ ended' \in BOOLEAN

Next ==
    \/ \E n \in Nodes : Freeze(n) \/ Take(n) \/ Thaw(n) \/ End(n)
    \/ Forget
    \/ Misuse

Spec == Init /\ [][Next]_hvars

\* The promise: at most one node runs it, and it does not vanish.
Promise ==
    ~misused =>
        /\ \A n, m \in up : n = m
        /\ up = {} /\ ~ended => kept # {}
=============================================================================
