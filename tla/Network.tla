------------------------------ MODULE Network ------------------------------
(***************************************************************************)
(* The host side of container networking (network.rs) with several         *)
(* containers: they share one bridge, made by whoever finds it missing,    *)
(* and their veth pairs go by names cut from their ids.  Every `ip`        *)
(* command is a step of its own, finds links by name, and may fail.  Who   *)
(* sets a network up is `start` (container.rs) or `restore` (restore.rs);  *)
(* they differ in what is left when they fail or are killed.               *)
(***************************************************************************)
EXTENDS Naturals

CONSTANTS
    Ctrs,
    Names,     \* the interface names that host_veth_name can give
    Short,     \* the name each container gets: mch and 12 bytes of its id
    None

ASSUME ShortAssumption == Short \in [Ctrs -> Names] /\ None \notin Ctrs

VARIABLES
    bridge,   \* mc0: absent, bare, addressed, up
    link,     \* the veth pair of each name
    pc,       \* the command at work on each container's network
    by,       \* start or restore
    alive,    \* the container's network namespace exists
    \* History, for the properties:
    botched,  \* whoever was making the bridge failed or was killed
    stuck     \* set-ups that ended with the pair made and nobody to delete it

vars == <<bridge, link, pc, by, alive, botched, stuck>>

\* peer: where the container's end of the pair is.
Link == [owner : Ctrs \cup {None}, peer : {"host", "inside"}, master : BOOLEAN]
NoLink == [owner |-> None, peer |-> "host", master |-> FALSE]

HalfMade == {"addr", "up"}
HalfWired == {"master", "move"}
Steps == HalfMade \cup HalfWired \cup {"ensure", "add", "veth", "configure"}

Init ==
    /\ bridge = "absent"
    /\ link = [n \in Names |-> NoLink]
    /\ pc = [c \in Ctrs |-> "down"]
    /\ by = [c \in Ctrs |-> "start"]
    /\ alive = [c \in Ctrs |-> FALSE]
    /\ botched = FALSE
    /\ stuck = {}

-----------------------------------------------------------------------------

At(c, l) == pc[c] = l
Goto(c, l) == pc' = [pc EXCEPT ![c] = l]
Present(n) == link[n].owner # None
history == <<botched, stuck>>

\* The process of a container exists, and its network is to be set up.
Setup(c, cmd) ==
    /\ At(c, "down") /\ ~alive[c]
    /\ alive' = [alive EXCEPT ![c] = TRUE]
    /\ by' = [by EXCEPT ![c] = cmd]
    /\ Goto(c, "ensure")
    /\ UNCHANGED <<bridge, link, history>>

\* ensure_bridge takes a bridge that is there for one that works.
EnsureBridge(c) ==
    /\ At(c, "ensure")
    /\ Goto(c, IF bridge = "absent" THEN "add" ELSE "veth")
    /\ UNCHANGED <<bridge, link, by, alive, history>>

BrokenMayAdd == TRUE

\* `ip link add mc0` succeeds only for the first of several.
MayAdd == bridge = "absent"

AddBridge(c) ==
    /\ At(c, "add")
    /\ MayAdd
    /\ bridge' = "bare"
    /\ Goto(c, "addr")
    /\ UNCHANGED <<link, by, alive, history>>

BridgeAddr(c) ==
    /\ At(c, "addr")
    /\ bridge' = "addressed"
    /\ Goto(c, "up")
    /\ UNCHANGED <<link, by, alive, history>>

\* Up, and then forwarding and the masquerade rule, whose errors are ignored.
BridgeUp(c) ==
    /\ At(c, "up")
    /\ bridge' = "up"
    /\ Goto(c, "veth")
    /\ UNCHANGED <<link, by, alive, history>>

BrokenVethName(c) == CHOOSE n \in Names : TRUE

VethName(c) == Short[c]

AddVeth(c) ==
    LET n == VethName(c) IN
    /\ At(c, "veth")
    /\ ~Present(n)
    /\ link' = [link EXCEPT ![n] = [NoLink EXCEPT !.owner = c]]
    /\ Goto(c, "master")
    /\ UNCHANGED <<bridge, by, alive, history>>

SetMaster(c) ==
    LET n == VethName(c) IN
    /\ At(c, "master")
    /\ Present(n)
    /\ link' = [link EXCEPT ![n].master = TRUE]
    /\ Goto(c, "move")
    /\ UNCHANGED <<bridge, by, alive, history>>

\* The peer goes into the namespace of the container.
MovePeer(c) ==
    LET n == VethName(c) IN
    /\ At(c, "move")
    /\ Present(n) /\ link[n].peer = "host" /\ alive[c]
    /\ link' = [link EXCEPT ![n].peer = "inside", ![n].owner = c]
    /\ Goto(c, "configure")
    /\ UNCHANGED <<bridge, by, alive, history>>

\* The five nsenter commands need the namespace and the interface in it.
Configure(c) ==
    LET n == VethName(c) IN
    /\ At(c, "configure")
    /\ alive[c] /\ link[n].owner = c /\ link[n].peer = "inside"
    /\ Goto(c, "wired")
    /\ UNCHANGED <<bridge, link, by, alive, history>>

\* A namespace that ends takes the interfaces in it along, and their peers.
Ended(c) ==
    [n \in Names |-> IF link[n].owner = c /\ link[n].peer = "inside" THEN NoLink ELSE link[n]]

Exit(c) ==
    /\ alive[c]
    /\ alive' = [alive EXCEPT ![c] = FALSE]
    /\ link' = Ended(c)
    /\ UNCHANGED <<bridge, pc, by, history>>

\* What stays behind a set-up that stops here, and is not swept later.
Botches(c) ==
    /\ botched' = (botched \/ pc[c] \in HalfMade)
    /\ stuck' = IF pc[c] \in HalfWired THEN stuck \cup {c} ELSE stuck

\* A command fails.  The Network handle does not exist yet, so nobody deletes
\* the pair; the rollback of a restore kills the tree, a start leaves it.
Fails(c) ==
    /\ pc[c] \in Steps
    /\ Botches(c)
    /\ Goto(c, "down")
    /\ \/ by[c] = "start" /\ UNCHANGED <<link, alive>>
       \/ by[c] = "restore" /\ alive' = [alive EXCEPT ![c] = FALSE] /\ link' = Ended(c)
    /\ UNCHANGED <<bridge, by>>

\* The command itself is killed: a restore leaves the label restoring, a start
\* the label that was there, which nobody takes for an interruption.
Killed(c) ==
    /\ pc[c] \in Steps
    /\ \/ /\ by[c] = "start"
          /\ Botches(c)
          /\ Goto(c, "down")
       \/ /\ by[c] = "restore"
          /\ botched' = (botched \/ pc[c] \in HalfMade)
          /\ Goto(c, "killed")
          /\ UNCHANGED stuck
    /\ UNCHANGED <<bridge, link, by, alive>>

BrokenDeleted(c) == link

\* `ip link delete`, by name alone, whoever the link belongs to.
Deleted(c) == [link EXCEPT ![VethName(c)] = NoLink]

\* Network::cleanup of the handle, or cleanup_by_id, once a container that was
\* wired has ended.
Cleanup(c) ==
    /\ At(c, "wired") /\ ~alive[c]
    /\ link' = Deleted(c)
    /\ stuck' = stuck \ {c}
    /\ Goto(c, "down")
    /\ UNCHANGED <<bridge, by, alive, botched>>

\* reconcile finds the label restoring, and no pid to kill.
Reconcile(c) ==
    /\ At(c, "killed")
    /\ link' = Deleted(c)
    /\ stuck' = stuck \ {c}
    /\ Goto(c, "down")
    /\ UNCHANGED <<bridge, by, alive, botched>>

Next ==
    \E c \in Ctrs :
        \/ \E cmd \in {"start", "restore"} : Setup(c, cmd)
        \/ EnsureBridge(c) \/ AddBridge(c) \/ BridgeAddr(c) \/ BridgeUp(c)
        \/ AddVeth(c) \/ SetMaster(c) \/ MovePeer(c) \/ Configure(c)
        \/ Fails(c) \/ Killed(c) \/ Exit(c) \/ Cleanup(c) \/ Reconcile(c)

Spec == Init /\ [][Next]_vars

-----------------------------------------------------------------------------
(* Properties *)

\* Every variable keeps its type.
TypeOK ==
    /\ bridge \in {"absent", "bare", "addressed", "up"}
    /\ link \in [Names -> Link]
    /\ pc \in [Ctrs -> Steps \cup {"down", "wired", "killed"}]
    /\ by \in [Ctrs -> {"start", "restore"}]
    /\ alive \in [Ctrs -> BOOLEAN]
    /\ botched \in BOOLEAN
    /\ stuck \subseteq Ctrs

\* No other container has the same first twelve bytes of the id.
OwnName(c) == \A d \in Ctrs : Short[d] = Short[c] => d = c

\* A container that was wired up stays on the bridge while it lives, whatever
\* set-ups, failures and clean-ups of other containers come in between, if its
\* name is its own (network.rs:96-110: clean-up goes by name alone).
StaysWired ==
    \A c \in Ctrs :
        At(c, "wired") /\ alive[c] /\ OwnName(c) =>
            link[Short[c]] = [owner |-> c, peer |-> "inside", master |-> TRUE]

\* When no command is at work on a container and it does not run, its interface
\* name is free for the next attempt (network.rs:103-108), unless a set-up was
\* stopped between making the pair and moving its peer by an error, or by the
\* death of a `start`: a killed restore is swept.
NameFreeAtRest ==
    \A c \in Ctrs :
        OwnName(c) /\ At(c, "down") /\ ~alive[c] /\ c \notin stuck => ~Present(Short[c])

\* One process at a time makes the bridge: of several that found it missing,
\* the others fail.  A bridge with no address, or down, is one that somebody is
\* still making, or whose maker was stopped; all others take it for complete
\* (network.rs:34-45).
BridgeHasOneMaker ==
    /\ \A c, d \in Ctrs : pc[c] \in HalfMade /\ pc[d] \in HalfMade => c = d
    /\ bridge \in {"bare", "addressed"} => botched \/ \E c \in Ctrs : pc[c] \in HalfMade
=============================================================================
