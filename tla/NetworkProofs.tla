--------------------------- MODULE NetworkProofs ---------------------------
(***************************************************************************)
(* What holds of Network for any number of containers, whatever names      *)
(* their ids are cut to.                                                   *)
(***************************************************************************)
EXTENDS Network, TLAPS

\* The namespace of a container takes nothing but whole pairs along.
LEMMA EndedType ==
    ASSUME TypeOK
    PROVE  \A c \in Ctrs : Ended(c) \in [Names -> Link]
  BY DEF TypeOK, Ended, Link, NoLink

\* Each step of each command keeps the variables in their types.
LEMMA NetworkTypeStep ==
    ASSUME TypeOK, [Next]_vars
    PROVE  TypeOK'
  <1>. USE ShortAssumption DEF TypeOK, At, Goto, history, VethName, Present, Steps, HalfMade, HalfWired
  <1>. USE DEF Link, NoLink
  <1>1. ASSUME NEW c \in Ctrs, NEW cmd \in {"start", "restore"}, Setup(c, cmd)
        PROVE  TypeOK'
    BY <1>1 DEF Setup
  <1>2. ASSUME NEW c \in Ctrs, EnsureBridge(c)  PROVE TypeOK'
    BY <1>2 DEF EnsureBridge
  <1>3. ASSUME NEW c \in Ctrs, AddBridge(c)  PROVE TypeOK'
    BY <1>3 DEF AddBridge
  <1>4. ASSUME NEW c \in Ctrs, BridgeAddr(c)  PROVE TypeOK'
    BY <1>4 DEF BridgeAddr
  <1>5. ASSUME NEW c \in Ctrs, BridgeUp(c)  PROVE TypeOK'
    BY <1>5 DEF BridgeUp
  <1>6. ASSUME NEW c \in Ctrs, AddVeth(c)  PROVE TypeOK'
    BY <1>6 DEF AddVeth
  <1>7. ASSUME NEW c \in Ctrs, SetMaster(c)  PROVE TypeOK'
    BY <1>7, ZenonT(60) DEF SetMaster
  <1>8. ASSUME NEW c \in Ctrs, MovePeer(c)  PROVE TypeOK'
    BY <1>8 DEF MovePeer
  <1>9. ASSUME NEW c \in Ctrs, Configure(c)  PROVE TypeOK'
    BY <1>9 DEF Configure
  <1>10. ASSUME NEW c \in Ctrs, Fails(c)  PROVE TypeOK'
    <2>1. botched' \in BOOLEAN /\ stuck' \subseteq Ctrs
      BY <1>10 DEF Fails, Botches
    <2>2. link' \in [Names -> Link]
      BY <1>10, EndedType DEF Fails
    <2>3. alive' \in [Ctrs -> BOOLEAN]
      BY <1>10 DEF Fails
    <2>. QED  BY <1>10, <2>1, <2>2, <2>3 DEF Fails
  <1>11. ASSUME NEW c \in Ctrs, Killed(c)  PROVE TypeOK'
    <2>1. botched' \in BOOLEAN /\ stuck' \subseteq Ctrs
      BY <1>11 DEF Killed, Botches
    <2>. QED  BY <1>11, <2>1 DEF Killed
  <1>12. ASSUME NEW c \in Ctrs, Exit(c)  PROVE TypeOK'
    BY <1>12, EndedType DEF Exit
  <1>13. ASSUME NEW c \in Ctrs, Cleanup(c)  PROVE TypeOK'
    BY <1>13 DEF Cleanup, Deleted
  <1>14. ASSUME NEW c \in Ctrs, Reconcile(c)  PROVE TypeOK'
    BY <1>14 DEF Reconcile, Deleted
  <1>15. CASE UNCHANGED vars
    BY <1>15 DEF vars
  <1>. QED
    BY <1>1, <1>2, <1>3, <1>4, <1>5, <1>6, <1>7, <1>8, <1>9, <1>10, <1>11, <1>12, <1>13,
       <1>14, <1>15
    DEF Next

\* Type correctness, for every set of containers and every choice of names.
THEOREM NetworkTypeCorrect == Spec => []TypeOK
  <1>1. Init => TypeOK
    <2>1. NoLink \in Link
      BY DEF NoLink, Link
    <2>2. Init => botched \in BOOLEAN
      BY Zenon DEF Init
    <2>. QED  BY <2>1, <2>2 DEF Init, TypeOK, Steps
  <1>2. TypeOK /\ [Next]_vars => TypeOK'
    BY NetworkTypeStep
  <1>. QED  BY <1>1, <1>2, PTL DEF Spec

-----------------------------------------------------------------------------
(* The bridge: of all who found it missing, one gets to make it. *)

\* How far the bridge is says which step its maker has reached.
BridgeInv ==
    /\ BridgeHasOneMaker
    /\ \A c \in Ctrs : /\ pc[c] = "addr" => bridge = "bare"
                       /\ pc[c] = "up" => bridge = "addressed"

\* BridgeInv is inductive: only the steps that make the bridge, or end in the
\* middle of that, can disturb it.
LEMMA BridgeStep ==
    ASSUME TypeOK, BridgeInv, [Next]_vars
    PROVE  BridgeInv'
  <1>. USE DEF TypeOK, BridgeInv, BridgeHasOneMaker, HalfMade, At, Goto, history
  <1>1. ASSUME NEW c \in Ctrs, AddBridge(c)  PROVE BridgeInv'
    BY <1>1 DEF AddBridge, MayAdd
  <1>2. ASSUME NEW c \in Ctrs, BridgeAddr(c)  PROVE BridgeInv'
    BY <1>2 DEF BridgeAddr
  <1>3. ASSUME NEW c \in Ctrs, BridgeUp(c)  PROVE BridgeInv'
    BY <1>3 DEF BridgeUp
  <1>4. ASSUME NEW c \in Ctrs, Fails(c) \/ Killed(c)  PROVE BridgeInv'
    <2>1. \E l \in {"down", "killed"} : pc' = [pc EXCEPT ![c] = l]
      BY <1>4 DEF Fails, Killed
    <2>2. bridge' = bridge /\ botched' = (botched \/ pc[c] \in HalfMade)
      BY <1>4 DEF Fails, Killed, Botches
    <2>. QED  BY <2>1, <2>2
  <1>5. ASSUME NEW c \in Ctrs,
               \/ \E cmd \in {"start", "restore"} : Setup(c, cmd)
               \/ EnsureBridge(c) \/ AddVeth(c) \/ SetMaster(c) \/ MovePeer(c) \/ Configure(c)
               \/ Cleanup(c) \/ Reconcile(c)
        PROVE  BridgeInv'
    <2>1. /\ pc[c] \notin HalfMade
          /\ \E l \in {"ensure", "add", "veth", "master", "move", "configure", "wired", "down"} :
                pc' = [pc EXCEPT ![c] = l]
          /\ UNCHANGED <<bridge, botched>>
      BY <1>5 DEF Setup, EnsureBridge, AddVeth, SetMaster, MovePeer, Configure, Cleanup, Reconcile
    <2>. QED  BY <2>1
  <1>6. CASE UNCHANGED <<bridge, pc, botched>>
    BY <1>6
  <1>. QED
    BY <1>1, <1>2, <1>3, <1>4, <1>5, <1>6 DEF Next, Exit, vars

\* One process at a time makes the bridge, and one that is incomplete has a maker
\* or had one that was stopped (network.rs:34-45), with any number of containers.
THEOREM BridgeHasOneMakerAlways == Spec => []BridgeHasOneMaker
  <1>1. Init => BridgeInv
    BY DEF Init, BridgeInv, BridgeHasOneMaker, HalfMade
  <1>2. TypeOK /\ BridgeInv /\ [Next]_vars => BridgeInv'
    BY BridgeStep
  <1>3. BridgeInv => BridgeHasOneMaker
    BY DEF BridgeInv
  <1>. QED  BY <1>1, <1>2, <1>3, NetworkTypeCorrect, PTL DEF Spec

-----------------------------------------------------------------------------
(* A name of one's own: nobody else makes, moves or deletes the pair. *)

IsPair(l, c, where, m) == l.owner = c /\ l.peer = where /\ l.master = m

\* What the commands for c have made of its pair, and what is left of it when
\* they stop.
PairOf(c) ==
    LET l == link[Short[c]] IN
    /\ l.owner \in {c, None}
    /\ l.peer = "inside" => l.owner = c /\ alive[c]
    /\ pc[c] \in HalfMade \cup {"ensure", "add", "veth"} /\ c \notin stuck => l.owner = None
    /\ pc[c] = "master" => IsPair(l, c, "host", FALSE)
    /\ pc[c] = "move" => IsPair(l, c, "host", TRUE)
    /\ pc[c] \in {"configure", "wired"} =>
          IF alive[c] THEN IsPair(l, c, "inside", TRUE) ELSE l.owner = None
    /\ pc[c] = "down" /\ c \notin stuck => l.owner = None \/ l.peer = "inside"

NameInv == \A c \in Ctrs : OwnName(c) => PairOf(c)

\* A step for one container leaves the pair of another alone, if that has a
\* name of its own.
LEMMA OthersPair ==
    ASSUME TypeOK, NameInv, NEW c \in Ctrs, NEW d \in Ctrs, c # d, OwnName(d),
           \/ link' = link
           \/ link' = Ended(c)
           \/ \E v \in Link : link' = [link EXCEPT ![Short[c]] = v],
           pc'[d] = pc[d], alive'[d] = alive[d], d \in stuck' <=> d \in stuck
    PROVE  PairOf(d)'
  <1>1. Short[c] # Short[d] /\ Short[c] \in Names /\ Short[d] \in Names
    BY ShortAssumption DEF OwnName
  <1>2. link[Short[d]].owner # c
    BY <1>1, ShortAssumption DEF NameInv, PairOf
  <1>3. link'[Short[d]] = link[Short[d]]
    BY <1>1, <1>2 DEF TypeOK, Ended
  <1>. QED  BY <1>3 DEF NameInv, PairOf

\* The pair of c itself, one case per step.
LEMMA NameStep ==
    ASSUME TypeOK, NameInv, [Next]_vars
    PROVE  NameInv'
  <1>. SUFFICES ASSUME NEW d \in Ctrs, OwnName(d)  PROVE PairOf(d)'
    BY DEF NameInv, OwnName
  <1>. USE DEF At, Goto, history
  <1>0. PairOf(d) /\ Short[d] \in Names /\ d # None
    BY ShortAssumption DEF NameInv
  <1>1. CASE UNCHANGED vars
    BY <1>0, <1>1 DEF vars, PairOf
  <1>2. ASSUME NEW c \in Ctrs, c # d,
               \/ \E cmd \in {"start", "restore"} : Setup(c, cmd)
               \/ EnsureBridge(c) \/ AddBridge(c) \/ BridgeAddr(c) \/ BridgeUp(c)
               \/ AddVeth(c) \/ SetMaster(c) \/ MovePeer(c) \/ Configure(c)
               \/ Fails(c) \/ Killed(c) \/ Exit(c) \/ Cleanup(c) \/ Reconcile(c)
        PROVE  PairOf(d)'
    <2>1. /\ pc'[d] = pc[d] /\ alive'[d] = alive[d]
          /\ d \in stuck' <=> d \in stuck
      BY <1>2 DEF TypeOK, Setup, EnsureBridge, AddBridge, BridgeAddr, BridgeUp, AddVeth, SetMaster,
                  MovePeer, Configure, Fails, Botches, Killed, Exit, Cleanup, Reconcile
    <2>2. \/ link' = link
          \/ link' = Ended(c)
          \/ \E v \in Link : link' = [link EXCEPT ![Short[c]] = v]
      <3>1. CASE AddVeth(c)
        BY <3>1 DEF AddVeth, VethName, NoLink, Link
      <3>2. CASE SetMaster(c) \/ MovePeer(c)
        <4>1. link[Short[c]] \in Link
          BY ShortAssumption DEF TypeOK
        <4>. QED  BY <3>2, <4>1, ZenonT(60) DEF SetMaster, MovePeer, VethName, Link
      <3>3. CASE Cleanup(c) \/ Reconcile(c)
        BY <3>3 DEF Cleanup, Reconcile, Deleted, VethName, NoLink, Link
      <3>. QED
        BY <1>2, <3>1, <3>2, <3>3
        DEF Setup, EnsureBridge, AddBridge, BridgeAddr, BridgeUp, Configure, Fails, Killed, Exit
    <2>. QED  BY <1>2, <2>1, <2>2, OthersPair
  <1>3. CASE \E cmd \in {"start", "restore"} : Setup(d, cmd)
    BY <1>0, <1>3 DEF TypeOK, PairOf, Setup, HalfMade
  <1>4. CASE EnsureBridge(d) \/ AddBridge(d) \/ BridgeAddr(d) \/ BridgeUp(d)
    BY <1>0, <1>4 DEF TypeOK, PairOf, EnsureBridge, AddBridge, BridgeAddr, BridgeUp, HalfMade
  <1>5. CASE AddVeth(d)
    BY <1>0, <1>5 DEF TypeOK, PairOf, IsPair, AddVeth, VethName, NoLink, HalfMade
  <1>6. CASE SetMaster(d)
    <2>1. IsPair(link[Short[d]], d, "host", FALSE)
      BY <1>0, <1>6 DEF PairOf, SetMaster
    <2>2. IsPair(link'[Short[d]], d, "host", TRUE)
      <3>1. link'[Short[d]] = [link[Short[d]] EXCEPT !.master = TRUE]
        BY <1>0, <1>6 DEF TypeOK, SetMaster, VethName
      <3>. QED  BY <1>0, <2>1, <3>1 DEF TypeOK, Link, IsPair
    <2>3. pc'[d] = "move" /\ UNCHANGED <<alive, stuck>>
      BY <1>6 DEF TypeOK, SetMaster
    <2>. QED  BY <2>2, <2>3 DEF PairOf, IsPair, HalfMade
  <1>7. CASE MovePeer(d)
    <2>1. IsPair(link[Short[d]], d, "host", TRUE) /\ alive[d]
      BY <1>0, <1>7 DEF PairOf, MovePeer
    <2>2. IsPair(link'[Short[d]], d, "inside", TRUE)
      <3>1. link'[Short[d]] = [link[Short[d]] EXCEPT !.peer = "inside", !.owner = d]
        BY <1>0, <1>7 DEF TypeOK, MovePeer, VethName
      <3>. QED  BY <1>0, <2>1, <3>1 DEF TypeOK, Link, IsPair
    <2>3. pc'[d] = "configure" /\ UNCHANGED <<alive, stuck>>
      BY <1>7 DEF TypeOK, MovePeer
    <2>. QED  BY <2>1, <2>2, <2>3 DEF PairOf, IsPair, HalfMade
  <1>8. CASE Configure(d)
    BY <1>0, <1>8 DEF TypeOK, PairOf, Configure, VethName, HalfMade
  <1>9. CASE Fails(d)
    BY <1>0, <1>9 DEF TypeOK, PairOf, IsPair, Fails, Botches, Ended, NoLink, Steps, HalfMade, HalfWired
  <1>10. CASE Killed(d)
    BY <1>0, <1>10 DEF TypeOK, PairOf, IsPair, Killed, Botches, Steps, HalfMade, HalfWired
  <1>11. CASE Exit(d)
    BY <1>0, <1>11 DEF TypeOK, PairOf, IsPair, Exit, Ended, NoLink, HalfMade
  <1>12. CASE Cleanup(d) \/ Reconcile(d)
    <2>1. link'[Short[d]] = NoLink /\ pc'[d] = "down"
      BY <1>0, <1>12 DEF TypeOK, Cleanup, Reconcile, Deleted, VethName
    <2>. QED  BY <2>1 DEF PairOf, NoLink, HalfMade
  <1>. QED
    BY <1>1, <1>2, <1>3, <1>4, <1>5, <1>6, <1>7, <1>8, <1>9, <1>10, <1>11, <1>12 DEF Next

\* NameInv holds in every reachable state.
LEMMA NameAlways == Spec => []NameInv
  <1>1. Init => NameInv
    BY ShortAssumption DEF Init, NameInv, PairOf, NoLink, HalfMade
  <1>2. TypeOK /\ NameInv /\ [Next]_vars => NameInv'
    BY NameStep
  <1>. QED  BY <1>1, <1>2, NetworkTypeCorrect, PTL DEF Spec

\* A container with a name of its own stays on the bridge while it lives
\* (network.rs:96-110), with any number of other containers, that may all share
\* one name among them.
THEOREM StaysWiredAlways == Spec => []StaysWired
  <1>1. TypeOK /\ NameInv => StaysWired
    <2>. SUFFICES ASSUME TypeOK, NameInv, NEW c \in Ctrs, At(c, "wired"), alive[c], OwnName(c)
                  PROVE  link[Short[c]] = [owner |-> c, peer |-> "inside", master |-> TRUE]
      BY DEF StaysWired
    <2>1. link[Short[c]] \in Link /\ IsPair(link[Short[c]], c, "inside", TRUE)
      BY ShortAssumption DEF TypeOK, NameInv, PairOf, At
    <2>. QED  BY <2>1 DEF Link, IsPair
  <1>. QED  BY <1>1, NameAlways, NetworkTypeCorrect, PTL

\* Its name is free for the next attempt once it is down (network.rs:103-108),
\* unless a set-up was stopped with the pair made and its peer not yet moved.
THEOREM NameFreeAlways == Spec => []NameFreeAtRest
  <1>1. NameInv => NameFreeAtRest
    BY DEF NameInv, PairOf, NameFreeAtRest, At, Present
  <1>. QED  BY <1>1, NameAlways, PTL

=============================================================================
