-------------------------- MODULE StateFileProofs --------------------------
(***************************************************************************)
(* What holds of the state file for every number of updates and every      *)
(* length of a record.                                                     *)
(***************************************************************************)
EXTENDS StateFile, TLAPS

\* A record on disk starts with itself, and takes at least one cell.
LEMMA EncodeFirst ==
    ASSUME NEW rec \in Record
    PROVE  /\ Encode(rec) \in Seq(Record)
           /\ Encode(rec) # <<>>
           /\ Len(Encode(rec)) = rec.len
           /\ rec.len \in Nat \ {0}
           /\ Encode(rec)[1] = rec
  <1>1. rec.len \in Nat \ {0}
    BY LensAssumption DEF Record
  <1>2. Encode(rec) \in [1 .. rec.len -> Record]
    BY DEF Encode
  <1>3. Encode(rec) \in Seq(Record) /\ Len(Encode(rec)) = rec.len
    BY <1>1, <1>2
  <1>4. Encode(rec)[1] = rec
    BY <1>1 DEF Encode
  <1>. QED  BY <1>1, <1>3, <1>4

\* Writing over anything starts with what was written; over an empty file it is
\* exactly that.
LEMMA OverwriteFirst ==
    ASSUME NEW content \in Seq(Record), NEW rec \in Record
    PROVE  /\ Overwrite(content, Encode(rec)) \in Seq(Record)
           /\ Overwrite(content, Encode(rec))[1] = rec
           /\ content = <<>> => Overwrite(content, Encode(rec)) = Encode(rec)
  <1>. DEFINE new == Encode(rec)
              top == IF Len(content) > Len(new) THEN Len(content) ELSE Len(new)
  <1>1. new \in Seq(Record) /\ Len(new) \in Nat \ {0} /\ new[1] = rec
    BY EncodeFirst
  <1>2. top \in Nat \ {0} /\ (content = <<>> => top = Len(new))
    BY <1>1
  <1>3. Overwrite(content, new) = [i \in 1 .. top |-> IF i <= Len(new) THEN new[i] ELSE content[i]]
    BY DEF Overwrite
  <1>4. \A i \in 1 .. top : (IF i <= Len(new) THEN new[i] ELSE content[i]) \in Record
    BY <1>1, <1>2
  <1>5. Overwrite(content, new) \in Seq(Record)
    BY <1>2, <1>3, <1>4
  <1>6. Overwrite(content, new)[1] = rec
    BY <1>1, <1>2, <1>3
  <1>7. ASSUME content = <<>> PROVE Overwrite(content, new) = new
    <2>1. Overwrite(content, new) = [i \in 1 .. Len(new) |-> new[i]]
      BY <1>1, <1>2, <1>3, <1>7
    <2>. QED  BY <1>1, <2>1
  <1>. QED  BY <1>5, <1>6, <1>7

\* What the edit of an update returns is a record again.
LEMMA EditType ==
    ASSUME NEW u \in Updates, NEW rec \in Record, NEW len \in Lens
    PROVE  Edit(u, rec, len) \in Record
  BY DEF Edit, Record

\* Before any update the file holds the first record.
LEMMA InitType == Init => TypeOK
  <1>. SUFFICES ASSUME Init PROVE TypeOK
    OBVIOUS
  <1>1. NoRecord \in Record
    BY LensAssumption DEF NoRecord, Record
  <1>. QED  BY <1>1, EncodeFirst DEF Init, TypeOK

\* No step takes a variable out of its type.
LEMMA TypeStep == TypeOK /\ [Next]_vars => TypeOK'
  <1>. SUFFICES ASSUME TypeOK, [Next]_vars PROVE TypeOK'
    OBVIOUS
  <1>. USE DEF TypeOK
  <1>1. ASSUME NEW u \in Updates, Begin(u) PROVE TypeOK'
    BY <1>1 DEF Begin, Met
  <1>2. ASSUME NEW u \in Updates, Fresh(u) PROVE TypeOK'
    BY <1>2 DEF Fresh, Met, Record
  <1>3. ASSUME NEW u \in Updates, Load(u) PROVE TypeOK'
    <2>1. CASE Readable(file)
      <3>1. file[1] \in Record
        BY <2>1 DEF Readable
      <3>. QED  BY <1>3, <2>1, <3>1, EditType DEF Load
    <2>2. CASE ~Readable(file)
      BY <1>3, <2>2 DEF Load
    <2>. QED  BY <2>1, <2>2
  <1>4. ASSUME NEW u \in Updates, Truncate(u) PROVE TypeOK'
    <2>1. torn' \in BOOLEAN
      BY <1>4, Zenon DEF Truncate
    <2>. QED  BY <1>4, <2>1 DEF Truncate
  <1>5. ASSUME NEW u \in Updates, Write(u) PROVE TypeOK'
    BY <1>5, OverwriteFirst DEF Write, Written
  <1>6. ASSUME NEW u \in Updates, Kill(u) PROVE TypeOK'
    BY <1>6, Zenon DEF Kill
  <1>7. CASE UNCHANGED vars
    BY <1>7 DEF vars
  <1>. QED  BY <1>1, <1>2, <1>3, <1>4, <1>5, <1>6, <1>7 DEF Next

\* Every variable of the state file keeps its type.
THEOREM StateFileTypeCorrect == Spec => []TypeOK
  BY InitType, TypeStep, PTL DEF Spec

-----------------------------------------------------------------------------
(* Readability: as long as no save was torn, one update at most is between  *)
(* opening the file and writing it, and only then the file is empty.        *)

WholeOrSaving ==
    ~torn => /\ \A u, v \in Saving : u = v
             /\ Saving = {} => Readable(file)
             /\ Saving # {} => file = <<>>

\* A step keeps that: a second save, or a kill in one, sets torn.
LEMMA WholeStep == TypeOK /\ WholeOrSaving /\ [Next]_vars => WholeOrSaving'
  <1>. SUFFICES ASSUME TypeOK, WholeOrSaving, [Next]_vars, ~torn' PROVE WholeOrSaving'
    BY DEF WholeOrSaving
  <1>. USE DEF WholeOrSaving, TypeOK, Saving
  <1>1. ASSUME NEW u \in Updates, Begin(u) PROVE WholeOrSaving'
    BY <1>1 DEF Begin
  <1>2. ASSUME NEW u \in Updates, Fresh(u) PROVE WholeOrSaving'
    BY <1>2 DEF Fresh
  <1>3. ASSUME NEW u \in Updates, Load(u) PROVE WholeOrSaving'
    BY <1>3 DEF Load
  <1>4. ASSUME NEW u \in Updates, Truncate(u) PROVE WholeOrSaving'
    <2>1. ~torn /\ Saving = {}
      BY <1>4 DEF Truncate
    <2>2. Saving' = {u}
      BY <1>4, <2>1 DEF Truncate
    <2>. QED  BY <1>4, <2>1, <2>2 DEF Truncate
  <1>5. ASSUME NEW u \in Updates, Write(u) PROVE WholeOrSaving'
    <2>1. ~torn /\ file = <<>> /\ \A v \in Saving : v = u
      BY <1>5 DEF Write
    <2>2. Saving' = {}
      BY <1>5, <2>1 DEF Write
    <2>3. file' = Encode(buf[u]) /\ buf[u] \in Record
      BY <1>5, <2>1, OverwriteFirst DEF Write, Written
    <2>4. Readable(file')
      BY <2>3, EncodeFirst DEF Readable, Parses
    <2>. QED  BY <2>2, <2>4
  <1>6. ASSUME NEW u \in Updates, Kill(u) PROVE WholeOrSaving'
    <2>1. ~torn /\ pc[u] # "write"
      BY <1>6 DEF Kill
    <2>2. Saving' = Saving
      BY <1>6, <2>1 DEF Kill
    <2>. QED  BY <1>6, <2>1, <2>2 DEF Kill
  <1>7. CASE UNCHANGED vars
    BY <1>7 DEF vars
  <1>. QED  BY <1>1, <1>2, <1>3, <1>4, <1>5, <1>6, <1>7 DEF Next

\* state.json does not parse only while an update saves it, or after a kill in
\* the middle of a save or two saves at once (state.rs:195-199).
THEOREM UnreadableOnlyInSave == Spec => []ReadableAtRest
  <1>1. Init => WholeOrSaving
    <2>. SUFFICES ASSUME Init PROVE WholeOrSaving
      OBVIOUS
    <2>1. Saving = {}
      BY DEF Init, Saving
    <2>2. NoRecord \in Record /\ file = Encode(NoRecord)
      BY LensAssumption DEF Init, NoRecord, Record
    <2>3. Readable(file)
      BY <2>2, EncodeFirst DEF Readable, Parses
    <2>. QED  BY <2>1, <2>3 DEF WholeOrSaving
  <1>2. WholeOrSaving => ReadableAtRest
    BY DEF WholeOrSaving, ReadableAtRest
  <1>. QED  BY <1>1, <1>2, WholeStep, StateFileTypeCorrect, PTL DEF Spec

-----------------------------------------------------------------------------
(* Updates that met no other: what has been saved is in the file, and in    *)
(* the memory of everybody who has loaded it since.                         *)

Kept == {u \in Updates : pc[u] = "ok" /\ u \notin undone}

InFile == Readable(file) => \A u \in Kept : u \in file[1].has
InMemory ==
    \A v \in Updates :
        pc[v] \in {"truncate", "write"} => v \in buf[v].has /\ \A u \in Kept : u \in buf[v].has
MetAreUndone ==
    \A u, v \in Updates : Active(u) /\ Active(v) /\ u # v => u \in undone /\ v \in undone

KeptInv == InFile /\ InMemory /\ MetAreUndone

\* No step drops an update that met no other.
LEMMA KeptStep == TypeOK /\ KeptInv /\ [Next]_vars => KeptInv'
  <1>. SUFFICES ASSUME TypeOK, KeptInv, [Next]_vars PROVE KeptInv'
    OBVIOUS
  <1>. USE DEF TypeOK, KeptInv, Kept, Active
  <1>1. ASSUME NEW u \in Updates, Begin(u) PROVE KeptInv'
    <2>1. Kept' \subseteq Kept
      BY <1>1 DEF Begin
    <2>2. InFile' /\ InMemory'
      BY <1>1, <2>1 DEF Begin, InFile, InMemory
    <2>3. MetAreUndone'
      <3>1. \A v \in Updates : Active(v) => v \in Met(u) /\ u \in Met(u)
        BY DEF Met
      <3>. QED  BY <1>1, <3>1 DEF Begin, MetAreUndone
    <2>. QED  BY <2>2, <2>3
  <1>2. ASSUME NEW u \in Updates, Fresh(u) PROVE KeptInv'
    <2>1. Kept' = {}
      BY <1>2 DEF Fresh
    <2>2. InFile' /\ InMemory'
      BY <1>2, <2>1 DEF Fresh, InFile, InMemory
    <2>3. MetAreUndone'
      <3>1. \A v \in Updates : Active(v) => v \in Met(u) /\ u \in Met(u)
        BY DEF Met
      <3>. QED  BY <1>2, <3>1 DEF Fresh, MetAreUndone
    <2>. QED  BY <2>2, <2>3
  <1>3. ASSUME NEW u \in Updates, Load(u) PROVE KeptInv'
    <2>1. Kept' = Kept
      BY <1>3 DEF Load
    <2>2. MetAreUndone'
      BY <1>3 DEF Load, MetAreUndone
    <2>3. CASE Readable(file)
      <3>1. PICK len \in Lens : buf' = [buf EXCEPT ![u] = Edit(u, file[1], len)]
        BY <1>3, <2>3 DEF Load
      <3>2. buf'[u].has = file[1].has \cup {u}
        BY <3>1 DEF Edit
      <3>3. InMemory'
        BY <1>3, <2>1, <2>3, <3>1, <3>2 DEF Load, InMemory, InFile
      <3>. QED  BY <1>3, <2>1, <2>2, <3>3 DEF Load, InFile
    <2>4. CASE ~Readable(file)
      BY <1>3, <2>1, <2>2, <2>4 DEF Load, InMemory, InFile
    <2>. QED  BY <2>3, <2>4
  <1>4. ASSUME NEW u \in Updates, Truncate(u) PROVE KeptInv'
    <2>1. Kept' = Kept
      BY <1>4 DEF Truncate
    <2>2. ~Readable(file')
      BY <1>4 DEF Truncate, Readable
    <2>. QED  BY <1>4, <2>1, <2>2 DEF Truncate, InFile, InMemory, MetAreUndone
  <1>5. ASSUME NEW u \in Updates, Write(u) PROVE KeptInv'
    <2>1. file'[1] = buf[u]
      BY <1>5, OverwriteFirst DEF Write, Written
    <2>2. Kept' \subseteq Kept \cup {u}
      BY <1>5 DEF Write
    <2>3. InFile'
      BY <1>5, <2>1, <2>2 DEF Write, InFile, InMemory
    <2>4. InMemory'
      BY <1>5, <2>2 DEF Write, InMemory, MetAreUndone
    <2>5. MetAreUndone'
      BY <1>5 DEF Write, MetAreUndone
    <2>. QED  BY <2>3, <2>4, <2>5
  <1>6. ASSUME NEW u \in Updates, Kill(u) PROVE KeptInv'
    BY <1>6 DEF Kill, InFile, InMemory, MetAreUndone
  <1>7. CASE UNCHANGED vars
    BY <1>7 DEF vars, InFile, InMemory, MetAreUndone
  <1>. QED  BY <1>1, <1>2, <1>3, <1>4, <1>5, <1>6, <1>7 DEF Next

\* An update that returned Ok and met no other stays in state.json, for any
\* number of updates after it (state.rs:293-299).
THEOREM LoneUpdateKept == Spec => []UpdateKept
  <1>1. Init => KeptInv
    BY DEF Init, KeptInv, InFile, InMemory, MetAreUndone, Kept, Active
  <1>2. KeptInv => UpdateKept
    BY DEF KeptInv, InFile, Kept, UpdateKept
  <1>. QED  BY <1>1, <1>2, KeptStep, StateFileTypeCorrect, PTL DEF Spec

\* Once state.json does not parse and nobody is about to save it, only a record
\* that starts afresh brings it back: no update does (state.rs:295-298).
THEOREM LostStaysLost == Spec => LostForGood
  <1>1. TypeOK /\ [Next]_vars =>
          [Lost => Lost' \/ \E u \in Updates : pc[u] = "unused" /\ pc'[u] = "truncate"]_vars
    <2>. SUFFICES ASSUME TypeOK, Next, Lost
                  PROVE  Lost' \/ \E u \in Updates : pc[u] = "unused" /\ pc'[u] = "truncate"
      OBVIOUS
    <2>. USE DEF Lost, TypeOK
    <2>1. ASSUME NEW u \in Updates, Begin(u) PROVE Lost'
      BY <2>1 DEF Begin
    <2>2. ASSUME NEW u \in Updates, Fresh(u) PROVE pc[u] = "unused" /\ pc'[u] = "truncate"
      BY <2>2 DEF Fresh
    <2>3. ASSUME NEW u \in Updates, Load(u) PROVE Lost'
      BY <2>3 DEF Load
    <2>4. ASSUME NEW u \in Updates, Kill(u) PROVE Lost'
      BY <2>4 DEF Kill
    <2>5. ASSUME NEW u \in Updates PROVE ~Truncate(u) /\ ~Write(u)
      BY DEF Truncate, Write
    <2>. QED  BY <2>1, <2>2, <2>3, <2>4, <2>5 DEF Next
  <1>. QED  BY <1>1, StateFileTypeCorrect, PTL DEF Spec, LostForGood
=============================================================================
