----------------------------- MODULE StateFile -----------------------------
(***************************************************************************)
(* state.json of one container, below the level at which Lifecycle sees    *)
(* it: load_state reads and parses the file, save_state is fs::write, which *)
(* opens it with truncation and then writes from offset zero.  The runtime *)
(* takes no lock, so the updates of several processes interleave, and any  *)
(* of them may be killed half way.                                         *)
(*                                                                         *)
(* A record is the set of updates it contains and the length it takes on   *)
(* disk; the file is a sequence of cells that each hold the record they    *)
(* were written from.                                                      *)
(***************************************************************************)
EXTENDS Naturals, Sequences

CONSTANTS
    Updates,   \* invocations of update, init_container or adopt, by any process
    Lens,      \* the lengths a record may have
    First      \* the length of the first record

ASSUME LensAssumption == Lens \subseteq Nat \ {0} /\ First \in Lens

VARIABLES
    file,     \* what state.json holds
    pc,       \* each of them: unused, load, truncate, write, ok, failed, killed
    buf,      \* the record an update has loaded and edited
    \* History, for the properties:
    undone,   \* the saves that ran at the same time as another, or before a
              \* record that starts afresh
    torn      \* an update was killed, or two of them saved, in the middle of a save

vars == <<file, pc, buf, undone, torn>>

Record == [has : SUBSET Updates, len : Lens]
Encode(rec) == [i \in 1 .. rec.len |-> rec]

\* serde_json::from_str accepts exactly one whole record.
Parses(content, rec) == content = Encode(rec)
Readable(content) == content # <<>> /\ Parses(content, content[1])

\* Overwrites from offset zero; what was there beyond it stays.
Overwrite(content, new) ==
    [i \in 1 .. IF Len(content) > Len(new) THEN Len(content) ELSE Len(new) |->
        IF i <= Len(new) THEN new[i] ELSE content[i]]

NoRecord == [has |-> {}, len |-> First]

\* init_container has written the first record.
Init ==
    /\ file = Encode(NoRecord)
    /\ pc = [u \in Updates |-> "unused"]
    /\ buf = [u \in Updates |-> NoRecord]
    /\ undone = {}
    /\ torn = FALSE

-----------------------------------------------------------------------------

Active(u) == pc[u] \in {"load", "truncate", "write"}
Saving == {u \in Updates : pc[u] = "write"}

\* The saves in progress when u begins, and u itself if there are any.
Met(u) ==
    LET others == {v \in Updates : Active(v)}
    IN  IF others = {} THEN {} ELSE others \cup {u}

\* A command or a supervisor calls update, set_running_under or set_stopped.
Begin(u) ==
    /\ pc[u] = "unused"
    /\ pc' = [pc EXCEPT ![u] = "load"]
    /\ undone' = undone \cup Met(u)
    /\ UNCHANGED <<file, buf, torn>>

\* create and the arrival of a migrated container save without loading.
Fresh(u) ==
    /\ pc[u] = "unused"
    /\ pc' = [pc EXCEPT ![u] = "truncate"]
    /\ \E len \in Lens : buf' = [buf EXCEPT ![u] = [has |-> {u}, len |-> len]]
    /\ undone' = undone \cup Met(u) \cup {v \in Updates : pc[v] = "ok"}
    /\ UNCHANGED <<file, torn>>

BrokenEdit(u, rec, len) == [has |-> {u}, len |-> len]

\* The closure changes some fields of the record it was given.
Edit(u, rec, len) == [has |-> rec.has \cup {u}, len |-> len]

\* A file that does not parse taken for an empty record.
BrokenLoad(u) ==
    /\ pc[u] = "load"
    /\ \E len \in Lens :
          buf' = [buf EXCEPT ![u] = IF Readable(file) THEN Edit(u, file[1], len)
                                                      ELSE [has |-> {u}, len |-> len]]
    /\ pc' = [pc EXCEPT ![u] = "truncate"]
    /\ UNCHANGED <<file, undone, torn>>

Load(u) ==
    /\ pc[u] = "load"
    /\ IF Readable(file)
         THEN /\ \E len \in Lens : buf' = [buf EXCEPT ![u] = Edit(u, file[1], len)]
              /\ pc' = [pc EXCEPT ![u] = "truncate"]
         ELSE /\ pc' = [pc EXCEPT ![u] = "failed"]
              /\ UNCHANGED buf
    /\ UNCHANGED <<file, undone, torn>>

\* fs::write opens the file ...
Truncate(u) ==
    /\ pc[u] = "truncate"
    /\ file' = <<>>
    /\ pc' = [pc EXCEPT ![u] = "write"]
    /\ torn' = (torn \/ Saving # {})
    /\ UNCHANGED <<buf, undone>>

BrokenWritten(u) == SubSeq(Encode(buf[u]), 1, buf[u].len - 1)

Written(u) == Overwrite(file, Encode(buf[u]))

\* ... and writes all of the record.
Write(u) ==
    /\ pc[u] = "write"
    /\ file' = Written(u)
    /\ pc' = [pc EXCEPT ![u] = "ok"]
    /\ UNCHANGED <<buf, undone, torn>>

Kill(u) ==
    /\ Active(u)
    /\ pc' = [pc EXCEPT ![u] = "killed"]
    /\ torn' = (torn \/ pc[u] = "write")
    /\ UNCHANGED <<file, buf, undone>>

Next ==
    \E u \in Updates : Begin(u) \/ Fresh(u) \/ Load(u) \/ Truncate(u) \/ Write(u) \/ Kill(u)

Spec == Init /\ [][Next]_vars

-----------------------------------------------------------------------------
(* Properties *)

\* Every variable keeps its type.
TypeOK ==
    /\ file \in Seq(Record)
    /\ pc \in [Updates -> {"unused", "load", "truncate", "write", "ok", "failed", "killed"}]
    /\ buf \in [Updates -> Record]
    /\ undone \in SUBSET Updates
    /\ torn \in BOOLEAN

\* An update that returned Ok and met no other stays in the record, whatever
\* comes after it (state.rs:293, read-modify-write).
UpdateKept ==
    Readable(file) =>
        \A u \in Updates : pc[u] = "ok" /\ u \notin undone => u \in file[1].has

\* The file does not parse only while an update saves it, or after one was
\* killed there or two of them saved at once.
ReadableAtRest == ~Readable(file) => torn \/ Saving # {}

\* A file left unreadable stays so until a record starts afresh: every update
\* loads before it saves, so nothing else repairs it (state.rs:295-298).
Lost == ~Readable(file) /\ \A u \in Updates : pc[u] \notin {"truncate", "write"}
LostForGood ==
    [][Lost => Lost' \/ \E u \in Updates : pc[u] = "unused" /\ pc'[u] = "truncate"]_vars
=============================================================================
