------------------------------ MODULE Snapshot ------------------------------
(***************************************************************************)
(* The snapshot file (snapshot.rs): a checkpoint writes it entry by entry  *)
(* through a scratch file and then in place, a restore opens, verifies and *)
(* unpacks it, and the two may meet, because `checkpoint --leave-running`  *)
(* rewrites the same name again and again.  The container's log grows      *)
(* while it is packed; a writer may fail or be killed at any point.        *)
(*                                                                         *)
(* A file is a sequence of cells: the magic, the manifest, entry headers,  *)
(* pieces of data, the trailer, the checksum.  A checksum stands for what  *)
(* it was taken of (Crc checks the arithmetic).  Buffered writers may      *)
(* reach the disk up to any cell.                                          *)
(***************************************************************************)
EXTENDS Naturals, Sequences

CONSTANTS
    Readers,
    Absent,
    MaxDumps,   \* bounds the checkpoints
    MaxLog      \* bounds the growth of the log

ASSUME SnapshotAssumption == MaxDumps \in Nat /\ MaxLog \in Nat

VARIABLES
    log,      \* the container's log, a source that grows
    dumps,    \* how many dumps were made; the images hold the last one
    scratch,  \* <name>.mcsnap.part
    dest,     \* <name>.mcsnap, rewritten in place
    w,        \* the SnapshotWriter: control point, entries so far, current one
    r,        \* the SnapshotReaders
    \* History, for the properties:
    packs,    \* the tables of entries of the finished snapshots
    fit       \* dest is torn, whole (what a finished writer left) or spoilt

vars == <<log, dumps, scratch, dest, w, r, packs, fit>>

Order == <<"images", "log">>
Data(v) == <<"data", v>>
Source(name) == IF name = "log" THEN log ELSE <<Data(dumps), Data(dumps)>>

Magic == <<"magic">>
Manifest(entries) == <<"manifest", entries>>
Header(name, len) == <<"entry", name, len>>
Trailer == <<"trailer">>
Checksum(cells) == <<"crc", cells>>

Idle == [pc |-> "idle", entries |-> <<>>, len |-> 0, data |-> <<>>]
Unopened == [pc |-> "unopened", total |-> 0, manifest |-> <<>>, stored |-> <<>>,
             seen |-> <<>>, pos |-> 0, out |-> <<>>,
             calm |-> TRUE,    \* not rewritten since it was opened
             sound |-> TRUE,   \* not spoilt since it was written
             good |-> FALSE]   \* whole when it was opened

Init ==
    /\ log = <<>>
    /\ dumps = 0
    /\ scratch = Absent
    /\ dest = Absent
    /\ w = Idle
    /\ r = [x \in Readers |-> Unopened]
    /\ packs = {}
    /\ fit = "torn"

-----------------------------------------------------------------------------
(* Writing *)

Grow ==
    /\ dumps > 0
    /\ Len(log) < MaxLog
    /\ log' = Append(log, Data(dumps))
    /\ UNCHANGED <<dumps, scratch, dest, w, r, packs, fit>>

\* SnapshotWriter::new, after a dump: File::create, whatever an earlier writer
\* left there.
New ==
    /\ w.pc = "idle"
    /\ dumps < MaxDumps
    /\ dumps' = dumps + 1
    /\ scratch' = <<>>
    /\ w' = [Idle EXCEPT !.pc = "header"]
    /\ UNCHANGED <<log, dest, r, packs, fit>>

\* add_file: the length is taken, and goes to disk, before the data is read.
WriteHeader ==
    LET name == Order[Len(w.entries) + 1] IN
    /\ w.pc = "header"
    /\ scratch' = Append(scratch, Header(name, Len(Source(name))))
    /\ w' = [w EXCEPT !.pc = "copy", !.len = Len(Source(name)), !.data = <<>>]
    /\ UNCHANGED <<log, dumps, dest, r, packs, fit>>

Copy ==
    LET name == Order[Len(w.entries) + 1]
        i == Len(w.data) + 1 IN
    /\ w.pc = "copy"
    /\ i <= Len(Source(name))
    /\ scratch' = Append(scratch, Source(name)[i])
    /\ w' = [w EXCEPT !.data = Append(@, Source(name)[i])]
    /\ UNCHANGED <<log, dumps, dest, r, packs, fit>>

BrokenSameLength(copied, len) == TRUE

\* A source that changed its length while it was read spoils the frame.
SameLength(copied, len) == copied = len

\* Dropping the writer removes the scratch file.
Drop == scratch' = Absent

EndOfEntry ==
    LET name == Order[Len(w.entries) + 1] IN
    /\ w.pc = "copy"
    /\ Len(w.data) >= Len(Source(name))
    /\ \/ /\ SameLength(Len(w.data), w.len)
          /\ w' = [Idle EXCEPT
                     !.entries = Append(w.entries, [name |-> name, len |-> w.len, crc |-> w.data]),
                     !.pc = IF Len(w.entries) + 1 = Len(Order) THEN "create" ELSE "header"]
          /\ UNCHANGED scratch
       \/ /\ ~SameLength(Len(w.data), w.len)
          /\ w' = Idle
          /\ Drop
    /\ UNCHANGED <<log, dumps, dest, r, packs, fit>>

\* finish: the destination is opened by File::create.
CreateDest ==
    /\ w.pc = "create"
    /\ dest' = <<>>
    /\ fit' = "torn"
    /\ w' = [w EXCEPT !.pc = "fill"]
    /\ r' = [x \in Readers |-> [r[x] EXCEPT !.calm = FALSE]]
    /\ UNCHANGED <<log, dumps, scratch, packs>>

\* Header, manifest, the scratch file's content and the trailer.
Body == <<Magic, Manifest(w.entries)>> \o scratch \o <<Trailer>>

Fill ==
    /\ w.pc = "fill"
    /\ Len(dest) < Len(Body)
    /\ dest' = Append(dest, Body[Len(dest) + 1])
    /\ UNCHANGED <<log, dumps, scratch, w, r, packs, fit>>

\* The checksum of everything so far, and the scratch file goes.
Finish ==
    /\ w.pc = "fill"
    /\ Len(dest) = Len(Body)
    /\ dest' = Append(dest, Checksum(dest))
    /\ Drop
    /\ packs' = packs \cup {w.entries}
    /\ fit' = "whole"
    /\ w' = Idle
    /\ UNCHANGED <<log, dumps, r>>

\* An error on the disk, at any point.
WriterFails ==
    /\ w.pc # "idle"
    /\ w' = Idle
    /\ Drop
    /\ UNCHANGED <<log, dumps, dest, r, packs, fit>>

WriterKilled ==
    /\ w.pc # "idle"
    /\ w' = Idle
    /\ UNCHANGED <<log, dumps, scratch, dest, r, packs, fit>>

\* The disk gives back something else than was written: other data, or a
\* manifest that still parses.
Spoilt(cell) == IF cell[1] = "manifest" THEN Manifest(<<>>) ELSE Data(0)

Decay ==
    /\ fit = "whole"
    /\ \E i \in DOMAIN dest : dest' = [dest EXCEPT ![i] = Spoilt(@)]
    /\ fit' = "spoilt"
    /\ r' = [x \in Readers |-> [r[x] EXCEPT !.sound = FALSE]]
    /\ UNCHANGED <<log, dumps, scratch, w, packs>>

-----------------------------------------------------------------------------
(* Reading: every read sees the file as it is at that moment *)

Goto(x, new) == r' = [r EXCEPT ![x] = new]
Fails(x) == Goto(x, [r[x] EXCEPT !.pc = "failed"])
Has(i) == i \in 1 .. Len(dest)
ReaderStep == UNCHANGED <<log, dumps, scratch, dest, w, packs, fit>>

\* open: the size is taken once.
Open(x) ==
    /\ r[x].pc = "unopened"
    /\ dest # Absent
    /\ LET new == [Unopened EXCEPT !.total = Len(dest), !.calm = (w.pc # "fill"),
                                   !.sound = (fit # "spoilt"), !.good = (fit = "whole")]
       IN  Goto(x, [new EXCEPT !.pc = IF Len(dest) < 4 THEN "failed" ELSE "head"])
    /\ ReaderStep

ReadHead(x) ==
    /\ r[x].pc = "head"
    /\ IF Has(2) /\ dest[1] = Magic /\ dest[2][1] = "manifest"
         THEN Goto(x, [r[x] EXCEPT !.pc = "tail", !.manifest = dest[2][2]])
         ELSE Fails(x)
    /\ ReaderStep

\* Twelve bytes before the end of the file as it was when it was opened.
TrailerAt(total) == total - 1

ReadTail(x) ==
    LET at == TrailerAt(r[x].total) IN
    /\ r[x].pc = "tail"
    /\ IF Has(at + 1) /\ dest[at] = Trailer
         THEN Goto(x, [r[x] EXCEPT !.pc = "verify", !.stored = dest[at + 1]])
         ELSE Fails(x)
    /\ ReaderStep

\* verify: everything up to the checksum.
VerifyNext(x) ==
    LET i == Len(r[x].seen) + 1 IN
    /\ r[x].pc = "verify"
    /\ i < r[x].total
    /\ IF Has(i)
         THEN Goto(x, [r[x] EXCEPT !.seen = Append(@, dest[i])])
         ELSE Fails(x)
    /\ ReaderStep

BrokenSums(seen, stored) == TRUE

Sums(seen, stored) == stored = Checksum(seen)

VerifyEnd(x) ==
    /\ r[x].pc = "verify"
    /\ Len(r[x].seen) + 1 >= r[x].total
    /\ IF Sums(r[x].seen, r[x].stored)
         THEN Goto(x, [r[x] EXCEPT !.pc = "entry", !.seen = <<>>, !.pos = 3])
         ELSE Fails(x)
    /\ ReaderStep

\* extract_all: the next frame must be the one the manifest names.
ExtractHeader(x) ==
    LET meta == r[x].manifest[Len(r[x].out) + 1] IN
    /\ r[x].pc = "entry"
    /\ Len(r[x].out) < Len(r[x].manifest)
    /\ IF Has(r[x].pos) /\ dest[r[x].pos] = Header(meta.name, meta.len)
         THEN Goto(x, [r[x] EXCEPT !.pc = "data", !.pos = @ + 1, !.seen = <<>>])
         ELSE Fails(x)
    /\ ReaderStep

ExtractNext(x) ==
    LET meta == r[x].manifest[Len(r[x].out) + 1] IN
    /\ r[x].pc = "data"
    /\ Len(r[x].seen) < meta.len
    /\ IF Has(r[x].pos)
         THEN Goto(x, [r[x] EXCEPT !.pos = @ + 1, !.seen = Append(@, dest[r[x].pos])])
         ELSE Fails(x)
    /\ ReaderStep

BrokenEntrySums(seen, crc) == TRUE

EntrySums(seen, crc) == seen = crc

ExtractEnd(x) ==
    LET meta == r[x].manifest[Len(r[x].out) + 1] IN
    /\ r[x].pc = "data"
    /\ Len(r[x].seen) = meta.len
    /\ IF EntrySums(r[x].seen, meta.crc)
         THEN Goto(x, [r[x] EXCEPT !.pc = "entry",
                                   !.out = Append(@, [meta EXCEPT !.crc = r[x].seen])])
         ELSE Fails(x)
    /\ ReaderStep

Extracted(x) ==
    /\ r[x].pc = "entry"
    /\ Len(r[x].out) = Len(r[x].manifest)
    /\ Goto(x, [r[x] EXCEPT !.pc = "done"])
    /\ ReaderStep

-----------------------------------------------------------------------------

Writing == New \/ WriteHeader \/ Copy \/ EndOfEntry \/ CreateDest \/ Fill \/ Finish
Reading(x) ==
    \/ Open(x) \/ ReadHead(x) \/ ReadTail(x) \/ VerifyNext(x) \/ VerifyEnd(x)
    \/ ExtractHeader(x) \/ ExtractNext(x) \/ ExtractEnd(x) \/ Extracted(x)

Next ==
    \/ Grow
    \/ Writing
    \/ WriterFails
    \/ WriterKilled
    \/ Decay
    \/ \E x \in Readers : Reading(x)

Spec == Init /\ [][Next]_vars

-----------------------------------------------------------------------------
(* Properties *)

\* Whatever is rewritten while a restore reads, what it unpacks is all of one
\* finished snapshot, never pieces of two: verify cannot see a rewrite that
\* comes after it, the checksum of each entry does (snapshot.rs:20-23).
\* (A manifest that is spoilt and then rewritten under the reader is beyond it.)
UnpacksOnePack ==
    \A x \in Readers :
        r[x].pc = "done" /\ (r[x].calm \/ r[x].sound) => r[x].out \in packs

\* A file that is not what a finished writer left, because that writer failed or
\* was killed or the disk spoilt it, never gets past verify (snapshot.rs:487-489).
TornRejected ==
    \A x \in Readers :
        r[x].calm /\ r[x].pc \in {"entry", "data", "done"} => r[x].good

\* What a finished writer left can be read back, whatever an earlier one that
\* was killed had left in the scratch file, and however the log grew.
RoundTrip ==
    \A x \in Readers : r[x].calm /\ r[x].sound /\ r[x].good => r[x].pc # "failed"
=============================================================================
