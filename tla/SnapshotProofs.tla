--------------------------- MODULE SnapshotProofs ---------------------------
(***************************************************************************)
(* For any number of readers, checkpoints and cells, however the rewrites, *)
(* failures and kills of the writer, the growth of the log and a spoilt    *)
(* disk fall between the reads: a restore unpacks one finished snapshot,   *)
(* what no writer finished is rejected, and what one finished can be read. *)
(***************************************************************************)
EXTENDS Snapshot, SequenceTheorems, TLAPS

\* The cells of a file that was written, and what they become.
Chunk == {Data(v) : v \in Nat \ {0}}
Entry == [name : {"images", "log"}, len : Nat, crc : Seq(Chunk)]
Table == Seq(Entry)
Plain == Chunk \cup {Magic, Trailer}
         \cup {Manifest(e) : e \in Table \ {<<>>}}
         \cup {Header(name, len) : name \in {"images", "log"}, len \in Nat}
Cell == Plain \cup {Checksum(s) : s \in Seq(Plain)} \cup {Data(0), Manifest(<<>>)}

Writer == [pc : {"idle", "header", "copy", "create", "fill"},
           entries : Table, len : Nat, data : Seq(Chunk)]
Reader == [pc : {"unopened", "failed", "head", "tail", "verify", "entry", "data", "done"},
           total : Nat, manifest : Table, stored : Cell \cup {<<>>}, seen : Seq(Cell),
           pos : Nat, out : Table, calm : BOOLEAN, sound : BOOLEAN, good : BOOLEAN]

Busy(x) == r[x].pc \notin {"unopened", "failed"}

\* Every variable keeps its type, and what is open is there.
TypeOK ==
    /\ log \in Seq(Chunk)
    /\ dumps \in Nat
    /\ scratch \in Seq(Plain) \cup {Absent}
    /\ dest \in Seq(Cell) \cup {Absent}
    /\ w \in Writer
    /\ r \in [Readers -> Reader]
    /\ packs \in SUBSET Table
    /\ fit \in {"torn", "whole", "spoilt"}
    /\ w.pc # "idle" => dumps > 0 /\ scratch \in Seq(Plain)
    /\ w.pc \in {"header", "copy"} => Len(w.entries) < 2
    /\ w.pc \in {"create", "fill"} => Len(w.entries) = 2
    /\ w.pc = "fill" => dest \in Seq(Plain) /\ fit = "torn"
    /\ fit = "torn" /\ dest # Absent => dest \in Seq(Plain)
    /\ fit # "torn" => dest \in Seq(Cell)
    /\ \A x \in Readers : r[x].pc # "unopened" => dest \in Seq(Cell)
    /\ \A x \in Readers : r[x].pc = "data" => Len(r[x].out) < Len(r[x].manifest)

\* What tells the cells apart.
LEMMA Tags ==
    /\ Magic[1] = "magic" /\ Trailer[1] = "trailer"
    /\ \A v : Data(v)[1] = "data" /\ Data(v)[2] = v
    /\ \A e : Manifest(e)[1] = "manifest" /\ Manifest(e)[2] = e
    /\ \A n, l : Header(n, l)[1] = "entry"
    /\ \A s : Checksum(s)[1] = "crc" /\ Checksum(s)[2] = s
  BY DEF Magic, Trailer, Data, Manifest, Header, Checksum

\* What the tag of a cell tells.
LEMMA Sorts ==
    /\ \A c \in Plain : c[1] # "crc" /\ c # Data(0) /\ c # Manifest(<<>>)
    /\ \A c \in Cell : c[1] = "crc" => \E s \in Seq(Plain) : c = Checksum(s)
    /\ \A c \in Cell : c[1] = "manifest" => \E e \in Table : c = Manifest(e)
    /\ Plain \subseteq Cell /\ Chunk \subseteq Plain
    /\ \A c \in Plain : c[1] = "manifest" => \E e \in Table \ {<<>>} : c = Manifest(e)
  <1>1. \A c \in Plain : c[1] # "crc" /\ c # Data(0) /\ c # Manifest(<<>>)
    BY Tags DEF Plain, Chunk
  <1>2. \A c \in Plain : c[1] = "manifest" => \E e \in Table \ {<<>>} : c = Manifest(e)
    BY Tags DEF Plain, Chunk
  <1>3. <<>> \in Table
    BY DEF Table
  <1>4. \A c \in Cell : c[1] = "crc" => \E s \in Seq(Plain) : c = Checksum(s)
    BY Tags, <1>1 DEF Cell
  <1>5. \A c \in Cell : c[1] = "manifest" => \E e \in Table : c = Manifest(e)
    BY Tags, <1>2, <1>3 DEF Cell
  <1>6. Plain \subseteq Cell
    BY DEF Cell
  <1>7. Chunk \subseteq Plain
    BY DEF Plain
  <1>. QED  BY <1>1, <1>2, <1>4, <1>5, <1>6, <1>7

\* A larger alphabet has the words of a smaller one.
LEMMA Wider == Seq(Chunk) \subseteq Seq(Plain) /\ Seq(Plain) \subseteq Seq(Cell) /\ Seq(Chunk) \subseteq Seq(Cell)
  <1>1. \A S, T : S \subseteq T => Seq(S) \subseteq Seq(T)
    BY SeqDef
  <1>. QED  BY <1>1, Sorts

\* What is packed is data.
LEMMA SourceType ==
    ASSUME log \in Seq(Chunk), dumps \in Nat, dumps > 0, NEW name
    PROVE  /\ Source(name) \in Seq(Chunk)
           /\ name # "log" => Len(Source(name)) = 2 /\ Source(name)[1] = Data(dumps)
                                /\ Source(name)[2] = Data(dumps)
  <1>1. Data(dumps) \in Chunk
    BY DEF Chunk
  <1>. QED  BY <1>1 DEF Source

\* The names of the entries.
LEMMA Orders == Order[1] = "images" /\ Order[2] = "log" /\ Len(Order) = 2
  BY DEF Order

\* The image of a snapshot is its head, what was packed, and the trailer.
LEMMA BodyCells ==
    ASSUME w \in Writer, scratch \in Seq(Plain), Len(w.entries) = 2
    PROVE  /\ Body \in Seq(Plain) /\ Len(Body) = Len(scratch) + 3
           /\ Body[1] = Magic /\ Body[2] = Manifest(w.entries)
           /\ \A i \in 1 .. Len(scratch) : Body[2 + i] = scratch[i]
           /\ Body[Len(scratch) + 3] = Trailer
  <1>1. w.entries \in Table \ {<<>>}
    <2>1. w.entries \in Table
      BY DEF Writer
    <2>2. Len(<<>>) = 0
      OBVIOUS
    <2>. QED  BY <2>1, <2>2
  <1>2. Manifest(w.entries) \in Plain /\ Magic \in Plain /\ Trailer \in Plain
    BY <1>1 DEF Plain
  <1>. DEFINE h == <<Magic, Manifest(w.entries)>>
              t == <<Trailer>>
  <1>3. /\ h \in Seq(Plain) /\ Len(h) = 2 /\ h[1] = Magic /\ h[2] = Manifest(w.entries)
        /\ t \in Seq(Plain) /\ Len(t) = 1 /\ t[1] = Trailer
    BY <1>2
  <1>. HIDE DEF h, t
  <1>. DEFINE b == h \o scratch
  <1>4. /\ b \in Seq(Plain) /\ Len(b) = Len(h) + Len(scratch)
        /\ \A i \in 1 .. Len(h) + Len(scratch) :
              b[i] = IF i <= Len(h) THEN h[i] ELSE scratch[i - Len(h)]
    BY <1>3, ConcatProperties, Zenon
  <1>. HIDE DEF b
  <1>5. /\ b \o t \in Seq(Plain) /\ Len(b \o t) = Len(b) + Len(t)
        /\ \A i \in 1 .. Len(b) + Len(t) :
              (b \o t)[i] = IF i <= Len(b) THEN b[i] ELSE t[i - Len(b)]
    <2>1. b \in Seq(Plain) /\ t \in Seq(Plain)
      BY <1>3, <1>4
    <2>. QED  BY <2>1, ConcatProperties, Zenon
  <1>6. Body = b \o t /\ Len(scratch) \in Nat
    BY DEF Body, b, h, t
  <1>. QED  BY <1>3, <1>4, <1>5, <1>6

\* The first states of the writer and of a reader, and the edits of a reader.
LEMMA Edits ==
    /\ Idle \in Writer /\ Unopened \in Reader
    /\ \A z \in Reader :
          /\ [z EXCEPT !.pc = "failed"] \in Reader
          /\ [z EXCEPT !.calm = FALSE] \in Reader
          /\ [z EXCEPT !.sound = FALSE] \in Reader
  <1>1. <<>> \in Table /\ <<>> \in Seq(Chunk) /\ <<>> \in Seq(Cell)
    BY DEF Table
  <1>2. Idle \in Writer /\ Unopened \in Reader
    BY <1>1 DEF Idle, Writer, Unopened, Reader
  <1>. QED  BY <1>2 DEF Reader

\* The writer's steps keep the types.
LEMMA WritingType ==
    ASSUME TypeOK, Grow \/ Writing \/ WriterFails \/ WriterKilled \/ Decay
    PROVE  TypeOK'
  <1>. USE SnapshotAssumption
  <1>0. /\ w \in Writer /\ w.entries \in Table /\ w.data \in Seq(Chunk) /\ w.len \in Nat
        /\ Idle \in Writer /\ Idle.pc = "idle" /\ r \in [Readers -> Reader]
        /\ dest \in Seq(Cell) \cup {Absent} /\ scratch \in Seq(Plain) \cup {Absent}
        /\ <<>> \in Seq(Plain) /\ <<>> \in Seq(Cell) /\ <<>> \in Seq(Chunk)
        /\ Seq(Plain) \subseteq Seq(Cell)
    BY Edits, Wider DEF TypeOK, Writer, Idle
  <1>1. CASE Grow
    <2>1. Data(dumps) \in Chunk
      BY <1>1 DEF Grow, TypeOK, Chunk
    <2>. QED  BY <1>1, <2>1 DEF Grow, TypeOK
  <1>2. CASE New
    <2>1. w' \in Writer /\ w'.pc = "header" /\ w'.entries = <<>>
      BY <1>0, <1>2 DEF New, Idle, Writer, Table
    <2>. QED  BY <1>0, <1>2, <2>1 DEF New, TypeOK
  <1>3. CASE WriteHeader
    <2>. DEFINE name == Order[Len(w.entries) + 1]
    <2>1. name \in {"images", "log"}
      BY <1>0, <1>3, Orders, SMTT(30) DEF WriteHeader, TypeOK, Table
    <2>2. Source(name) \in Seq(Chunk) /\ Len(Source(name)) \in Nat
      BY <1>3, SourceType DEF WriteHeader, TypeOK
    <2>3. Header(name, Len(Source(name))) \in Plain
      BY <2>1, <2>2 DEF Plain
    <2>4. w' \in Writer /\ w'.pc = "copy" /\ w'.entries = w.entries
      BY <1>0, <1>3, <2>2 DEF WriteHeader, Writer
    <2>. QED  BY <1>0, <1>3, <2>3, <2>4 DEF WriteHeader, TypeOK
  <1>4. CASE Copy
    <2>. DEFINE name == Order[Len(w.entries) + 1]
                i == Len(w.data) + 1
    <2>1. Source(name) \in Seq(Chunk)
      BY <1>4, SourceType DEF Copy, TypeOK
    <2>2. Source(name)[i] \in Chunk
      BY <1>0, <1>4, <2>1 DEF Copy
    <2>3. Source(name)[i] \in Plain
      BY <2>2, Sorts
    <2>4. w' \in Writer /\ w'.pc = "copy" /\ w'.entries = w.entries
      <3>. DEFINE d == Append(w.data, Source(name)[i])
      <3>1. d \in Seq(Chunk)
        BY <1>0, <2>2
      <3>2. w' = [w EXCEPT !.data = d] /\ w.pc = "copy"
        BY <1>4 DEF Copy
      <3>. HIDE DEF d
      <3>. QED  BY <1>0, <3>1, <3>2 DEF Writer
    <2>. QED  BY <1>0, <1>4, <2>3, <2>4, SMTT(30) DEF Copy, TypeOK
  <1>5. CASE EndOfEntry
    <2>. DEFINE name == Order[Len(w.entries) + 1]
                e == [name |-> name, len |-> w.len, crc |-> w.data]
    <2>1. CASE w' = Idle /\ Drop
      BY <1>0, <1>5, <2>1 DEF EndOfEntry, TypeOK, Drop
    <2>2. CASE /\ w' = [Idle EXCEPT
                     !.entries = Append(w.entries, e),
                     !.pc = IF Len(w.entries) + 1 = Len(Order) THEN "create" ELSE "header"]
               /\ UNCHANGED scratch
      <3>0. w.pc = "copy" /\ Len(w.entries) < 2 /\ Len(w.entries) \in Nat
        BY <1>0, <1>5 DEF EndOfEntry, TypeOK, Table
      <3>1. (Len(w.entries) = 0 \/ Len(w.entries) = 1) /\ w.pc = "copy"
        <4>. DEFINE l == Len(w.entries)
        <4>1. l < 2 /\ l \in Nat
          BY <3>0
        <4>. HIDE DEF l
        <4>2. l = 0 \/ l = 1
          BY <4>1
        <4>. QED  BY <3>0, <4>2 DEF l
      <3>2. e \in Entry
        <4>1. name \in {"images", "log"}
          <5>1. CASE Len(w.entries) = 0
            <6>1. name = Order[1]
              BY <5>1
            <6>. QED  BY <6>1, Orders
          <5>2. CASE Len(w.entries) = 1
            <6>1. name = Order[2]
              BY <5>2
            <6>. QED  BY <6>1, Orders
          <5>. QED  BY <3>1, <5>1, <5>2
        <4>. HIDE DEF name
        <4>. QED  BY <1>0, <4>1 DEF Entry
      <3>3. Append(w.entries, e) \in Table /\ Len(Append(w.entries, e)) = Len(w.entries) + 1
        BY <1>0, <3>2 DEF Table
      <3>4. /\ w' \in Writer /\ w'.entries = Append(w.entries, e)
            /\ w'.pc = IF Len(w.entries) + 1 = 2 THEN "create" ELSE "header"
        BY <1>0, <2>2, <3>3, Orders DEF Writer, Idle
      <3>. QED  BY <1>0, <1>5, <2>2, <3>1, <3>3, <3>4 DEF EndOfEntry, TypeOK
    <2>. QED  BY <1>5, <2>1, <2>2 DEF EndOfEntry
  <1>6. CASE CreateDest
    <2>1. r' \in [Readers -> Reader] /\ \A x \in Readers : r'[x] = [r[x] EXCEPT !.calm = FALSE]
      BY <1>0, <1>6, Edits DEF CreateDest
    <2>2. \A x \in Readers : r'[x].pc = r[x].pc /\ r'[x].out = r[x].out /\ r'[x].manifest = r[x].manifest
      BY <1>0, <2>1 DEF Reader
    <2>3. w' \in Writer /\ w'.pc = "fill" /\ w'.entries = w.entries
      BY <1>0, <1>6 DEF CreateDest, Writer
    <2>. QED  BY <1>0, <1>6, <2>1, <2>2, <2>3 DEF CreateDest, TypeOK
  <1>7. CASE Fill
    <2>1. /\ Body \in Seq(Plain) /\ dest \in Seq(Plain) /\ Len(dest) < Len(Body)
          /\ dest' = Append(dest, Body[Len(dest) + 1])
      BY <1>0, <1>7, BodyCells DEF Fill, TypeOK
    <2>2. Body[Len(dest) + 1] \in Plain
      BY <2>1
    <2>3. dest' \in Seq(Plain)
      BY <2>1, <2>2
    <2>. QED  BY <1>0, <1>7, <2>3 DEF Fill, TypeOK
  <1>8. CASE Finish
    <2>1. dest \in Seq(Plain)
      BY <1>8 DEF Finish, TypeOK
    <2>2. Checksum(dest) \in Cell
      BY <2>1 DEF Cell
    <2>3. dest' \in Seq(Cell)
      BY <1>0, <1>8, <2>1, <2>2 DEF Finish
    <2>. QED  BY <1>0, <1>8, <2>3 DEF Finish, Drop, TypeOK
  <1>9. CASE WriterFails \/ WriterKilled
    BY <1>0, <1>9 DEF WriterFails, WriterKilled, Drop, TypeOK
  <1>10. CASE Decay
    <2>1. r' \in [Readers -> Reader] /\ \A x \in Readers : r'[x] = [r[x] EXCEPT !.sound = FALSE]
      BY <1>0, <1>10, Edits DEF Decay
    <2>2. \A x \in Readers : r'[x].pc = r[x].pc /\ r'[x].out = r[x].out /\ r'[x].manifest = r[x].manifest
      BY <1>0, <2>1 DEF Reader
    <2>3. \A c : Spoilt(c) \in Cell
      BY DEF Spoilt, Cell
    <2>4. dest' \in Seq(Cell)
      BY <1>10, <2>3, SeqDef DEF Decay, TypeOK
    <2>. QED  BY <1>0, <1>10, <2>1, <2>2, <2>4 DEF Decay, TypeOK
  <1>. QED  BY <1>1, <1>2, <1>3, <1>4, <1>5, <1>6, <1>7, <1>8, <1>9, <1>10 DEF Writing

\* So do the reader's.
LEMMA ReadingType ==
    ASSUME TypeOK, NEW x \in Readers, Reading(x)
    PROVE  TypeOK'
  <1>0. /\ r \in [Readers -> Reader] /\ r[x] \in Reader /\ <<>> \in Seq(Cell)
        /\ dest \in Seq(Cell) \cup {Absent} /\ Unopened \in Reader
        /\ r[x].seen \in Seq(Cell) /\ r[x].manifest \in Table /\ r[x].out \in Table
    BY Edits, SMTT(30) DEF TypeOK, Reader
  <1>1. ASSUME NEW z \in Reader, Goto(x, z), ReaderStep, dest \in Seq(Cell),
               z.pc = "data" => Len(z.out) < Len(z.manifest)
        PROVE  TypeOK'
    <2>1. /\ r' \in [Readers -> Reader] /\ r'[x] = z
          /\ \A y \in Readers : y # x => r'[y] = r[y]
      BY <1>0, <1>1 DEF Goto
    <2>2. \A y \in Readers : r'[y].pc = "data" => Len(r'[y].out) < Len(r'[y].manifest)
      BY <1>1, <2>1 DEF TypeOK
    <2>. QED  BY <1>1, <2>1, <2>2 DEF ReaderStep, TypeOK
  <1>2. ReaderStep
    BY DEF Reading, Open, ReadHead, ReadTail, VerifyNext, VerifyEnd, ExtractHeader, ExtractNext,
           ExtractEnd, Extracted
  <1>3. r[x].pc # "unopened" => dest \in Seq(Cell)
    BY DEF TypeOK
  <1>4. CASE Fails(x) /\ r[x].pc # "unopened"
    <2>. DEFINE z == [r[x] EXCEPT !.pc = "failed"]
    <2>1. z \in Reader /\ z.pc = "failed"
      BY <1>0 DEF Reader
    <2>. QED  BY <1>1, <1>2, <1>3, <1>4, <2>1 DEF Fails
  <1>5. CASE Open(x)
    <2>1. dest \in Seq(Cell) /\ Len(dest) \in Nat
      BY <1>0, <1>5 DEF Open
    <2>2. PICK z \in Reader : Goto(x, z) /\ z.pc # "data"
      <3>. DEFINE new == [Unopened EXCEPT !.total = Len(dest), !.calm = (w.pc # "fill"),
                                   !.sound = (fit # "spoilt"), !.good = (fit = "whole")]
                  z == [new EXCEPT !.pc = IF Len(dest) < 4 THEN "failed" ELSE "head"]
      <3>1. new \in Reader
        BY <1>0, <2>1, ZenonT(60) DEF Reader, Unopened
      <3>2. Goto(x, z)
        BY <1>5 DEF Open
      <3>. HIDE DEF new
      <3>3. z \in Reader /\ z.pc # "data"
        BY <3>1 DEF Reader
      <3>. QED  BY <3>2, <3>3
    <2>. QED  BY <1>1, <1>2, <2>1, <2>2
  <1>6. CASE ReadHead(x)
    <2>1. CASE /\ Has(2) /\ dest[2][1] = "manifest"
               /\ Goto(x, [r[x] EXCEPT !.pc = "tail", !.manifest = dest[2][2]])
      <3>1. dest[2] \in Cell
        BY <1>3, <1>6, <2>1 DEF ReadHead, Has
      <3>2. dest[2][2] \in Table
        BY <2>1, <3>1, Sorts, Tags
      <3>. DEFINE z == [r[x] EXCEPT !.pc = "tail", !.manifest = dest[2][2]]
      <3>3. z \in Reader /\ z.pc = "tail"
        BY <1>0, <3>2 DEF Reader
      <3>. QED  BY <1>1, <1>2, <1>3, <1>6, <2>1, <3>3 DEF ReadHead
    <2>. QED  BY <1>4, <1>6, <2>1 DEF ReadHead
  <1>7. CASE ReadTail(x)
    <2>. DEFINE at == TrailerAt(r[x].total)
    <2>1. CASE /\ Has(at + 1)
               /\ Goto(x, [r[x] EXCEPT !.pc = "verify", !.stored = dest[at + 1]])
      <3>1. dest[at + 1] \in Cell
        BY <1>3, <1>7, <2>1 DEF ReadTail, Has
      <3>. DEFINE z == [r[x] EXCEPT !.pc = "verify", !.stored = dest[at + 1]]
      <3>3. z \in Reader /\ z.pc = "verify"
        BY <1>0, <3>1 DEF Reader
      <3>. QED  BY <1>1, <1>2, <1>3, <1>7, <2>1, <3>3 DEF ReadTail
    <2>. QED  BY <1>4, <1>7, <2>1 DEF ReadTail
  <1>8. CASE VerifyNext(x)
    <2>. DEFINE i == Len(r[x].seen) + 1
    <2>1. CASE Has(i) /\ Goto(x, [r[x] EXCEPT !.seen = Append(@, dest[i])])
      <3>1. dest[i] \in Cell
        BY <1>3, <1>8, <2>1 DEF VerifyNext, Has
      <3>. DEFINE s == Append(r[x].seen, dest[i])
                  z == [r[x] EXCEPT !.seen = s]
      <3>2. s \in Seq(Cell) /\ Goto(x, z)
        BY <1>0, <2>1, <3>1
      <3>. HIDE DEF s
      <3>3. z \in Reader /\ z.pc = r[x].pc
        BY <1>0, <3>2 DEF Reader
      <3>. QED  BY <1>1, <1>2, <1>3, <1>8, <3>2, <3>3 DEF VerifyNext
    <2>. QED  BY <1>4, <1>8, <2>1 DEF VerifyNext
  <1>9. CASE VerifyEnd(x)
    <2>. DEFINE z == [r[x] EXCEPT !.pc = "entry", !.seen = <<>>, !.pos = 3]
    <2>1. z \in Reader /\ z.pc = "entry"
      BY <1>0 DEF Reader
    <2>2. CASE Goto(x, z)
      BY <1>1, <1>2, <1>3, <1>9, <2>1, <2>2 DEF VerifyEnd
    <2>. QED  BY <1>4, <1>9, <2>2 DEF VerifyEnd
  <1>10. CASE ExtractHeader(x)
    <2>. DEFINE z == [r[x] EXCEPT !.pc = "data", !.pos = @ + 1, !.seen = <<>>]
    <2>1. z \in Reader /\ z.out = r[x].out /\ z.manifest = r[x].manifest
      <3>. DEFINE p == r[x].pos + 1
      <3>1. p \in Nat
        BY <1>0 DEF Reader
      <3>2. z = [r[x] EXCEPT !.pc = "data", !.pos = p, !.seen = <<>>]
        OBVIOUS
      <3>. HIDE DEF p, z
      <3>. QED  BY <1>0, <3>1, <3>2 DEF Reader
    <2>2. CASE Goto(x, z)
      BY <1>1, <1>2, <1>3, <1>10, <2>1, <2>2 DEF ExtractHeader
    <2>. QED  BY <1>4, <1>10, <2>2 DEF ExtractHeader
  <1>11. CASE ExtractNext(x)
    <2>1. CASE /\ Has(r[x].pos)
               /\ Goto(x, [r[x] EXCEPT !.pos = @ + 1, !.seen = Append(@, dest[r[x].pos])])
      <3>1. dest[r[x].pos] \in Cell
        BY <1>3, <1>11, <2>1 DEF ExtractNext, Has
      <3>. DEFINE s == Append(r[x].seen, dest[r[x].pos])
                  z == [r[x] EXCEPT !.pos = @ + 1, !.seen = s]
      <3>2. s \in Seq(Cell) /\ Goto(x, z)
        BY <1>0, <2>1, <3>1
      <3>. HIDE DEF s
      <3>3. z \in Reader /\ z.pc = r[x].pc /\ z.out = r[x].out /\ z.manifest = r[x].manifest
        <4>. DEFINE p == r[x].pos + 1
        <4>1. p \in Nat
          BY <1>0 DEF Reader
        <4>2. z = [r[x] EXCEPT !.pos = p, !.seen = s]
          OBVIOUS
        <4>. HIDE DEF p, z
        <4>. QED  BY <1>0, <3>2, <4>1, <4>2 DEF Reader
      <3>4. Len(z.out) < Len(z.manifest)
        BY <1>11, <3>3 DEF ExtractNext, TypeOK
      <3>. HIDE DEF z
      <3>. QED  BY <1>1, <1>2, <1>3, <1>11, <3>2, <3>3, <3>4 DEF ExtractNext
    <2>. QED  BY <1>4, <1>11, <2>1 DEF ExtractNext
  <1>12. CASE ExtractEnd(x)
    <2>. DEFINE meta == r[x].manifest[Len(r[x].out) + 1]
    <2>0. meta \in Entry
      BY <1>0, <1>12 DEF ExtractEnd, TypeOK, Table
    <2>1. CASE /\ EntrySums(r[x].seen, meta.crc)
               /\ Goto(x, [r[x] EXCEPT !.pc = "entry",
                                       !.out = Append(@, [meta EXCEPT !.crc = r[x].seen])])
      <3>1. [meta EXCEPT !.crc = r[x].seen] \in Entry
        BY <2>0, <2>1 DEF EntrySums, Entry
      <3>. DEFINE o == Append(r[x].out, [meta EXCEPT !.crc = r[x].seen])
                  z == [r[x] EXCEPT !.pc = "entry", !.out = o]
      <3>2. o \in Table /\ Goto(x, z)
        BY <1>0, <2>1, <3>1 DEF Table
      <3>. HIDE DEF o
      <3>3. z \in Reader /\ z.pc = "entry"
        BY <1>0, <3>2 DEF Reader
      <3>. QED  BY <1>1, <1>2, <1>3, <1>12, <3>2, <3>3 DEF ExtractEnd
    <2>. QED  BY <1>4, <1>12, <2>1 DEF ExtractEnd
  <1>13. CASE Extracted(x)
    <2>. DEFINE z == [r[x] EXCEPT !.pc = "done"]
    <2>1. z \in Reader /\ z.pc = "done"
      BY <1>0 DEF Reader
    <2>. QED  BY <1>1, <1>2, <1>3, <1>13, <2>1 DEF Extracted
  <1>. QED  BY <1>5, <1>6, <1>7, <1>8, <1>9, <1>10, <1>11, <1>12, <1>13 DEF Reading

\* Every variable keeps its type, for any number of readers and checkpoints.
THEOREM SnapshotTypeCorrect == Spec => []TypeOK
  <1>1. Init => TypeOK
    <2>. SUFFICES ASSUME Init  PROVE TypeOK
      OBVIOUS
    <2>1. \A x \in Readers : r[x].pc = "unopened"
      BY DEF Init, Unopened
    <2>2. w.pc = "idle"
      BY DEF Init, Idle
    <2>. QED  BY <2>1, <2>2, Edits DEF Init, TypeOK
  <1>2. TypeOK /\ [Next]_vars => TypeOK'
    <2>1. TypeOK /\ UNCHANGED vars => TypeOK'
      BY DEF vars, TypeOK
    <2>. QED  BY <2>1, WritingType, ReadingType DEF Next
  <1>. QED  BY <1>1, <1>2, PTL DEF Spec

-----------------------------------------------------------------------------
(* How the entries lie in the scratch file *)

\* The entries so far are the first of the order, each with the length it has.
Fine(e) ==
    /\ e \in Table /\ Len(e) <= 2
    /\ \A k \in 1 .. Len(e) : e[k].name = Order[k] /\ Len(e[k].crc) = e[k].len

\* Where entry k begins, and how much room all of them take.
Start(e, k) == IF k = 1 THEN 1 ELSE 2 + e[1].len
Room(e) == IF Len(e) = 0 THEN 0 ELSE IF Len(e) = 1 THEN 1 + e[1].len ELSE 2 + e[1].len + e[2].len

Framed(cells, at, name, len, data) ==
    /\ cells[at] = Header(name, len)
    /\ \A j \in 1 .. Len(data) : cells[at + j] = data[j]

Laid(cells, from, e) ==
    \A k \in 1 .. Len(e) : Framed(cells, from + Start(e, k), e[k].name, e[k].len, e[k].crc)

\* Dumps are numbered, and the images hold the number of theirs.
Gen(e) == e[1].crc[1]

\* The scratch file has the entries packed so far, and the one being copied.
Packing ==
    /\ Fine(w.entries)
    /\ w.entries # <<>> => w.entries[1].len > 0 /\ Gen(w.entries) = Data(dumps)
    /\ w.pc # "idle" => Laid(scratch, 0, w.entries)
    /\ w.pc \in {"header", "create", "fill"} => Len(scratch) = Room(w.entries)
    /\ w.pc = "copy" =>
          /\ Len(scratch) = Room(w.entries) + 1 + Len(w.data)
          /\ Framed(scratch, Room(w.entries) + 1, Order[Len(w.entries) + 1], w.len, w.data)
          /\ w.entries = <<>> => \A i \in 1 .. Len(w.data) : w.data[i] = Data(dumps)

\* What follows from the type of the entries.
LEMMA EntryTypes ==
    ASSUME NEW e, Fine(e)
    PROVE  /\ Len(e) \in Nat /\ Room(e) \in Nat
           /\ \A k \in 1 .. Len(e) :
                 /\ k = 1 \/ k = 2
                 /\ e[k] \in Entry /\ e[k].len \in Nat /\ e[k].crc \in Seq(Chunk)
                 /\ Len(e[k].crc) = e[k].len /\ e[k].name = Order[k]
                 /\ Start(e, k) \in Nat \ {0} /\ Start(e, k) + e[k].len <= Room(e)
  <1>1. Len(e) \in Nat /\ Len(e) <= 2 /\ \A k \in 1 .. Len(e) : e[k] \in Entry
    BY DEF Fine, Table
  <1>2. \A k \in 1 .. Len(e) : e[k].len \in Nat /\ e[k].crc \in Seq(Chunk)
    BY <1>1 DEF Entry
  <1>3. Len(e) = 0 \/ Len(e) = 1 \/ Len(e) = 2
    <2>. DEFINE l == Len(e)
    <2>1. l \in Nat /\ l <= 2
      BY <1>1
    <2>. HIDE DEF l
    <2>2. l = 0 \/ l = 1 \/ l = 2
      BY <2>1
    <2>. QED  BY <2>2 DEF l
  <1>4. CASE Len(e) = 0
    BY <1>1, <1>4 DEF Room
  <1>5. CASE Len(e) = 1
    <2>1. 1 \in 1 .. Len(e) /\ \A k \in 1 .. Len(e) : k = 1
      BY <1>5
    <2>. QED  BY <1>1, <1>2, <1>5, <2>1 DEF Room, Start, Fine
  <1>6. CASE Len(e) = 2
    <2>1. 1 \in 1 .. Len(e) /\ 2 \in 1 .. Len(e) /\ \A k \in 1 .. Len(e) : k = 1 \/ k = 2
      BY <1>6
    <2>2. e[1].len \in Nat /\ e[2].len \in Nat
      BY <1>2, <2>1
    <2>3. Room(e) = 2 + e[1].len + e[2].len
      BY <1>6 DEF Room
    <2>4. Start(e, 1) = 1 /\ Start(e, 2) = 2 + e[1].len
      BY DEF Start
    <2>5. \A k \in 1 .. Len(e) : Start(e, k) \in Nat \ {0} /\ Start(e, k) + e[k].len <= Room(e)
      <3>. SUFFICES ASSUME NEW k \in 1 .. Len(e)
                    PROVE  Start(e, k) \in Nat \ {0} /\ Start(e, k) + e[k].len <= Room(e)
        OBVIOUS
      <3>1. CASE k = 1
        BY <2>2, <2>3, <2>4, <3>1
      <3>2. CASE k = 2
        BY <2>2, <2>3, <2>4, <3>2
      <3>. QED  BY <2>1, <3>1, <3>2
    <2>6. Room(e) \in Nat
      BY <2>2, <2>3
    <2>7. \A k \in 1 .. Len(e) : Len(e[k].crc) = e[k].len /\ e[k].name = Order[k]
      BY DEF Fine
    <2>. QED  BY <1>1, <1>2, <2>1, <2>5, <2>6, <2>7
  <1>. QED  BY <1>3, <1>4, <1>5, <1>6

\* The layout only depends on the cells in its room.
LEMMA LaidAgain ==
    ASSUME NEW e, Fine(e), NEW c, NEW d, NEW f \in Nat, NEW g \in Nat,
           Laid(c, f, e), \A i \in 1 .. Room(e) : d[g + i] = c[f + i]
    PROVE  Laid(d, g, e)
  <1>. SUFFICES ASSUME NEW k \in 1 .. Len(e)
                PROVE  Framed(d, g + Start(e, k), e[k].name, e[k].len, e[k].crc)
    BY DEF Laid
  <1>. DEFINE a == Start(e, k)
              l == e[k].len
              data == e[k].crc
  <1>1. /\ a \in Nat \ {0} /\ l \in Nat /\ a + l <= Room(e) /\ Room(e) \in Nat
        /\ Len(data) = l
    BY EntryTypes
  <1>2. Framed(c, f + a, e[k].name, l, data)
    BY DEF Laid
  <1>. HIDE DEF a, l, data
  <1>3. d[g + a] = c[f + a]
    <2>1. a \in 1 .. Room(e)
      BY <1>1
    <2>. QED  BY <2>1
  <1>4. \A j \in 1 .. l : d[g + a + j] = c[f + a + j]
    <2>. SUFFICES ASSUME NEW j \in 1 .. l  PROVE d[g + a + j] = c[f + a + j]
      OBVIOUS
    <2>1. a + j \in 1 .. Room(e)
      BY <1>1
    <2>2. d[g + (a + j)] = c[f + (a + j)]
      BY <2>1
    <2>3. g + (a + j) = g + a + j /\ f + (a + j) = f + a + j
      BY <1>1
    <2>. QED  BY <2>2, <2>3
  <1>5. Framed(d, g + a, e[k].name, l, data)
    BY <1>1, <1>2, <1>3, <1>4 DEF Framed
  <1>. QED  BY <1>5 DEF a, l, data

\* A number below two.
LEMMA BelowTwo == \A l \in Nat : l < 2 => l = 0 \/ l = 1
  OBVIOUS

\* One more entry lies behind the others.
LEMMA LaidNext ==
    ASSUME NEW e, Fine(e), Len(e) < 2, NEW x \in Entry, x.name = Order[Len(e) + 1],
           Len(x.crc) = x.len, NEW cells, Laid(cells, 0, e),
           Framed(cells, Room(e) + 1, x.name, x.len, x.crc)
    PROVE  /\ Fine(Append(e, x)) /\ Laid(cells, 0, Append(e, x))
           /\ Room(Append(e, x)) = Room(e) + 1 + x.len
  <1>. DEFINE f == Append(e, x)
              n == Len(e)
  <1>1. /\ f \in Table /\ Len(f) = n + 1 /\ n \in Nat /\ f[n + 1] = x
        /\ \A k \in 1 .. n : f[k] = e[k]
    BY DEF Fine, Table
  <1>. HIDE DEF f
  <1>2. x.len \in Nat /\ Room(e) \in Nat
    BY EntryTypes DEF Entry
  <1>3. CASE n = 0
    <2>1. Len(f) = 1 /\ f[1] = x /\ \A k \in 1 .. Len(f) : k = 1
      BY <1>1, <1>3
    <2>2. Room(f) = Room(e) + 1 + x.len /\ Room(e) + 1 = Start(f, 1) /\ Start(f, 1) = 1
      BY <1>2, <1>3, <2>1 DEF Room, Start
    <2>3. Fine(f)
      BY <1>1, <1>3, <2>1 DEF Fine
    <2>4. Framed(cells, 0 + Start(f, 1), f[1].name, f[1].len, f[1].crc)
      BY <2>1, <2>2
    <2>5. Laid(cells, 0, f)
      BY <2>1, <2>4 DEF Laid
    <2>. QED  BY <2>2, <2>3, <2>5 DEF f
  <1>4. CASE n = 1
    <2>1. Len(f) = 2 /\ f[2] = x /\ f[1] = e[1] /\ \A k \in 1 .. Len(f) : k = 1 \/ k = 2
      BY <1>1, <1>4
    <2>2. e[1].len \in Nat /\ 1 \in 1 .. Len(e)
      <3>1. 1 \in 1 .. Len(e)
        BY <1>4
      <3>. QED  BY <3>1, EntryTypes
    <2>3. /\ Room(e) = 1 + e[1].len /\ Room(f) = 2 + e[1].len + x.len
          /\ Start(f, 1) = 1 /\ Start(f, 2) = 2 + e[1].len /\ Start(e, 1) = 1
      BY <1>4, <2>1 DEF Room, Start
    <2>4. Room(f) = Room(e) + 1 + x.len /\ 0 + Start(f, 2) = Room(e) + 1
      BY <1>2, <2>2, <2>3
    <2>5. Framed(cells, 0 + Start(f, 2), f[2].name, f[2].len, f[2].crc)
      BY <2>1, <2>4
    <2>6. Framed(cells, 0 + Start(f, 1), f[1].name, f[1].len, f[1].crc)
      BY <2>1, <2>2, <2>3 DEF Laid
    <2>7. Laid(cells, 0, f)
      BY <2>1, <2>5, <2>6 DEF Laid
    <2>8. Fine(f)
      BY <1>1, <1>4, <2>1, <2>2 DEF Fine
    <2>. QED  BY <2>4, <2>7, <2>8 DEF f
  <1>5. n = 0 \/ n = 1
    BY <1>1, BelowTwo
  <1>. QED  BY <1>3, <1>4, <1>5

\* A cell at the end of the scratch file leaves the layout alone.
LEMMA LaidAppend ==
    ASSUME NEW e, Fine(e), NEW S, NEW cells \in Seq(S), NEW c \in S, Room(e) <= Len(cells), Laid(cells, 0, e)
    PROVE  /\ Laid(Append(cells, c), 0, e)
           /\ Append(cells, c) \in Seq(S) /\ Len(Append(cells, c)) = Len(cells) + 1
           /\ \A i \in 1 .. Len(cells) : Append(cells, c)[i] = cells[i]
           /\ Append(cells, c)[Len(cells) + 1] = c
  <1>. DEFINE d == Append(cells, c)
  <1>1. /\ d \in Seq(S) /\ Len(d) = Len(cells) + 1 /\ d[Len(cells) + 1] = c
        /\ \A i \in 1 .. Len(cells) : d[i] = cells[i]
    BY AppendProperties
  <1>2. Room(e) \in Nat /\ Len(cells) \in Nat
    BY EntryTypes
  <1>. HIDE DEF d
  <1>3. \A i \in 1 .. Room(e) : d[0 + i] = cells[0 + i]
    <2>. SUFFICES ASSUME NEW i \in 1 .. Room(e)  PROVE d[0 + i] = cells[0 + i]
      OBVIOUS
    <2>1. i \in 1 .. Len(cells) /\ 0 + i = i
      BY <1>2
    <2>. QED  BY <1>1, <2>1
  <1>4. Laid(d, 0, e)
    BY <1>3, LaidAgain
  <1>. QED  BY <1>1, <1>4 DEF d

\* The writer keeps the scratch file in this form, from whatever it found there.
LEMMA PackingStep ==
    ASSUME TypeOK, Packing, [Next]_vars
    PROVE  Packing'
  <1>. USE SnapshotAssumption
  <1>0. /\ w \in Writer /\ w.entries \in Table /\ w.data \in Seq(Chunk) /\ w.len \in Nat
        /\ Fine(w.entries) /\ Len(w.entries) \in Nat /\ Room(w.entries) \in Nat
        /\ w.pc # "idle" => scratch \in Seq(Plain) /\ dumps > 0 /\ dumps \in Nat
        /\ w.pc \in {"header", "copy"} => Len(w.entries) < 2
        /\ w.pc # "idle" => Laid(scratch, 0, w.entries)
        /\ log \in Seq(Chunk)
    BY EntryTypes DEF TypeOK, Writer, Packing
  <1>1. ASSUME UNCHANGED <<w, scratch, dumps>>  PROVE Packing'
    BY <1>1 DEF Packing
  <1>2. ASSUME w'.pc = "idle", w'.entries = <<>>  PROVE Packing'
    <2>1. Fine(<<>>)
      BY DEF Fine, Table
    <2>. QED  BY <1>2, <2>1 DEF Packing
  <1>3. Idle.pc = "idle" /\ Idle.entries = <<>>
    BY DEF Idle
  <1>4. CASE New
    <2>1. w'.pc = "header" /\ w'.entries = <<>> /\ scratch' = <<>>
      BY <1>4 DEF New, Idle
    <2>2. Fine(<<>>) /\ Room(<<>>) = 0 /\ Len(<<>>) = 0
      BY DEF Fine, Table, Room
    <2>3. Laid(<<>>, 0, <<>>)
      BY <2>2 DEF Laid
    <2>. QED  BY <2>1, <2>2, <2>3 DEF Packing
  <1>5. CASE WriteHeader
    <2>. DEFINE name == Order[Len(w.entries) + 1]
                len == Len(Source(name))
                c == Header(name, len)
                e == w.entries
    <2>1. name \in {"images", "log"}
      BY <1>0, <1>5, Orders, SMTT(30) DEF WriteHeader
    <2>2. len \in Nat
      BY <1>0, <1>5, SourceType DEF WriteHeader
    <2>3. c \in Plain
      BY <2>1, <2>2 DEF Plain
    <2>4. scratch' = Append(scratch, c) /\ w.pc = "header" /\ dumps' = dumps
      BY <1>5 DEF WriteHeader
    <2>5. w'.pc = "copy" /\ w'.entries = e /\ w'.len = len /\ w'.data = <<>>
      BY <1>0, <1>5 DEF WriteHeader, Writer
    <2>6. Len(scratch) = Room(e) /\ scratch \in Seq(Plain)
      BY <1>0, <2>4 DEF Packing
    <2>. HIDE DEF name, len, c
    <2>7. /\ Laid(scratch', 0, e) /\ Len(scratch') = Room(e) + 1
          /\ scratch'[Room(e) + 1] = c
      BY <1>0, <2>3, <2>4, <2>6, LaidAppend
    <2>8. Framed(scratch', Room(e) + 1, name, len, <<>>)
      BY <2>7 DEF Framed, c
    <2>9. Room(e) + 1 = Room(e) + 1 + Len(<<>>) /\ \A i \in 1 .. Len(<<>>) : FALSE
      BY <1>0
    <2>. QED  BY <2>4, <2>5, <2>7, <2>8, <2>9 DEF Packing, name
  <1>6. CASE Copy
    <2>. DEFINE name == Order[Len(w.entries) + 1]
                c == Source(name)[Len(w.data) + 1]
                e == w.entries
    <2>1. Source(name) \in Seq(Chunk) /\ Len(w.data) + 1 <= Len(Source(name)) /\ w.pc = "copy"
      BY <1>0, <1>6, SourceType DEF Copy
    <2>2. c \in Chunk /\ c \in Plain
      BY <1>0, <2>1, Sorts
    <2>3. scratch' = Append(scratch, c) /\ dumps' = dumps
      BY <1>6 DEF Copy
    <2>4. w'.pc = "copy" /\ w'.entries = e /\ w'.len = w.len /\ w'.data = Append(w.data, c)
      <3>. DEFINE d == Append(w.data, c)
      <3>1. w' = [w EXCEPT !.data = d]
        BY <1>6 DEF Copy
      <3>. HIDE DEF d
      <3>2. w'.pc = "copy" /\ w'.entries = e /\ w'.len = w.len /\ w'.data = d
        BY <1>0, <2>1, <3>1 DEF Writer
      <3>. QED  BY <3>2 DEF d
    <2>5. /\ Len(scratch) = Room(e) + 1 + Len(w.data) /\ scratch \in Seq(Plain)
          /\ Framed(scratch, Room(e) + 1, name, w.len, w.data)
          /\ e = <<>> => \A i \in 1 .. Len(w.data) : w.data[i] = Data(dumps)
      BY <1>0, <2>1 DEF Packing
    <2>6. e = <<>> => c = Data(dumps)
      <3>. SUFFICES ASSUME e = <<>>  PROVE c = Data(dumps)
        OBVIOUS
      <3>1. name = "images"
        BY Orders
      <3>2. Len(Source(name)) = 2 /\ Source(name)[1] = Data(dumps) /\ Source(name)[2] = Data(dumps)
        BY <1>0, <2>1, <3>1, SourceType
      <3>3. Len(w.data) = 0 \/ Len(w.data) = 1
        <4>1. Len(w.data) \in Nat /\ Len(w.data) < 2
          BY <1>0, <2>1, <3>2
        <4>. QED  BY <4>1, BelowTwo
      <3>4. c = Source(name)[1] \/ c = Source(name)[2]
        <4>1. Len(w.data) = 0 => c = Source(name)[1]
          OBVIOUS
        <4>2. Len(w.data) = 1 => c = Source(name)[2]
          OBVIOUS
        <4>. QED  BY <3>3, <4>1, <4>2
      <3>. QED  BY <3>2, <3>4
    <2>. HIDE DEF name, c
    <2>7. /\ Laid(scratch', 0, e) /\ Len(scratch') = Len(scratch) + 1
          /\ \A i \in 1 .. Len(scratch) : scratch'[i] = scratch[i]
          /\ scratch'[Len(scratch) + 1] = c
      <3>1. Room(e) <= Len(scratch)
        <4>1. Len(w.data) \in Nat
          BY <1>0
        <4>. QED  BY <1>0, <2>5, <4>1
      <3>2. Fine(e) /\ scratch \in Seq(Plain) /\ Laid(scratch, 0, e) /\ c \in Plain
        BY <1>0, <2>1, <2>2, <2>5
      <3>. HIDE DEF e
      <3>. QED  BY <2>3, <3>1, <3>2, LaidAppend
    <2>8. /\ Len(w'.data) = Len(w.data) + 1 /\ w'.data[Len(w.data) + 1] = c
          /\ \A i \in 1 .. Len(w.data) : w'.data[i] = w.data[i]
          /\ Len(w.data) \in Nat
      BY <1>0, <2>2, <2>4
    <2>9. Framed(scratch', Room(e) + 1, name, w.len, w'.data)
      <3>1. scratch'[Room(e) + 1] = Header(name, w.len)
        BY <1>0, <2>5, <2>7, <2>8, SMTT(30) DEF Framed
      <3>2. ASSUME NEW j \in 1 .. Len(w.data) + 1
            PROVE  scratch'[Room(e) + 1 + j] = w'.data[j]
        <4>1. CASE j <= Len(w.data)
          <5>1. j \in 1 .. Len(w.data)
            BY <2>8, <4>1
          <5>2. Room(e) + 1 + j \in 1 .. Len(scratch)
            BY <1>0, <2>5, <2>8, <5>1
          <5>3. scratch[Room(e) + 1 + j] = w.data[j]
            BY <2>5, <5>1 DEF Framed
          <5>. QED  BY <2>7, <2>8, <5>1, <5>2, <5>3
        <4>2. CASE j = Len(w.data) + 1
          <5>1. Room(e) + 1 + j = Len(scratch) + 1
            BY <1>0, <2>5, <2>8, <4>2
          <5>. QED  BY <2>7, <2>8, <4>2, <5>1
        <4>. QED  BY <2>8, <4>1, <4>2
      <3>. QED  BY <2>8, <3>1, <3>2 DEF Framed
    <2>10. e = <<>> => \A i \in 1 .. Len(w'.data) : w'.data[i] = Data(dumps)
      BY <2>5, <2>6, <2>8, SMTT(30)
    <2>11. Len(scratch') = Room(e) + 1 + Len(w'.data)
      BY <1>0, <2>5, <2>7, <2>8
    <2>. QED  BY <2>1, <2>3, <2>4, <2>7, <2>9, <2>10, <2>11 DEF Packing, name
  <1>7. CASE EndOfEntry
    <2>. DEFINE name == Order[Len(w.entries) + 1]
                e == w.entries
                z == [name |-> name, len |-> w.len, crc |-> w.data]
    <2>1. CASE w' = Idle
      BY <1>2, <1>3, <2>1
    <2>2. CASE /\ SameLength(Len(w.data), w.len)
               /\ w' = [Idle EXCEPT
                     !.entries = Append(w.entries, z),
                     !.pc = IF Len(w.entries) + 1 = Len(Order) THEN "create" ELSE "header"]
               /\ UNCHANGED scratch
      <3>1. w.pc = "copy" /\ Len(w.data) >= Len(Source(name)) /\ dumps' = dumps /\ Len(e) < 2
        BY <1>0, <1>7 DEF EndOfEntry
      <3>2. name \in {"images", "log"}
        <4>1. Len(e) = 0 \/ Len(e) = 1
          BY <1>0, <3>1, BelowTwo
        <4>2. Len(e) = 0 => name = Order[1]
          OBVIOUS
        <4>3. Len(e) = 1 => name = Order[2]
          OBVIOUS
        <4>. QED  BY <4>1, <4>2, <4>3, Orders
      <3>3. /\ Len(scratch) = Room(e) + 1 + Len(w.data)
            /\ Framed(scratch, Room(e) + 1, name, w.len, w.data)
            /\ e = <<>> => \A i \in 1 .. Len(w.data) : w.data[i] = Data(dumps)
        BY <1>0, <3>1 DEF Packing
      <3>4. w'.pc \in {"create", "header"} /\ w'.entries = Append(e, z)
        BY <2>2 DEF Idle
      <3>5. e = <<>> => w.len > 0 /\ w.data[1] = Data(dumps)
        <4>. SUFFICES ASSUME e = <<>>  PROVE w.len > 0 /\ w.data[1] = Data(dumps)
          OBVIOUS
        <4>1. name = "images"
          BY Orders
        <4>2. Len(Source(name)) = 2
          BY <1>0, <3>1, <4>1, SourceType
        <4>3. Len(w.data) >= 2
          BY <3>1, <4>2
        <4>4. w.len = Len(w.data) /\ Len(w.data) \in Nat
          BY <1>0, <2>2 DEF SameLength
        <4>5. 1 \in 1 .. Len(w.data)
          BY <4>3, <4>4
        <4>. QED  BY <3>3, <4>3, <4>4, <4>5
      <3>. HIDE DEF name
      <3>6. z \in Entry /\ z.name = name /\ z.len = w.len /\ z.crc = w.data
        BY <1>0, <3>2 DEF Entry
      <3>. HIDE DEF z
      <3>7. /\ Fine(Append(e, z)) /\ Laid(scratch, 0, Append(e, z))
            /\ Room(Append(e, z)) = Room(e) + 1 + w.len
        <4>1. Len(z.crc) = z.len /\ z.name = Order[Len(e) + 1]
          BY <2>2, <3>6 DEF SameLength, name
        <4>2. Framed(scratch, Room(e) + 1, z.name, z.len, z.crc)
          BY <3>3, <3>6
        <4>. QED  BY <1>0, <3>1, <3>6, <4>1, <4>2, LaidNext
      <3>8. Append(e, z)[1].len > 0 /\ Gen(Append(e, z)) = Data(dumps)
        <4>1. CASE e = <<>>
          <5>1. Append(e, z)[1] = z
            BY <1>0, <3>6, <4>1 DEF Table
          <5>. QED  BY <3>5, <3>6, <4>1, <5>1 DEF Gen
        <4>2. CASE e # <<>>
          <5>1. Append(e, z)[1] = e[1]
            BY <1>0, <3>6, <4>2 DEF Table
          <5>. QED  BY <4>2, <5>1 DEF Gen, Packing
        <4>. QED  BY <4>1, <4>2
      <3>9. Len(scratch) = Room(Append(e, z))
        BY <2>2, <3>3, <3>7 DEF SameLength
      <3>. QED  BY <2>2, <3>1, <3>4, <3>7, <3>8, <3>9 DEF Packing
    <2>. QED  BY <1>7, <2>1, <2>2 DEF EndOfEntry
  <1>8. CASE CreateDest
    <2>1. w'.pc = "fill" /\ w'.entries = w.entries /\ UNCHANGED <<scratch, dumps>> /\ w.pc = "create"
      BY <1>0, <1>8 DEF CreateDest, Writer
    <2>. QED  BY <2>1 DEF Packing
  <1>9. CASE Finish \/ WriterFails \/ WriterKilled
    BY <1>2, <1>3, <1>9 DEF Finish, WriterFails, WriterKilled
  <1>10. CASE Grow \/ Fill \/ Decay \/ (\E x \in Readers : Reading(x)) \/ UNCHANGED vars
    BY <1>1, <1>10
    DEF Grow, Fill, Decay, Reading, Open, ReadHead, ReadTail, VerifyNext, VerifyEnd,
        ExtractHeader, ExtractNext, ExtractEnd, Extracted, ReaderStep, vars
  <1>. QED  BY <1>4, <1>5, <1>6, <1>7, <1>8, <1>9, <1>10 DEF Next, Writing

-----------------------------------------------------------------------------
(* What the file holds *)

\* The table of a snapshot, and the number of the dump it is of.
Proper(e) == Fine(e) /\ Len(e) = 2 /\ e[1].len > 0
Num(e) == Gen(e)[2]

\* No later dump has this number, nor has a writer that is not yet at the file.
Aged(e) ==
    /\ Num(e) <= dumps
    /\ w.pc \in {"header", "copy", "create"} => Num(e) < dumps

\* The file is the one that e is the table of, as far as it goes.
Begun(e) ==
    /\ dest[2] = Manifest(e)
    /\ Proper(e) /\ Aged(e)
    /\ Len(dest) >= 4 => dest[4] = Gen(e)

\* The checksum at the end is the one of s, and s is what comes before.
Signed(s) == dest[Len(dest)] = Checksum(s)
Covers(s) == Len(s) = Len(dest) - 1 /\ \A i \in 1 .. Len(s) : s[i] = dest[i]

WholeAs(e) ==
    /\ e \in packs /\ Begun(e)
    /\ Len(dest) = Room(e) + 4
    /\ Laid(dest, 2, e)
    /\ dest[1] = Magic /\ dest[Len(dest) - 1] = Trailer
    /\ \E s \in Seq(Plain) : Signed(s) /\ Covers(s)

\* The manifest is spoilt in a way that still parses, and only the checksum tells.
Blank ==
    /\ dest[2] = Manifest(<<>>)
    /\ \A s \in Seq(Cell) : Signed(s) => s[2] # Manifest(<<>>)

SpoiltFile ==
    /\ Len(dest) >= 4
    /\ \A s \in Seq(Cell) : Signed(s) => ~Covers(s)
    /\ \A e \in Table : dest[2] = Manifest(e) => e \in packs \/ Blank

\* Nothing was ever written, and nobody reads.
Virgin == dest = Absent /\ \A x \in Readers : r[x].pc = "unopened"

DestInv ==
    /\ Virgin \/ dest \in Seq(Cell)
    /\ fit = "torn" => \/ Virgin
                       \/ dest \in Seq(Plain) /\ (Len(dest) >= 2 => \E e \in Table : Begun(e))
    /\ w.pc = "fill" => Len(dest) <= Len(Body) /\ \A i \in 1 .. Len(dest) : dest[i] = Body[i]
    /\ fit = "whole" => \E e \in Table : WholeAs(e)
    /\ fit = "spoilt" => SpoiltFile

\* The number of a table.
LEMMA Numbers ==
    ASSUME NEW e, Proper(e)
    PROVE  Num(e) \in Nat \ {0} /\ Gen(e) = Data(Num(e)) /\ Gen(e) \in Chunk
  <1>1. 1 \in 1 .. Len(e)
    BY DEF Proper
  <1>2. e[1].crc \in Seq(Chunk) /\ Len(e[1].crc) = e[1].len /\ e[1].len \in Nat /\ e[1].len > 0
    BY <1>1, EntryTypes DEF Proper
  <1>3. e[1].crc[1] \in Chunk
    BY <1>2
  <1>. QED  BY <1>3, Tags DEF Gen, Num, Chunk

\* Two entries are some.
LEMMA NotEmpty == \A e : Len(e) = 2 => e # <<>>
  <1>1. Len(<<>>) # 2
    OBVIOUS
  <1>. QED  BY <1>1, Zenon

\* What the writer is about to write.
LEMMA BodyLaid ==
    ASSUME TypeOK, Packing, w.pc = "fill"
    PROVE  /\ Proper(w.entries) /\ Num(w.entries) = dumps
           /\ Body \in Seq(Plain) /\ Len(Body) = Room(w.entries) + 3 /\ Room(w.entries) >= 3
           /\ Room(w.entries) \in Nat
           /\ Body[1] = Magic /\ Body[2] = Manifest(w.entries) /\ Laid(Body, 2, w.entries)
           /\ Body[4] = Gen(w.entries) /\ Body[Room(w.entries) + 3] = Trailer
  <1>. DEFINE e == w.entries
  <1>1. /\ Fine(e) /\ Len(e) = 2 /\ scratch \in Seq(Plain) /\ w \in Writer
        /\ Len(scratch) = Room(e) /\ Laid(scratch, 0, e)
    BY DEF TypeOK, Packing
  <1>2. e # <<>>
    BY <1>1, NotEmpty
  <1>3. e[1].len > 0 /\ Gen(e) = Data(dumps)
    BY <1>2 DEF Packing
  <1>4. /\ Body \in Seq(Plain) /\ Len(Body) = Room(e) + 3
        /\ Body[1] = Magic /\ Body[2] = Manifest(e)
        /\ \A i \in 1 .. Room(e) : Body[2 + i] = scratch[i]
        /\ Body[Room(e) + 3] = Trailer
    BY <1>1, BodyCells
  <1>5. Proper(e) /\ Num(e) = dumps
    BY <1>1, <1>3, Tags DEF Proper, Num
  <1>6. /\ 1 \in 1 .. Len(e) /\ 2 \in 1 .. Len(e) /\ e[1].len \in Nat /\ e[2].len \in Nat
        /\ Len(e[1].crc) = e[1].len
    <2>1. 1 \in 1 .. Len(e) /\ 2 \in 1 .. Len(e)
      BY <1>1
    <2>. QED  BY <1>1, <2>1, EntryTypes
  <1>7. Room(e) = 2 + e[1].len + e[2].len
    BY <1>1 DEF Room
  <1>8. Room(e) >= 3 /\ Room(e) \in Nat
    BY <1>3, <1>6, <1>7
  <1>9. Body[4] = Gen(e)
    <2>1. Framed(scratch, 0 + Start(e, 1), e[1].name, e[1].len, e[1].crc) /\ Start(e, 1) = 1
      BY <1>1, <1>6 DEF Laid, Start
    <2>2. 1 \in 1 .. Len(e[1].crc)
      BY <1>3, <1>6
    <2>3. scratch[0 + 1 + 1] = e[1].crc[1]
      BY <2>1, <2>2 DEF Framed
    <2>4. Body[2 + 2] = scratch[2]
      <3>1. 2 \in 1 .. Room(e)
        BY <1>8
      <3>. QED  BY <1>4, <3>1
    <2>. QED  BY <2>3, <2>4 DEF Gen
  <1>10. Laid(Body, 2, e)
    <2>1. \A i \in 1 .. Room(e) : Body[2 + i] = scratch[0 + i]
      BY <1>4, <1>8
    <2>. HIDE DEF e
    <2>. QED  BY <1>1, <2>1, LaidAgain
  <1>. QED  BY <1>4, <1>5, <1>8, <1>9, <1>10

\* The fields that no step of a reader changes, once it has opened the file.
Opened(y, z) == z.total = y.total /\ z.calm = y.calm /\ z.sound = y.sound /\ z.good = y.good

Failed(x) == r'[x].pc = "failed" /\ Opened(r[x], r'[x])

\* What each step of a reader does, field by field.
LEMMA Effects ==
    ASSUME TypeOK, NEW x \in Readers
    PROVE  LET y == r[x]
               z == r'[x]
               k == Len(y.out) + 1
           IN
           /\ Open(x) =>
                /\ z.pc = IF Len(dest) < 4 THEN "failed" ELSE "head"
                /\ z.total = Len(dest) /\ z.seen = <<>> /\ z.out = <<>>
                /\ z.calm = (w.pc # "fill") /\ z.sound = (fit # "spoilt") /\ z.good = (fit = "whole")
           /\ ReadHead(x) =>
                \/ /\ Has(2) /\ dest[1] = Magic /\ dest[2][1] = "manifest"
                   /\ Opened(y, z) /\ z.pc = "tail" /\ z.manifest = dest[2][2]
                   /\ z.seen = y.seen /\ z.out = y.out
                \/ ~(Has(2) /\ dest[1] = Magic /\ dest[2][1] = "manifest") /\ Failed(x)
           /\ ReadTail(x) =>
                \/ /\ Has(TrailerAt(y.total) + 1) /\ dest[TrailerAt(y.total)] = Trailer
                   /\ Opened(y, z) /\ z.pc = "verify" /\ z.stored = dest[TrailerAt(y.total) + 1]
                   /\ z.manifest = y.manifest /\ z.seen = y.seen /\ z.out = y.out
                \/ ~(Has(TrailerAt(y.total) + 1) /\ dest[TrailerAt(y.total)] = Trailer) /\ Failed(x)
           /\ VerifyNext(x) =>
                \/ /\ Has(Len(y.seen) + 1)
                   /\ Opened(y, z) /\ z.pc = "verify" /\ z.seen = Append(y.seen, dest[Len(y.seen) + 1])
                   /\ z.manifest = y.manifest /\ z.stored = y.stored /\ z.out = y.out
                \/ ~Has(Len(y.seen) + 1) /\ Failed(x)
           /\ VerifyEnd(x) =>
                \/ /\ Sums(y.seen, y.stored)
                   /\ Opened(y, z) /\ z.pc = "entry" /\ z.seen = <<>> /\ z.pos = 3
                   /\ z.manifest = y.manifest /\ z.out = y.out
                \/ ~Sums(y.seen, y.stored) /\ Failed(x)
           /\ ExtractHeader(x) =>
                \/ /\ Has(y.pos) /\ dest[y.pos] = Header(y.manifest[k].name, y.manifest[k].len)
                   /\ Opened(y, z) /\ z.pc = "data" /\ z.seen = <<>> /\ z.pos = y.pos + 1
                   /\ z.manifest = y.manifest /\ z.out = y.out
                \/ /\ ~(Has(y.pos) /\ dest[y.pos] = Header(y.manifest[k].name, y.manifest[k].len))
                   /\ Failed(x)
           /\ ExtractNext(x) =>
                \/ /\ Has(y.pos)
                   /\ Opened(y, z) /\ z.pc = "data" /\ z.pos = y.pos + 1
                   /\ z.seen = Append(y.seen, dest[y.pos])
                   /\ z.manifest = y.manifest /\ z.out = y.out
                \/ ~Has(y.pos) /\ Failed(x)
           /\ ExtractEnd(x) =>
                \/ /\ EntrySums(y.seen, y.manifest[k].crc)
                   /\ Opened(y, z) /\ z.pc = "entry" /\ z.pos = y.pos
                   /\ z.manifest = y.manifest /\ z.out = Append(y.out, y.manifest[k])
                \/ ~EntrySums(y.seen, y.manifest[k].crc) /\ Failed(x)
           /\ Extracted(x) =>
                /\ Opened(y, z) /\ z.pc = "done" /\ z.manifest = y.manifest /\ z.out = y.out
  <1>0. r[x] \in Reader /\ r \in [Readers -> Reader] /\ \A z : Goto(x, z) => r'[x] = z
    BY DEF TypeOK, Goto
  <1>1. Fails(x) => Failed(x)
    <2>1. Fails(x) => r'[x] = [r[x] EXCEPT !.pc = "failed"]
      BY <1>0 DEF Fails
    <2>. QED  BY <1>0, <2>1 DEF Reader, Opened, Failed
  <1>2. ASSUME Open(x)
        PROVE  /\ r'[x].pc = IF Len(dest) < 4 THEN "failed" ELSE "head"
               /\ r'[x].total = Len(dest) /\ r'[x].seen = <<>> /\ r'[x].out = <<>>
               /\ r'[x].calm = (w.pc # "fill") /\ r'[x].sound = (fit # "spoilt")
               /\ r'[x].good = (fit = "whole")
    <2>. DEFINE p == IF Len(dest) < 4 THEN "failed" ELSE "head"
                a == (w.pc # "fill")
                b == (fit # "spoilt")
                c == (fit = "whole")
                l == Len(dest)
                new == [Unopened EXCEPT !.total = l, !.calm = a, !.sound = b, !.good = c]
    <2>1. r'[x] = [new EXCEPT !.pc = p]
      BY <1>0, <1>2 DEF Open
    <2>2. l \in Nat /\ a \in BOOLEAN /\ b \in BOOLEAN /\ c \in BOOLEAN
      BY <1>2 DEF Open, TypeOK
    <2>. HIDE DEF p, a, b, c, l
    <2>3. /\ new \in Reader /\ new.total = l /\ new.seen = <<>> /\ new.out = <<>>
          /\ new.calm = a /\ new.sound = b /\ new.good = c
      <3>1. Unopened \in Reader /\ Unopened.seen = <<>> /\ Unopened.out = <<>>
        BY Edits DEF Unopened
      <3>. QED  BY <2>2, <3>1 DEF Reader
    <2>. HIDE DEF new
    <2>4. /\ r'[x].pc = p /\ r'[x].total = l /\ r'[x].seen = <<>> /\ r'[x].out = <<>>
          /\ r'[x].calm = a /\ r'[x].sound = b /\ r'[x].good = c
      BY <2>1, <2>3 DEF Reader
    <2>. QED  BY <2>4 DEF p, a, b, c, l
  <1>3. ASSUME ReadHead(x)
        PROVE  \/ /\ Has(2) /\ dest[1] = Magic /\ dest[2][1] = "manifest"
                  /\ Opened(r[x], r'[x]) /\ r'[x].pc = "tail" /\ r'[x].manifest = dest[2][2]
                  /\ r'[x].seen = r[x].seen /\ r'[x].out = r[x].out
               \/ ~(Has(2) /\ dest[1] = Magic /\ dest[2][1] = "manifest") /\ Failed(x)
    <2>1. CASE Has(2) /\ dest[1] = Magic /\ dest[2][1] = "manifest"
      <3>. DEFINE m == dest[2][2]
      <3>1. r'[x] = [r[x] EXCEPT !.pc = "tail", !.manifest = m]
        BY <1>0, <1>3, <2>1 DEF ReadHead
      <3>. HIDE DEF m
      <3>2. /\ Opened(r[x], r'[x]) /\ r'[x].pc = "tail" /\ r'[x].manifest = m
            /\ r'[x].seen = r[x].seen /\ r'[x].out = r[x].out
        BY <1>0, <1>3, <3>1 DEF Reader, Opened, ReadHead
      <3>. QED  BY <2>1, <3>2 DEF m
    <2>. QED  BY <1>1, <1>3, <2>1 DEF ReadHead
  <1>4. ASSUME ReadTail(x)
        PROVE  \/ /\ Has(TrailerAt(r[x].total) + 1) /\ dest[TrailerAt(r[x].total)] = Trailer
                  /\ Opened(r[x], r'[x]) /\ r'[x].pc = "verify"
                  /\ r'[x].stored = dest[TrailerAt(r[x].total) + 1]
                  /\ r'[x].manifest = r[x].manifest /\ r'[x].seen = r[x].seen /\ r'[x].out = r[x].out
               \/ /\ ~(Has(TrailerAt(r[x].total) + 1) /\ dest[TrailerAt(r[x].total)] = Trailer)
                  /\ Failed(x)
    <2>1. CASE Has(TrailerAt(r[x].total) + 1) /\ dest[TrailerAt(r[x].total)] = Trailer
      <3>. DEFINE c == dest[TrailerAt(r[x].total) + 1]
      <3>1. r'[x] = [r[x] EXCEPT !.pc = "verify", !.stored = c]
        BY <1>0, <1>4, <2>1 DEF ReadTail
      <3>. HIDE DEF c
      <3>2. /\ Opened(r[x], r'[x]) /\ r'[x].pc = "verify" /\ r'[x].stored = c
            /\ r'[x].manifest = r[x].manifest /\ r'[x].seen = r[x].seen /\ r'[x].out = r[x].out
        BY <1>0, <1>4, <3>1 DEF Reader, Opened, ReadTail
      <3>. QED  BY <2>1, <3>2 DEF c
    <2>. QED  BY <1>1, <1>4, <2>1 DEF ReadTail
  <1>5. ASSUME VerifyNext(x)
        PROVE  \/ /\ Has(Len(r[x].seen) + 1)
                  /\ Opened(r[x], r'[x]) /\ r'[x].pc = "verify"
                  /\ r'[x].seen = Append(r[x].seen, dest[Len(r[x].seen) + 1])
                  /\ r'[x].manifest = r[x].manifest /\ r'[x].stored = r[x].stored
                  /\ r'[x].out = r[x].out
               \/ ~Has(Len(r[x].seen) + 1) /\ Failed(x)
    <2>1. CASE Has(Len(r[x].seen) + 1)
      <3>. DEFINE c == Append(r[x].seen, dest[Len(r[x].seen) + 1])
      <3>1. r'[x] = [r[x] EXCEPT !.seen = c]
        BY <1>0, <1>5, <2>1 DEF VerifyNext
      <3>. HIDE DEF c
      <3>2. /\ Opened(r[x], r'[x]) /\ r'[x].pc = "verify" /\ r'[x].seen = c
            /\ r'[x].manifest = r[x].manifest /\ r'[x].stored = r[x].stored /\ r'[x].out = r[x].out
        BY <1>0, <1>5, <3>1 DEF Reader, Opened, VerifyNext
      <3>. QED  BY <2>1, <3>2 DEF c
    <2>. QED  BY <1>1, <1>5, <2>1 DEF VerifyNext
  <1>6. ASSUME VerifyEnd(x)
        PROVE  \/ /\ Sums(r[x].seen, r[x].stored)
                  /\ Opened(r[x], r'[x]) /\ r'[x].pc = "entry" /\ r'[x].seen = <<>> /\ r'[x].pos = 3
                  /\ r'[x].manifest = r[x].manifest /\ r'[x].out = r[x].out
               \/ ~Sums(r[x].seen, r[x].stored) /\ Failed(x)
    <2>1. CASE Sums(r[x].seen, r[x].stored)
      <3>1. r'[x] = [r[x] EXCEPT !.pc = "entry", !.seen = <<>>, !.pos = 3]
        BY <1>0, <1>6, <2>1 DEF VerifyEnd
      <3>2. /\ Opened(r[x], r'[x]) /\ r'[x].pc = "entry" /\ r'[x].seen = <<>> /\ r'[x].pos = 3
            /\ r'[x].manifest = r[x].manifest /\ r'[x].out = r[x].out
        BY <1>0, <1>6, <3>1 DEF Reader, Opened, VerifyEnd
      <3>. QED  BY <2>1, <3>2
    <2>. QED  BY <1>1, <1>6, <2>1 DEF VerifyEnd
  <1>. DEFINE meta == r[x].manifest[Len(r[x].out) + 1]
  <1>7. ASSUME ExtractHeader(x)
        PROVE  \/ /\ Has(r[x].pos) /\ dest[r[x].pos] = Header(meta.name, meta.len)
                  /\ Opened(r[x], r'[x]) /\ r'[x].pc = "data" /\ r'[x].seen = <<>>
                  /\ r'[x].pos = r[x].pos + 1
                  /\ r'[x].manifest = r[x].manifest /\ r'[x].out = r[x].out
               \/ ~(Has(r[x].pos) /\ dest[r[x].pos] = Header(meta.name, meta.len)) /\ Failed(x)
    <2>1. CASE Has(r[x].pos) /\ dest[r[x].pos] = Header(meta.name, meta.len)
      <3>. DEFINE q == r[x].pos + 1
      <3>1. r'[x] = [r[x] EXCEPT !.pc = "data", !.pos = q, !.seen = <<>>]
        BY <1>0, <1>7, <2>1 DEF ExtractHeader
      <3>. HIDE DEF q
      <3>2. /\ Opened(r[x], r'[x]) /\ r'[x].pc = "data" /\ r'[x].seen = <<>> /\ r'[x].pos = q
            /\ r'[x].manifest = r[x].manifest /\ r'[x].out = r[x].out
        BY <1>0, <1>7, <3>1 DEF Reader, Opened, ExtractHeader
      <3>. QED  BY <2>1, <3>2 DEF q
    <2>. QED  BY <1>1, <1>7, <2>1 DEF ExtractHeader
  <1>8. ASSUME ExtractNext(x)
        PROVE  \/ /\ Has(r[x].pos)
                  /\ Opened(r[x], r'[x]) /\ r'[x].pc = "data" /\ r'[x].pos = r[x].pos + 1
                  /\ r'[x].seen = Append(r[x].seen, dest[r[x].pos])
                  /\ r'[x].manifest = r[x].manifest /\ r'[x].out = r[x].out
               \/ ~Has(r[x].pos) /\ Failed(x)
    <2>1. CASE Has(r[x].pos)
      <3>. DEFINE q == r[x].pos + 1
                  c == Append(r[x].seen, dest[r[x].pos])
      <3>1. r'[x] = [r[x] EXCEPT !.pos = q, !.seen = c]
        BY <1>0, <1>8, <2>1 DEF ExtractNext
      <3>. HIDE DEF q, c
      <3>2. /\ Opened(r[x], r'[x]) /\ r'[x].pc = "data" /\ r'[x].pos = q /\ r'[x].seen = c
            /\ r'[x].manifest = r[x].manifest /\ r'[x].out = r[x].out
        BY <1>0, <1>8, <3>1 DEF Reader, Opened, ExtractNext
      <3>. QED  BY <2>1, <3>2 DEF q, c
    <2>. QED  BY <1>1, <1>8, <2>1 DEF ExtractNext
  <1>9. ASSUME ExtractEnd(x)
        PROVE  \/ /\ EntrySums(r[x].seen, meta.crc)
                  /\ Opened(r[x], r'[x]) /\ r'[x].pc = "entry" /\ r'[x].pos = r[x].pos
                  /\ r'[x].manifest = r[x].manifest /\ r'[x].out = Append(r[x].out, meta)
               \/ ~EntrySums(r[x].seen, meta.crc) /\ Failed(x)
    <2>1. meta \in Entry
      BY <1>0, <1>9 DEF ExtractEnd, TypeOK, Reader, Table
    <2>2. EntrySums(r[x].seen, meta.crc) => [meta EXCEPT !.crc = r[x].seen] = meta
      <3>. HIDE DEF meta
      <3>. QED  BY <2>1 DEF EntrySums, Entry
    <2>3. CASE EntrySums(r[x].seen, meta.crc)
      <3>1. r'[x] = [r[x] EXCEPT !.pc = "entry", !.out = Append(@, [meta EXCEPT !.crc = r[x].seen])]
        BY <1>0, <1>9, <2>3 DEF ExtractEnd
      <3>. DEFINE o == Append(r[x].out, meta)
      <3>2. r'[x] = [r[x] EXCEPT !.pc = "entry", !.out = o]
        BY <2>2, <2>3, <3>1
      <3>. HIDE DEF o
      <3>3. /\ Opened(r[x], r'[x]) /\ r'[x].pc = "entry" /\ r'[x].pos = r[x].pos
            /\ r'[x].manifest = r[x].manifest /\ r'[x].out = o
        BY <1>0, <3>2 DEF Reader, Opened
      <3>. QED  BY <2>3, <3>3 DEF o
    <2>. QED  BY <1>1, <1>9, <2>3 DEF ExtractEnd
  <1>10. ASSUME Extracted(x)
         PROVE  /\ Opened(r[x], r'[x]) /\ r'[x].pc = "done" /\ r'[x].manifest = r[x].manifest
                /\ r'[x].out = r[x].out
    BY <1>0, <1>10 DEF Extracted, Reader, Opened
  <1>. QED  BY <1>2, <1>3, <1>4, <1>5, <1>6, <1>7, <1>8, <1>9, <1>10

\* Every step of a reader leaves the files alone, and finds one.
LEMMA ReaderFrame ==
    ASSUME TypeOK, NEW x \in Readers, Reading(x)
    PROVE  /\ UNCHANGED <<log, dumps, scratch, dest, w, packs, fit>>
           /\ ~Virgin
           /\ \A y \in Readers : y # x => r'[y] = r[y]
           /\ r'[x].pc # "unopened"
  <1>1. UNCHANGED <<log, dumps, scratch, dest, w, packs, fit>>
    BY DEF Reading, Open, ReadHead, ReadTail, VerifyNext, VerifyEnd, ExtractHeader, ExtractNext,
           ExtractEnd, Extracted, ReaderStep
  <1>2. ~Virgin
    BY DEF Virgin, Reading, Open, ReadHead, ReadTail, VerifyNext, VerifyEnd, ExtractHeader,
           ExtractNext, ExtractEnd, Extracted
  <1>3. \A y \in Readers : y # x => r'[y] = r[y]
    BY DEF TypeOK, Reading, Open, ReadHead, ReadTail, VerifyNext, VerifyEnd, ExtractHeader,
           ExtractNext, ExtractEnd, Extracted, Goto, Fails
  <1>4. r'[x].pc # "unopened"
    BY Effects DEF Reading, Failed
  <1>. QED  BY <1>1, <1>2, <1>3, <1>4

\* A checksum is of one thing only.
LEMMA OneSum == \A s, t : Checksum(s) = Checksum(t) => s = t
  BY Tags

\* And a manifest of one table.
LEMMA OneTable == \A e, f : Manifest(e) = Manifest(f) => e = f
  BY Tags

\* A file that a finished writer left, and the disk then spoilt in one place.
LEMMA DecayStep ==
    ASSUME TypeOK, DestInv, Decay
    PROVE  SpoiltFile'
  <1>1. PICK e \in Table : WholeAs(e)
    BY DEF Decay, DestInv
  <1>2. PICK s \in Seq(Plain) : Signed(s) /\ Covers(s)
    BY <1>1 DEF WholeAs
  <1>3. PICK i \in DOMAIN dest : dest' = [dest EXCEPT ![i] = Spoilt(@)]
    BY DEF Decay
  <1>. DEFINE n == Len(dest)
  <1>4. dest \in Seq(Cell) /\ n \in Nat /\ DOMAIN dest = 1 .. n
    BY DEF TypeOK, Decay
  <1>5. Room(e) \in Nat /\ n = Room(e) + 4
    BY <1>1, EntryTypes DEF WholeAs, Begun, Proper
  <1>6. n >= 4
    BY <1>5
  <1>7. /\ dest' \in Seq(Cell) /\ Len(dest') = n
        /\ dest'[i] = Spoilt(dest[i]) /\ \A j \in 1 .. n : j # i => dest'[j] = dest[j]
    <2>1. \A c : Spoilt(c) \in Cell
      BY DEF Spoilt, Cell
    <2>2. DOMAIN dest' = 1 .. n /\ dest'[i] = Spoilt(dest[i]) /\ \A j \in 1 .. n : j # i => dest'[j] = dest[j]
      BY <1>3, <1>4
    <2>3. dest' \in Seq(Cell)
      BY <1>3, <1>4, <2>1, SeqDef
    <2>4. Len(dest') = n
      BY <1>4, <2>2, <2>3
    <2>. QED  BY <2>2, <2>3, <2>4
  <1>8. Len(s) = n - 1 /\ (\A j \in 1 .. n - 1 : s[j] = dest[j] /\ s[j] \in Plain) /\ dest[n] = Checksum(s)
    BY <1>2, <1>4, <1>6 DEF Covers, Signed
  <1>11. dest[2] = Manifest(e) /\ e \in packs'
    BY <1>1 DEF WholeAs, Begun, Decay
  <1>9. CASE i = n
    <2>1. dest'[n] = Data(0)
      <3>1. dest[n][1] = "crc"
        BY <1>8, Tags
      <3>. QED  BY <1>7, <1>9, <3>1 DEF Spoilt
    <2>2. ASSUME NEW t, Signed(t)'  PROVE FALSE
      BY <1>7, <2>1, <2>2, Tags DEF Signed
    <2>3. dest'[2] = dest[2]
      <3>1. 2 \in 1 .. n /\ n # 2
        BY <1>4, <1>6
      <3>. QED  BY <1>7, <1>9, <3>1
    <2>4. \A f \in Table : dest'[2] = Manifest(f) => f \in packs'
      BY <1>11, <2>3, OneTable
    <2>. QED  BY <1>6, <1>7, <2>2, <2>4 DEF SpoiltFile
  <1>10. CASE i # n
    <2>1. i \in 1 .. n - 1 /\ n \in 1 .. n /\ 2 \in 1 .. n /\ 2 \in 1 .. n - 1
      BY <1>4, <1>6, <1>10
    <2>2. dest'[n] = Checksum(s)
      BY <1>7, <1>8, <1>10, <2>1
    <2>3. \A t : Signed(t)' => t = s
      BY <1>7, <2>2, OneSum DEF Signed
    <2>4. dest'[i] # s[i]
      <3>1. s[i] = dest[i] /\ s[i] \in Plain
        BY <1>8, <2>1
      <3>2. dest[i] # Data(0) /\ dest[i] # Manifest(<<>>)
        BY <3>1, Sorts
      <3>. QED  BY <1>7, <3>1, <3>2 DEF Spoilt
    <2>5. ~Covers(s)'
      <3>1. i \in 1 .. Len(s)
        BY <1>8, <2>1
      <3>. QED  BY <2>4, <3>1 DEF Covers
    <2>6. \A t \in Seq(Cell) : Signed(t)' => ~Covers(t)'
      <3>. SUFFICES ASSUME NEW t \in Seq(Cell), Signed(t)'  PROVE ~Covers(t)'
        OBVIOUS
      <3>1. t = s
        BY <2>3
      <3>. QED  BY <2>5, <3>1
    <2>7. s[2] # Manifest(<<>>)
      BY <1>8, <2>1, Sorts
    <2>8. ASSUME NEW f \in Table, dest'[2] = Manifest(f)  PROVE f \in packs' \/ Blank'
      <3>1. CASE i = 2
        <4>1. dest[2][1] = "manifest"
          BY <1>1, Tags DEF WholeAs, Begun
        <4>2. dest'[2] = Manifest(<<>>)
          BY <1>7, <3>1, <4>1 DEF Spoilt
        <4>. QED  BY <2>3, <2>7, <4>2 DEF Blank
      <3>2. CASE i # 2
        <4>1. dest'[2] = dest[2]
          BY <1>7, <2>1, <3>2
        <4>. QED  BY <1>11, <2>8, <4>1, OneTable
      <3>. QED  BY <3>1, <3>2
    <2>. QED  BY <1>6, <1>7, <2>6, <2>8 DEF SpoiltFile
  <1>. QED  BY <1>9, <1>10

\* The writer has written the whole image, and signs it.
LEMMA FinishStep ==
    ASSUME TypeOK, Packing, DestInv, Finish
    PROVE  (\E e \in Table : WholeAs(e)') /\ dest' \in Seq(Cell)
  <1>. DEFINE n == Len(dest)
  <1>1. /\ dest \in Seq(Plain) /\ n \in Nat /\ n = Len(Body) /\ w.pc = "fill"
        /\ \A i \in 1 .. n : dest[i] = Body[i]
    BY DEF TypeOK, DestInv, Finish
  <1>2. PICK e \in Table : e = w.entries
    BY DEF TypeOK, Writer
  <1>3. /\ Proper(e) /\ Num(e) = dumps /\ n = Room(e) + 3 /\ Room(e) >= 3 /\ Room(e) \in Nat
        /\ Body[1] = Magic /\ Body[2] = Manifest(e) /\ Laid(Body, 2, e)
        /\ Body[4] = Gen(e) /\ Body[n] = Trailer
    BY <1>1, <1>2, BodyLaid
  <1>4. dest \in Seq(Cell) /\ Checksum(dest) \in Cell
    BY <1>1, Wider DEF Cell
  <1>5. /\ dest' \in Seq(Cell) /\ Len(dest') = n + 1 /\ dest'[n + 1] = Checksum(dest)
        /\ \A i \in 1 .. n : dest'[i] = dest[i]
    BY <1>4, AppendProperties DEF Finish
  <1>6. /\ dumps' = dumps /\ w'.pc = "idle" /\ packs' = packs \cup {e}
    BY <1>2 DEF Finish, Idle
  <1>7. 1 \in 1 .. n /\ 2 \in 1 .. n /\ 4 \in 1 .. n /\ n \in 1 .. n
    BY <1>3
  <1>8. dest'[1] = Magic /\ dest'[2] = Manifest(e) /\ dest'[4] = Gen(e) /\ dest'[n] = Trailer
    BY <1>1, <1>3, <1>5, <1>7
  <1>9. Laid(dest', 2, e)
    <2>1. \A i \in 1 .. Room(e) : dest'[2 + i] = Body[2 + i]
      <3>. SUFFICES ASSUME NEW i \in 1 .. Room(e)  PROVE dest'[2 + i] = Body[2 + i]
        OBVIOUS
      <3>1. 2 + i \in 1 .. n
        BY <1>3
      <3>. QED  BY <1>1, <1>5, <3>1
    <2>. QED  BY <1>3, <2>1, LaidAgain DEF Proper
  <1>10. Begun(e)'
    BY <1>3, <1>6, <1>8, Numbers DEF Begun, Aged
  <1>11. Len(dest') = Room(e) + 4 /\ Len(dest') - 1 = n
    BY <1>1, <1>3, <1>5
  <1>12. PICK s \in Seq(Plain) : s = dest
    BY <1>1
  <1>13. Signed(s)' /\ Covers(s)'
    BY <1>1, <1>5, <1>11, <1>12 DEF Signed, Covers
  <1>14. WholeAs(e)'
    BY <1>6, <1>8, <1>9, <1>10, <1>11, <1>13 DEF WholeAs
  <1>. QED  BY <1>5, <1>14

\* Every step keeps the file in one of these forms.
LEMMA DestStep ==
    ASSUME TypeOK, TypeOK', Packing, DestInv, [Next]_vars
    PROVE  DestInv'
  <1>. USE SnapshotAssumption
  <1>0. dumps \in Nat /\ w \in Writer /\ Idle.pc = "idle"
    BY DEF TypeOK, Idle
  <1>1. ASSUME UNCHANGED <<dest, fit, packs>>, Virgin => Virgin',
               w'.pc = "fill" => UNCHANGED <<w, scratch>>,
               \A e : Proper(e) /\ Aged(e) => Aged(e)'
        PROVE  DestInv'
    <2>1. \A e : Begun(e) => Begun(e)'
      BY <1>1 DEF Begun
    <2>2. \A e : WholeAs(e) => WholeAs(e)'
      BY <1>1, <2>1 DEF WholeAs, Signed, Covers
    <2>3. SpoiltFile => SpoiltFile'
      BY <1>1 DEF SpoiltFile, Blank, Signed, Covers
    <2>4. w'.pc = "fill" => w.pc = "fill" /\ Body' = Body
      BY <1>1 DEF Body
    <2>5. fit' = "torn" => \/ Virgin'
                           \/ dest' \in Seq(Plain) /\ (Len(dest') >= 2 => \E e \in Table : Begun(e)')
      BY <1>1, <2>1 DEF DestInv
    <2>6. Virgin' \/ dest' \in Seq(Cell)
      BY <1>1 DEF DestInv
    <2>7. fit' = "whole" => \E e \in Table : WholeAs(e)'
      BY <1>1, <2>2 DEF DestInv
    <2>8. fit' = "spoilt" => SpoiltFile'
      BY <1>1, <2>3 DEF DestInv
    <2>9. w'.pc = "fill" => Len(dest') <= Len(Body') /\ \A i \in 1 .. Len(dest') : dest'[i] = Body'[i]
      BY <1>1, <2>4 DEF DestInv
    <2>. QED  BY <2>5, <2>6, <2>7, <2>8, <2>9 DEF DestInv
  <1>2. CASE \/ Grow \/ WriteHeader \/ Copy \/ EndOfEntry \/ WriterFails \/ WriterKilled
             \/ UNCHANGED vars
    <2>1. UNCHANGED <<dest, fit, packs, r, dumps>>
      BY <1>2 DEF Grow, WriteHeader, Copy, EndOfEntry, WriterFails, WriterKilled, vars
    <2>2. \/ UNCHANGED <<w, scratch>>
          \/ w'.pc = "idle"
          \/ w.pc \in {"header", "copy"} /\ w'.pc # "fill"
      <3>1. CASE Grow \/ UNCHANGED vars
        BY <3>1 DEF Grow, vars
      <3>2. CASE WriterFails \/ WriterKilled
        BY <1>0, <3>2 DEF WriterFails, WriterKilled
      <3>3. CASE WriteHeader
        BY <1>0, <3>3 DEF WriteHeader, Writer
      <3>4. CASE Copy
        <4>. DEFINE d == Append(w.data, Source(Order[Len(w.entries) + 1])[Len(w.data) + 1])
        <4>1. w' = [w EXCEPT !.data = d] /\ w.pc = "copy"
          BY <3>4 DEF Copy
        <4>. HIDE DEF d
        <4>. QED  BY <1>0, <4>1 DEF Writer
      <3>5. CASE EndOfEntry
        BY <1>0, <3>5 DEF EndOfEntry, Idle
      <3>. QED  BY <1>2, <3>1, <3>2, <3>3, <3>4, <3>5
    <2>3. Virgin => Virgin'
      BY <2>1 DEF Virgin
    <2>4. \A e : Aged(e) => Aged(e)'
      BY <2>1, <2>2 DEF Aged
    <2>. QED  BY <1>1, <2>1, <2>2, <2>3, <2>4
  <1>3. CASE New
    <2>1. UNCHANGED <<dest, fit, packs, r>> /\ dumps' = dumps + 1 /\ w'.pc = "header"
      BY <1>3 DEF New, Idle
    <2>2. Virgin => Virgin'
      BY <2>1 DEF Virgin
    <2>3. \A e : Proper(e) /\ Aged(e) => Aged(e)'
      BY <1>0, <2>1, Numbers DEF Aged
    <2>. QED  BY <1>1, <2>1, <2>2, <2>3
  <1>4. CASE CreateDest
    <2>1. dest' = <<>> /\ fit' = "torn"
      BY <1>4 DEF CreateDest
    <2>2. dest' \in Seq(Cell) /\ dest' \in Seq(Plain) /\ Len(dest') = 0
      BY <2>1
    <2>3. Len(Body') \in Nat
      <3>1. scratch' \in Seq(Plain) /\ w' \in Writer /\ Len(w'.entries) = 2
        <4>1. w'.pc = "fill"
          BY <1>0, <1>4 DEF CreateDest, Writer
        <4>. QED  BY <4>1 DEF TypeOK
      <3>2. <<Magic, Manifest(w'.entries)>> \o scratch' \o <<Trailer>> = Body'
        BY DEF Body
      <3>3. <<Magic, Manifest(w'.entries)>> \in Seq(Plain) /\ <<Trailer>> \in Seq(Plain)
        <4>1. w'.entries \in Table \ {<<>>}
          BY <3>1, NotEmpty DEF Writer
        <4>2. Manifest(w'.entries) \in Plain /\ Magic \in Plain /\ Trailer \in Plain
          BY <4>1 DEF Plain
        <4>. QED  BY <4>2
      <3>4. Body' \in Seq(Plain)
        BY <3>1, <3>2, <3>3, SMTT(30)
      <3>. QED  BY <3>4
    <2>. QED  BY <2>1, <2>2, <2>3 DEF DestInv
  <1>5. CASE Fill
    <2>. DEFINE n == Len(dest)
                c == Body[n + 1]
    <2>1. /\ dest \in Seq(Plain) /\ n \in Nat /\ n < Len(Body) /\ w.pc = "fill" /\ fit = "torn"
          /\ dest' = Append(dest, c) /\ \A i \in 1 .. n : dest[i] = Body[i]
      BY <1>5 DEF TypeOK, DestInv, Fill
    <2>2. PICK e \in Table : e = w.entries
      BY DEF TypeOK, Writer
    <2>3. /\ Proper(e) /\ Num(e) = dumps /\ Body \in Seq(Plain) /\ Len(Body) \in Nat
          /\ Body[2] = Manifest(e) /\ Body[4] = Gen(e)
      BY <2>1, <2>2, BodyLaid
    <2>4. c \in Plain
      BY <2>1, <2>3
    <2>. HIDE DEF c
    <2>5. /\ dest' \in Seq(Plain) /\ Len(dest') = n + 1 /\ dest'[n + 1] = c
          /\ \A i \in 1 .. n : dest'[i] = dest[i]
      BY <2>1, <2>4, AppendProperties
    <2>6. \A i \in 1 .. n + 1 : dest'[i] = Body[i]
      <3>. SUFFICES ASSUME NEW i \in 1 .. n + 1  PROVE dest'[i] = Body[i]
        OBVIOUS
      <3>1. CASE i = n + 1
        BY <2>5, <3>1 DEF c
      <3>2. CASE i # n + 1
        <4>1. i \in 1 .. n
          BY <2>1, <3>2
        <4>. QED  BY <2>1, <2>5, <4>1
      <3>. QED  BY <3>1, <3>2
    <2>7. UNCHANGED <<w, scratch, dumps, fit>> /\ Body' = Body
      BY <1>5 DEF Fill, Body
    <2>8. Len(dest') >= 2 => Begun(e)'
      <3>. SUFFICES ASSUME n + 1 >= 2  PROVE Begun(e)'
        BY <2>5
      <3>1. 2 \in 1 .. n + 1 /\ (n + 1 >= 4 => 4 \in 1 .. n + 1)
        BY <2>1
      <3>2. dest'[2] = Manifest(e) /\ (Len(dest') >= 4 => dest'[4] = Gen(e))
        BY <2>3, <2>5, <2>6, <3>1
      <3>3. Aged(e)'
        BY <1>0, <2>1, <2>3, <2>7 DEF Aged
      <3>. QED  BY <2>3, <3>2, <3>3 DEF Begun
    <2>9. Len(dest') <= Len(Body') /\ \A i \in 1 .. Len(dest') : dest'[i] = Body'[i]
      BY <2>1, <2>3, <2>5, <2>6, <2>7
    <2>10. dest' \in Seq(Cell)
      BY <2>5, Wider
    <2>. QED  BY <2>1, <2>5, <2>7, <2>8, <2>9, <2>10 DEF DestInv
  <1>6. CASE Finish
    <2>1. w'.pc = "idle" /\ fit' = "whole"
      BY <1>0, <1>6 DEF Finish
    <2>. QED  BY <1>6, <2>1, FinishStep DEF DestInv
  <1>7. CASE Decay
    <2>1. fit' = "spoilt" /\ w' = w /\ fit = "whole"
      BY <1>7 DEF Decay
    <2>2. w'.pc # "fill" /\ dest' \in Seq(Cell)
      BY <2>1 DEF TypeOK
    <2>. QED  BY <1>7, <2>1, <2>2, DecayStep DEF DestInv
  <1>8. ASSUME NEW x \in Readers, Reading(x)  PROVE DestInv'
    <2>1. UNCHANGED <<dumps, scratch, dest, w, packs, fit>> /\ ~Virgin
      BY <1>8, ReaderFrame
    <2>2. \A e : Aged(e) => Aged(e)'
      BY <2>1 DEF Aged
    <2>. QED  BY <1>1, <2>1, <2>2
  <1>. QED  BY <1>2, <1>3, <1>4, <1>5, <1>6, <1>7, <1>8 DEF Next, Writing

-----------------------------------------------------------------------------
(* What a reader knows *)

Manifested == {"tail", "verify", "entry", "data", "done"}
Verified == {"entry", "data", "done"}

\* What is unpacked is what the manifest lists.
Unpacked(x) ==
    /\ r[x].pc \in {"head", "tail"} => r[x].seen = <<>>
    /\ r[x].pc \in {"head", "tail", "verify"} => r[x].out = <<>>
    /\ r[x].pc \in Verified =>
          Len(r[x].out) <= Len(r[x].manifest) /\ \A k \in 1 .. Len(r[x].out) : r[x].out[k] = r[x].manifest[k]
    /\ r[x].pc = "done" => Len(r[x].out) = Len(r[x].manifest)

\* The checksum, and the part of the file it is compared with, are those of the
\* file as it is.
Copied(x) ==
    /\ r[x].stored = dest[r[x].total]
    /\ Len(r[x].seen) < r[x].total
    /\ \A i \in 1 .. Len(r[x].seen) : r[x].seen[i] = dest[i]

\* A file that is not rewritten while it is read: one that no writer finished
\* does not pass, and the manifest of one that a writer did finish is its table,
\* or is spoilt and does not pass.
CalmInv(x) ==
    Busy(x) /\ r[x].calm =>
        /\ w.pc # "fill" /\ r[x].total = Len(dest) /\ r[x].total >= 4
        /\ ~r[x].good => /\ fit # "whole"
                         /\ r[x].pc \notin Verified
                         /\ r[x].pc = "verify" => Copied(x)
        /\ r[x].good =>
              /\ fit # "torn"
              /\ r[x].pc \in Manifested =>
                    \/ r[x].manifest \in packs
                    \/ /\ fit = "spoilt" /\ Blank /\ r[x].pc \notin Verified
                       /\ r[x].pc = "verify" => Copied(x)

\* The file is another one by now than the one with the table m, and no later one
\* has the images of m.
Past(m) ==
    /\ Proper(m) /\ Num(m) <= dumps
    /\ w.pc # "idle" => Num(m) < dumps
    /\ Len(dest) >= 4 => dest[4] # Gen(m)

\* The file with the table m is being written, or was given up.
Current(m) == fit = "torn" /\ Len(dest) >= 2 /\ dest[2] = Manifest(m)

\* The images that are being unpacked are not those of the manifest.
Astray(x) ==
    /\ Past(r[x].manifest) /\ r[x].out = <<>>
    /\ r[x].pc = "entry" => r[x].pos = 3
    /\ r[x].pc = "data" => /\ r[x].pos = 4 + Len(r[x].seen)
                           /\ Len(r[x].seen) > 0 => r[x].seen[1] # Gen(r[x].manifest)

\* A file that is not spoilt, but may be rewritten while it is read: the manifest
\* is one of a finished snapshot, or the checksums do not match.
SoundInv(x) ==
    Busy(x) /\ r[x].sound =>
        /\ fit # "spoilt"
        /\ r[x].manifest \notin packs =>
              /\ r[x].pc = "tail" => Past(r[x].manifest) \/ Current(r[x].manifest)
              /\ r[x].pc = "verify" => Past(r[x].manifest) \/ r[x].stored[1] # "crc"
              /\ r[x].pc \in {"entry", "data"} => Astray(x)
              /\ r[x].pc # "done"

\* Neither rewritten nor spoilt: every read finds what it must.
GoodInv(x) ==
    r[x].pc # "unopened" /\ r[x].calm /\ r[x].sound /\ r[x].good =>
        /\ fit = "whole" /\ w.pc # "fill" /\ r[x].total = Len(dest)
        /\ r[x].pc # "failed"
        /\ r[x].pc \in Manifested => dest[2] = Manifest(r[x].manifest)
        /\ r[x].pc = "verify" => Copied(x)
        /\ r[x].pc = "entry" /\ Len(r[x].out) < 2 => r[x].pos = 2 + Start(r[x].manifest, Len(r[x].out) + 1)
        /\ r[x].pc = "data" =>
              LET k == Len(r[x].out) + 1 IN
              /\ r[x].pos = 3 + Start(r[x].manifest, k) + Len(r[x].seen)
              /\ Len(r[x].seen) <= r[x].manifest[k].len
              /\ \A j \in 1 .. Len(r[x].seen) : r[x].seen[j] = r[x].manifest[k].crc[j]

ReadInv == \A x \in Readers : Unpacked(x) /\ CalmInv(x) /\ SoundInv(x) /\ GoodInv(x)

\* A reader that stands still while the file does.
LEMMA StillStep ==
    ASSUME TypeOK, NEW x \in Readers, UNCHANGED <<dest, fit, packs>>, r'[x] = r[x],
           Unpacked(x), CalmInv(x), SoundInv(x), GoodInv(x),
           w'.pc = "fill" => w.pc = "fill",
           \A m : Past(m) => Past(m)'
    PROVE  Unpacked(x)' /\ CalmInv(x)' /\ SoundInv(x)' /\ GoodInv(x)'
  <1>1. Unpacked(x)'
    BY DEF Unpacked
  <1>2. Copied(x)' <=> Copied(x)
    BY DEF Copied
  <1>3. CalmInv(x)'
    BY <1>2 DEF CalmInv, Busy, Blank, Signed
  <1>4. \A m : Current(m)' <=> Current(m)
    BY DEF Current
  <1>5. Astray(x) => Astray(x)'
    BY DEF Astray
  <1>6. SoundInv(x)'
    BY <1>4, <1>5 DEF SoundInv, Busy
  <1>7. GoodInv(x)'
    BY <1>2 DEF GoodInv
  <1>. QED  BY <1>1, <1>3, <1>6, <1>7

\* What a reader knows survives the steps of the writer and of the disk.
LEMMA WriterReadStep ==
    ASSUME TypeOK, TypeOK', Packing, DestInv, NEW x \in Readers,
           Grow \/ Writing \/ WriterFails \/ WriterKilled \/ Decay \/ UNCHANGED vars,
           Unpacked(x), CalmInv(x), SoundInv(x), GoodInv(x)
    PROVE  Unpacked(x)' /\ CalmInv(x)' /\ SoundInv(x)' /\ GoodInv(x)'
  <1>. USE SnapshotAssumption
  <1>0. dumps \in Nat /\ w \in Writer /\ Idle.pc = "idle" /\ r[x] \in Reader /\ r \in [Readers -> Reader]
    BY DEF TypeOK, Idle
  <1>1. CASE \/ Grow \/ WriteHeader \/ Copy \/ EndOfEntry \/ WriterFails \/ WriterKilled
             \/ UNCHANGED vars
    <2>1. UNCHANGED <<dest, fit, packs, r, dumps>>
      BY <1>1 DEF Grow, WriteHeader, Copy, EndOfEntry, WriterFails, WriterKilled, vars
    <2>2. \/ UNCHANGED w
          \/ w'.pc = "idle"
          \/ w.pc \in {"header", "copy"} /\ w'.pc # "fill"
      <3>1. CASE Grow \/ UNCHANGED vars
        BY <3>1 DEF Grow, vars
      <3>2. CASE WriterFails \/ WriterKilled
        BY <1>0, <3>2 DEF WriterFails, WriterKilled
      <3>3. CASE WriteHeader
        BY <1>0, <3>3 DEF WriteHeader, Writer
      <3>4. CASE Copy
        <4>. DEFINE d == Append(w.data, Source(Order[Len(w.entries) + 1])[Len(w.data) + 1])
        <4>1. w' = [w EXCEPT !.data = d] /\ w.pc = "copy"
          BY <3>4 DEF Copy
        <4>. HIDE DEF d
        <4>. QED  BY <1>0, <4>1 DEF Writer
      <3>5. CASE EndOfEntry
        BY <1>0, <3>5 DEF EndOfEntry, Idle
      <3>. QED  BY <1>1, <3>1, <3>2, <3>3, <3>4, <3>5
    <2>3. \A m : Past(m) => Past(m)'
      BY <2>1, <2>2 DEF Past
    <2>4. w'.pc = "fill" => w.pc = "fill"
      BY <2>2
    <2>. QED  BY <2>1, <2>3, <2>4, StillStep
  <1>2. CASE New
    <2>1. UNCHANGED <<dest, fit, packs, r>> /\ dumps' = dumps + 1 /\ w'.pc = "header"
      BY <1>2 DEF New, Idle
    <2>2. \A m : Past(m) => Past(m)'
      BY <1>0, <2>1, Numbers DEF Past
    <2>. QED  BY <2>1, <2>2, StillStep
  <1>3. CASE CreateDest
    <2>1. dest' = <<>> /\ fit' = "torn" /\ UNCHANGED <<dumps, packs>> /\ w.pc = "create"
      BY <1>3 DEF CreateDest
    <2>2. /\ r'[x].pc = r[x].pc /\ r'[x].manifest = r[x].manifest /\ r'[x].stored = r[x].stored
          /\ r'[x].seen = r[x].seen /\ r'[x].pos = r[x].pos /\ r'[x].out = r[x].out
          /\ r'[x].calm = FALSE /\ r'[x].sound = r[x].sound
      <3>1. r'[x] = [r[x] EXCEPT !.calm = FALSE]
        BY <1>3 DEF CreateDest
      <3>. QED  BY <1>0, <3>1 DEF Reader
    <2>3. \A m : Past(m) => Past(m)'
      BY <2>1 DEF Past
    <2>4. \A m : Busy(x) /\ Current(m) => Past(m)'
      <3>. SUFFICES ASSUME NEW m, Busy(x), Current(m)  PROVE Past(m)'
        OBVIOUS
      <3>1. ~Virgin
        BY DEF Virgin, Busy
      <3>2. PICK e \in Table : Begun(e)
        BY <3>1 DEF DestInv, Current
      <3>3. e = m
        BY <3>2, OneTable DEF Begun, Current
      <3>4. Proper(m) /\ Num(m) < dumps /\ Num(m) <= dumps
        BY <2>1, <3>2, <3>3 DEF Begun, Aged
      <3>. QED  BY <2>1, <3>4 DEF Past
    <2>5. Unpacked(x)'
      BY <2>2 DEF Unpacked
    <2>6. CalmInv(x)' /\ GoodInv(x)'
      BY <2>2 DEF CalmInv, GoodInv
    <2>7. Astray(x) => Astray(x)'
      BY <2>2, <2>3 DEF Astray
    <2>8. SoundInv(x)'
      BY <2>1, <2>2, <2>3, <2>4, <2>7 DEF SoundInv, Busy
    <2>. QED  BY <2>5, <2>6, <2>8
  <1>4. CASE Fill
    <2>. DEFINE n == Len(dest)
                c == Body[n + 1]
    <2>1. /\ dest \in Seq(Plain) /\ n \in Nat /\ n < Len(Body) /\ w.pc = "fill" /\ fit = "torn"
          /\ dest' = Append(dest, c) /\ \A i \in 1 .. n : dest[i] = Body[i]
          /\ UNCHANGED <<dumps, packs, r, fit, w>>
      BY <1>4 DEF TypeOK, DestInv, Fill
    <2>2. PICK e \in Table : e = w.entries
      BY DEF TypeOK, Writer
    <2>3. Proper(e) /\ Num(e) = dumps /\ Body \in Seq(Plain) /\ Body[4] = Gen(e)
      BY <2>1, <2>2, BodyLaid
    <2>4. c \in Plain
      BY <2>1, <2>3
    <2>. HIDE DEF c
    <2>5. /\ dest' \in Seq(Plain) /\ Len(dest') = n + 1 /\ dest'[n + 1] = c
          /\ \A i \in 1 .. n : dest'[i] = dest[i]
      BY <2>1, <2>4, AppendProperties
    <2>6. \A m : Past(m) => Past(m)'
      <3>. SUFFICES ASSUME NEW m, Past(m), n + 1 >= 4  PROVE dest'[4] # Gen(m)
        BY <2>1, <2>5 DEF Past
      <3>1. CASE n >= 4
        <4>1. 4 \in 1 .. n
          BY <2>1, <3>1
        <4>. QED  BY <2>5, <3>1, <4>1 DEF Past
      <3>2. CASE n = 3
        <4>1. dest'[4] = Gen(e)
          BY <2>3, <2>5, <3>2 DEF c
        <4>2. Num(m) < Num(e) /\ Num(m) \in Nat
          BY <2>1, <2>3, Numbers DEF Past
        <4>3. Gen(m) # Gen(e)
          BY <1>0, <2>3, <4>2 DEF Num
        <4>. QED  BY <4>1, <4>3
      <3>3. n >= 4 \/ n = 3
        <4>1. \A l \in Nat : l + 1 >= 4 => l >= 4 \/ l = 3
          OBVIOUS
        <4>2. n \in Nat
          BY <2>1
        <4>. HIDE DEF n
        <4>. QED  BY <4>1, <4>2
      <3>. QED  BY <3>1, <3>2, <3>3
    <2>7. \A m : Current(m) => Current(m)'
      <3>. SUFFICES ASSUME NEW m, Current(m)  PROVE Current(m)'
        OBVIOUS
      <3>1. 2 \in 1 .. n
        BY <2>1 DEF Current
      <3>. QED  BY <2>1, <2>5, <3>1 DEF Current
    <2>8. Unpacked(x)'
      BY <2>1 DEF Unpacked
    <2>9. CalmInv(x)' /\ GoodInv(x)'
      BY <2>1 DEF CalmInv, GoodInv, Busy
    <2>10. Astray(x) => Astray(x)'
      BY <2>1, <2>6 DEF Astray
    <2>11. SoundInv(x)'
      BY <2>1, <2>6, <2>7, <2>10 DEF SoundInv, Busy
    <2>. QED  BY <2>8, <2>9, <2>11
  <1>5. CASE Finish
    <2>. DEFINE n == Len(dest)
    <2>1. /\ dest \in Seq(Cell) /\ n \in Nat /\ n = Len(Body) /\ w.pc = "fill"
          /\ dest' = Append(dest, Checksum(dest)) /\ \A i \in 1 .. n : dest[i] = Body[i]
          /\ packs' = packs \cup {w.entries} /\ fit' = "whole" /\ UNCHANGED <<dumps, r>>
          /\ w'.pc = "idle" /\ Checksum(dest) \in Cell
      BY <1>0, <1>5, Wider DEF TypeOK, DestInv, Finish, Cell
    <2>2. PICK e \in Table : e = w.entries
      BY DEF TypeOK, Writer
    <2>3. n >= 6 /\ Body[2] = Manifest(e)
      BY <2>1, <2>2, BodyLaid
    <2>4. Len(dest') = n + 1 /\ \A i \in 1 .. n : dest'[i] = dest[i]
      BY <2>1, AppendProperties
    <2>5. \A m : Past(m) => Past(m)'
      <3>1. 4 \in 1 .. n
        BY <2>1, <2>3
      <3>. QED  BY <2>1, <2>3, <2>4, <3>1 DEF Past
    <2>6. \A m : Current(m) => m \in packs'
      <3>1. 2 \in 1 .. n
        BY <2>1, <2>3
      <3>2. dest[2] = Manifest(e)
        BY <2>1, <2>3, <3>1
      <3>. QED  BY <2>1, <2>2, <3>2, OneTable DEF Current
    <2>7. Unpacked(x)'
      BY <2>1 DEF Unpacked
    <2>8. CalmInv(x)' /\ GoodInv(x)'
      BY <2>1 DEF CalmInv, GoodInv, Busy
    <2>9. Astray(x) => Astray(x)'
      BY <2>1, <2>5 DEF Astray
    <2>10. SoundInv(x)'
      BY <2>1, <2>5, <2>6, <2>9 DEF SoundInv, Busy
    <2>. QED  BY <2>7, <2>8, <2>10
  <1>6. CASE Decay
    <2>1. fit = "whole" /\ fit' = "spoilt" /\ UNCHANGED <<w, packs>> /\ Len(dest') = Len(dest)
      <3>1. dest \in Seq(Cell) /\ dest' \in Seq(Cell)
        BY <1>6 DEF TypeOK, Decay
      <3>2. DOMAIN dest' = DOMAIN dest
        BY <1>6 DEF Decay
      <3>. QED  BY <1>6, <3>1, <3>2, LenProperties DEF Decay
    <2>2. /\ r'[x].pc = r[x].pc /\ r'[x].manifest = r[x].manifest /\ r'[x].total = r[x].total
          /\ r'[x].seen = r[x].seen /\ r'[x].out = r[x].out
          /\ r'[x].calm = r[x].calm /\ r'[x].sound = FALSE /\ r'[x].good = r[x].good
      <3>1. r'[x] = [r[x] EXCEPT !.sound = FALSE]
        BY <1>6 DEF Decay
      <3>. QED  BY <1>0, <3>1 DEF Reader
    <2>3. Unpacked(x)'
      BY <2>2 DEF Unpacked
    <2>4. SoundInv(x)' /\ GoodInv(x)'
      BY <2>2 DEF SoundInv, GoodInv
    <2>5. CalmInv(x)'
      BY <2>1, <2>2 DEF CalmInv, Busy
    <2>. QED  BY <2>3, <2>4, <2>5
  <1>. QED  BY <1>1, <1>2, <1>3, <1>4, <1>5, <1>6 DEF Writing

\* A reader's own steps: what it unpacks is what the manifest lists.
LEMMA UnpackedStep ==
    ASSUME TypeOK, NEW x \in Readers, Reading(x), Unpacked(x)
    PROVE  Unpacked(x)'
  <1>0. r[x] \in Reader
    BY DEF TypeOK
  <1>1. CASE Open(x)
    <2>1. r'[x].pc \in {"failed", "head"} /\ r'[x].seen = <<>> /\ r'[x].out = <<>>
      BY <1>1, Effects
    <2>. QED  BY <2>1 DEF Unpacked, Verified
  <1>2. CASE r'[x].pc = "failed"
    BY <1>2 DEF Unpacked, Verified
  <1>3. CASE ReadHead(x) \/ ReadTail(x) \/ VerifyNext(x)
    <2>1. \/ r'[x].pc = "failed"
          \/ /\ r'[x].pc \in {"tail", "verify"} /\ r'[x].out = r[x].out
             /\ r'[x].pc = "tail" => r[x].pc = "head" /\ r'[x].seen = r[x].seen
      BY <1>3, Effects DEF Failed, ReadHead
    <2>2. r[x].pc \in {"head", "tail", "verify"}
      BY <1>3 DEF ReadHead, ReadTail, VerifyNext
    <2>. QED  BY <1>2, <2>1, <2>2 DEF Unpacked, Verified
  <1>4. CASE VerifyEnd(x)
    <2>1. \/ r'[x].pc = "failed"
          \/ r'[x].pc = "entry" /\ r'[x].out = r[x].out /\ r'[x].manifest = r[x].manifest
      BY <1>4, Effects DEF Failed
    <2>2. r[x].out = <<>> /\ Len(r[x].manifest) \in Nat
      BY <1>0, <1>4 DEF Unpacked, VerifyEnd, Reader, Table
    <2>. QED  BY <1>2, <2>1, <2>2 DEF Unpacked, Verified
  <1>5. CASE ExtractHeader(x) \/ ExtractNext(x)
    <2>1. \/ r'[x].pc = "failed"
          \/ r'[x].pc = "data" /\ r'[x].out = r[x].out /\ r'[x].manifest = r[x].manifest
      BY <1>5, Effects DEF Failed
    <2>2. r[x].pc \in {"entry", "data"}
      BY <1>5 DEF ExtractHeader, ExtractNext
    <2>. QED  BY <1>2, <2>1, <2>2 DEF Unpacked, Verified
  <1>6. CASE ExtractEnd(x)
    <2>. DEFINE n == Len(r[x].out)
                m == r[x].manifest
    <2>1. \/ r'[x].pc = "failed"
          \/ r'[x].pc = "entry" /\ r'[x].out = Append(r[x].out, m[n + 1]) /\ r'[x].manifest = m
      BY <1>6, Effects DEF Failed
    <2>2. /\ n \in Nat /\ Len(m) \in Nat /\ n < Len(m) /\ r[x].out \in Table /\ m \in Table
          /\ \A k \in 1 .. n : r[x].out[k] = m[k]
      <3>1. r[x].out \in Table /\ m \in Table /\ r[x].pc = "data"
        BY <1>0, <1>6 DEF ExtractEnd, Reader
      <3>2. n < Len(m)
        BY <3>1 DEF TypeOK
      <3>3. \A k \in 1 .. n : r[x].out[k] = m[k]
        BY <3>1 DEF Unpacked, Verified
      <3>. QED  BY <3>1, <3>2, <3>3 DEF Table
    <2>3. m[n + 1] \in Entry
      BY <2>2 DEF Table
    <2>4. CASE r'[x].out = Append(r[x].out, m[n + 1]) /\ r'[x].manifest = m /\ r'[x].pc = "entry"
      <3>1. /\ Len(r'[x].out) = n + 1 /\ r'[x].out[n + 1] = m[n + 1]
            /\ \A k \in 1 .. n : r'[x].out[k] = r[x].out[k]
        BY <2>2, <2>3, <2>4, AppendProperties DEF Table
      <3>2. \A k \in 1 .. n + 1 : r'[x].out[k] = m[k]
        <4>. SUFFICES ASSUME NEW k \in 1 .. n + 1  PROVE r'[x].out[k] = m[k]
          OBVIOUS
        <4>1. k \in 1 .. n \/ k = n + 1
          BY <2>2
        <4>. QED  BY <2>2, <3>1, <4>1
      <3>. QED  BY <2>2, <2>4, <3>1, <3>2 DEF Unpacked
    <2>. QED  BY <1>2, <2>1, <2>4
  <1>7. CASE Extracted(x)
    <2>1. r'[x].pc = "done" /\ r'[x].out = r[x].out /\ r'[x].manifest = r[x].manifest
      BY <1>7, Effects
    <2>2. r[x].pc = "entry" /\ Len(r[x].out) = Len(r[x].manifest)
      BY <1>7 DEF Extracted
    <2>. QED  BY <2>1, <2>2 DEF Unpacked, Verified
  <1>. QED  BY <1>1, <1>3, <1>4, <1>5, <1>6, <1>7 DEF Reading

\* What has been read up to the checksum is what the file holds, while it stays
\* the same.
LEMMA CopyStep ==
    ASSUME TypeOK, NEW x \in Readers
    PROVE  /\ /\ ReadTail(x) /\ Unpacked(x) /\ r[x].total >= 4
              => r'[x].pc = "failed" \/ Copied(x)'
           /\ VerifyNext(x) /\ Copied(x) => r'[x].pc = "failed" \/ Copied(x)'
           /\ /\ VerifyEnd(x) /\ Copied(x) /\ r[x].total = Len(dest) /\ dest \in Seq(Cell)
              /\ r'[x].pc # "failed"
              => /\ r[x].seen \in Seq(Cell) /\ Signed(r[x].seen) /\ Covers(r[x].seen)
                 /\ dest[Len(dest)][1] = "crc"
  <1>0. r[x] \in Reader /\ r[x].total \in Nat /\ r[x].seen \in Seq(Cell)
    BY DEF TypeOK, Reader
  <1>1. ASSUME ReadTail(x), Unpacked(x), r[x].total >= 4, r'[x].pc # "failed"
        PROVE  Copied(x)'
    <2>1. /\ r'[x].stored = dest[TrailerAt(r[x].total) + 1] /\ r'[x].seen = r[x].seen
          /\ r'[x].total = r[x].total
      BY <1>1, Effects DEF Failed, Opened
    <2>2. TrailerAt(r[x].total) + 1 = r[x].total
      BY <1>0, <1>1 DEF TrailerAt
    <2>3. r[x].seen = <<>> /\ dest' = dest
      BY <1>1 DEF Unpacked, ReadTail, ReaderStep
    <2>4. r'[x].stored = dest'[r'[x].total] /\ r'[x].seen = <<>> /\ r'[x].total >= 4 /\ r'[x].total \in Nat
      BY <1>0, <1>1, <2>1, <2>2, <2>3
    <2>5. Len(r'[x].seen) = 0
      BY <2>4
    <2>. QED  BY <2>4, <2>5 DEF Copied
  <1>2. ASSUME VerifyNext(x), Copied(x), r'[x].pc # "failed"
        PROVE  Copied(x)'
    <2>. DEFINE n == Len(r[x].seen)
    <2>1. /\ Has(n + 1) /\ r'[x].seen = Append(r[x].seen, dest[n + 1]) /\ r'[x].stored = r[x].stored
          /\ r'[x].total = r[x].total
      BY <1>2, Effects DEF Failed, Opened
    <2>2. dest' = dest /\ n + 1 < r[x].total /\ n \in Nat /\ dest \in Seq(Cell)
      BY <1>0, <1>2 DEF VerifyNext, ReaderStep, TypeOK
    <2>3. dest[n + 1] \in Cell
      BY <2>1, <2>2 DEF Has
    <2>4. /\ Len(r'[x].seen) = n + 1 /\ r'[x].seen[n + 1] = dest[n + 1]
          /\ \A i \in 1 .. n : r'[x].seen[i] = r[x].seen[i]
      BY <1>0, <2>1, <2>3, AppendProperties
    <2>5. \A i \in 1 .. n : r[x].seen[i] = dest[i]
      BY <1>2 DEF Copied
    <2>6. ASSUME NEW i \in 1 .. n + 1  PROVE r'[x].seen[i] = dest[i]
      <3>. HIDE DEF n
      <3>1. i \in 1 .. n \/ i = n + 1
        BY <2>2
      <3>2. CASE i \in 1 .. n
        BY <2>4, <2>5, <3>2
      <3>3. CASE i = n + 1
        BY <2>4, <3>3
      <3>. QED  BY <3>1, <3>2, <3>3
    <2>. QED  BY <1>2, <2>1, <2>2, <2>4, <2>6 DEF Copied
  <1>3. ASSUME VerifyEnd(x), Copied(x), r[x].total = Len(dest), dest \in Seq(Cell),
               r'[x].pc # "failed"
        PROVE  Signed(r[x].seen) /\ Covers(r[x].seen) /\ dest[Len(dest)][1] = "crc"
    <2>1. Sums(r[x].seen, r[x].stored)
      BY <1>3, Effects DEF Failed
    <2>2. Signed(r[x].seen)
      BY <1>3, <2>1 DEF Sums, Copied, Signed
    <2>3. Len(r[x].seen) = Len(dest) - 1
      <3>. DEFINE n == Len(r[x].seen)
                  t == r[x].total
      <3>1. n \in Nat /\ t \in Nat /\ n < t /\ n + 1 >= t
        BY <1>0, <1>3 DEF Copied, VerifyEnd
      <3>. HIDE DEF n, t
      <3>2. n = t - 1
        BY <3>1
      <3>. QED  BY <1>3, <3>2 DEF n, t
    <2>4. Covers(r[x].seen)
      BY <1>3, <2>3 DEF Covers, Copied
    <2>. QED  BY <2>2, <2>4, Tags DEF Signed
  <1>. QED  BY <1>0, <1>1, <1>2, <1>3

\* A reader's own steps, while the file is not rewritten.
LEMMA CalmStep ==
    ASSUME TypeOK, DestInv, NEW x \in Readers, Reading(x), Unpacked(x), CalmInv(x)
    PROVE  CalmInv(x)'
  <1>0. r[x] \in Reader /\ UNCHANGED <<dest, w, packs, fit>> /\ ~Virgin
    BY ReaderFrame DEF TypeOK
  <1>1. CASE Open(x)
    <2>1. /\ r'[x].pc = IF Len(dest) < 4 THEN "failed" ELSE "head"
          /\ r'[x].total = Len(dest) /\ r'[x].calm = (w.pc # "fill") /\ r'[x].good = (fit = "whole")
      BY <1>1, Effects
    <2>2. Len(dest) \in Nat
      BY <1>1 DEF Open, TypeOK
    <2>3. Busy(x)' => r'[x].pc = "head" /\ r'[x].total >= 4
      BY <2>1, <2>2 DEF Busy
    <2>. QED  BY <1>0, <2>1, <2>3 DEF CalmInv, Verified, Manifested
  <1>2. CASE r'[x].pc = "failed"
    BY <1>2 DEF CalmInv, Busy
  <1>3. ASSUME ~Open(x), r'[x].pc # "failed", r'[x].calm
        PROVE  CalmInv(x)'
    <2>1. Opened(r[x], r'[x]) /\ Busy(x)
      BY <1>3, Effects DEF Reading, Failed, Busy, ReadHead, ReadTail, VerifyNext, VerifyEnd,
            ExtractHeader, ExtractNext, ExtractEnd, Extracted
    <2>2. /\ w.pc # "fill" /\ r[x].total = Len(dest) /\ r[x].total >= 4 /\ dest \in Seq(Cell)
          /\ r'[x].total = r[x].total /\ r'[x].calm /\ r[x].calm /\ r'[x].good = r[x].good
      BY <1>0, <1>3, <2>1 DEF CalmInv, Opened, DestInv
    <2>3. CASE ReadHead(x)
      <3>1. Has(2) /\ dest[2][1] = "manifest" /\ r'[x].pc = "tail" /\ r'[x].manifest = dest[2][2]
        BY <1>3, <2>3, Effects DEF Failed
      <3>2. ~r[x].good => fit # "whole"
        BY <2>1, <2>2 DEF CalmInv
      <3>3. ASSUME r[x].good
            PROVE  fit # "torn" /\ (r'[x].manifest \in packs \/ (fit = "spoilt" /\ Blank))
        <4>1. fit = "whole" \/ fit = "spoilt"
          BY <2>1, <2>2, <3>3 DEF CalmInv, TypeOK
        <4>2. CASE fit = "whole"
          <5>1. PICK e \in Table : WholeAs(e)
            BY <4>2 DEF DestInv
          <5>2. e \in packs /\ dest[2] = Manifest(e)
            BY <5>1 DEF WholeAs, Begun
          <5>. QED  BY <3>1, <4>2, <5>2, Tags
        <4>3. CASE fit = "spoilt"
          <5>1. dest[2] \in Cell
            BY <2>2, <3>1 DEF Has
          <5>2. PICK e \in Table : dest[2] = Manifest(e)
            BY <3>1, <5>1, Sorts
          <5>3. r'[x].manifest = e
            BY <3>1, <5>2, Tags
          <5>. QED  BY <4>3, <5>2, <5>3 DEF DestInv, SpoiltFile
        <4>. QED  BY <4>1, <4>2, <4>3
      <3>4. Blank' <=> Blank
        BY <1>0 DEF Blank, Signed
      <3>. QED  BY <1>0, <2>2, <3>1, <3>2, <3>3, <3>4 DEF CalmInv, Verified
    <2>4. Blank' <=> Blank
      BY <1>0 DEF Blank, Signed
    <2>5. CASE ReadTail(x)
      <3>1. Copied(x)'
        BY <1>3, <2>2, <2>5, CopyStep
      <3>2. r'[x].pc = "verify" /\ r'[x].manifest = r[x].manifest /\ r[x].pc = "tail"
        BY <1>3, <2>5, Effects DEF Failed, ReadTail
      <3>. QED  BY <1>0, <2>1, <2>2, <2>4, <3>1, <3>2 DEF CalmInv, Verified, Manifested
    <2>6. CASE VerifyNext(x)
      <3>1. Copied(x) => Copied(x)'
        BY <1>3, <2>6, CopyStep
      <3>2. r'[x].pc = "verify" /\ r'[x].manifest = r[x].manifest /\ r[x].pc = "verify"
        BY <1>3, <2>6, Effects DEF Failed, VerifyNext
      <3>. QED  BY <1>0, <2>1, <2>2, <2>4, <3>1, <3>2 DEF CalmInv, Verified, Manifested
    <2>7. CASE VerifyEnd(x)
      <3>1. r'[x].pc = "entry" /\ r'[x].manifest = r[x].manifest /\ r[x].pc = "verify"
        BY <1>3, <2>7, Effects DEF Failed, VerifyEnd
      <3>2. Copied(x) => /\ r[x].seen \in Seq(Cell) /\ Signed(r[x].seen) /\ Covers(r[x].seen)
                         /\ dest[Len(dest)][1] = "crc"
        BY <1>3, <2>2, <2>7, CopyStep
      <3>3. r[x].good
        <4>. SUFFICES ASSUME ~r[x].good  PROVE FALSE
          OBVIOUS
        <4>1. fit \in {"torn", "spoilt"} /\ Copied(x)
          BY <2>1, <2>2, <3>1 DEF CalmInv, TypeOK
        <4>2. CASE fit = "torn"
          <5>1. dest \in Seq(Plain)
            BY <1>0, <4>2 DEF DestInv
          <5>2. dest[Len(dest)] \in Plain
            BY <2>2, <5>1
          <5>. QED  BY <3>2, <4>1, <5>2, Sorts
        <4>3. CASE fit = "spoilt"
          BY <3>2, <4>1, <4>3 DEF DestInv, SpoiltFile
        <4>. QED  BY <4>1, <4>2, <4>3
      <3>4. ~(Blank /\ Copied(x))
        <4>. SUFFICES ASSUME Blank, Copied(x)  PROVE FALSE
          OBVIOUS
        <4>1. 2 \in 1 .. Len(r[x].seen)
          BY <2>2, <3>2 DEF Covers
        <4>2. r[x].seen[2] = dest[2]
          BY <3>2, <4>1 DEF Covers
        <4>. QED  BY <3>2, <4>2 DEF Blank
      <3>5. fit # "torn" /\ r[x].manifest \in packs
        BY <2>1, <2>2, <3>1, <3>3, <3>4 DEF CalmInv, Manifested
      <3>. QED  BY <1>0, <2>2, <3>1, <3>3, <3>5 DEF CalmInv, Manifested
    <2>8. CASE ExtractHeader(x) \/ ExtractNext(x) \/ ExtractEnd(x) \/ Extracted(x)
      <3>1. r'[x].pc \in Verified /\ r[x].pc \in Verified /\ r'[x].manifest = r[x].manifest
        BY <1>3, <2>8, Effects DEF Failed, ExtractHeader, ExtractNext, ExtractEnd, Extracted, Verified
      <3>. QED  BY <1>0, <2>1, <2>2, <2>4, <3>1 DEF CalmInv, Verified, Manifested
    <2>. QED  BY <1>3, <2>3, <2>5, <2>6, <2>7, <2>8 DEF Reading
  <1>4. CASE ~r'[x].calm
    BY <1>4 DEF CalmInv
  <1>. QED  BY <1>1, <1>2, <1>3, <1>4

\* A reader's own steps, while the disk gives back what was written.
LEMMA SoundStep ==
    ASSUME TypeOK, DestInv, NEW x \in Readers, Reading(x), Unpacked(x), SoundInv(x)
    PROVE  SoundInv(x)'
  <1>0. r[x] \in Reader /\ UNCHANGED <<dest, w, packs, fit, dumps>> /\ ~Virgin
    BY ReaderFrame DEF TypeOK
  <1>1. CASE Open(x)
    <2>1. r'[x].pc \in {"failed", "head"} /\ r'[x].sound = (fit # "spoilt")
      BY <1>1, Effects
    <2>. QED  BY <1>0, <2>1 DEF SoundInv
  <1>2. CASE r'[x].pc = "failed" \/ ~r'[x].sound
    BY <1>2 DEF SoundInv, Busy
  <1>3. ASSUME ~Open(x), r'[x].pc # "failed", r'[x].sound
        PROVE  SoundInv(x)'
    <2>1. Opened(r[x], r'[x]) /\ Busy(x)
      BY <1>3, Effects DEF Reading, Failed, Busy, ReadHead, ReadTail, VerifyNext, VerifyEnd,
            ExtractHeader, ExtractNext, ExtractEnd, Extracted
    <2>2. r[x].sound /\ fit # "spoilt" /\ fit' # "spoilt" /\ dest \in Seq(Cell) /\ packs' = packs
      BY <1>0, <1>3, <2>1 DEF SoundInv, Opened, DestInv
    <2>3. \A m : (Past(m) => Past(m)') /\ (Current(m) => Current(m)')
      BY <1>0 DEF Past, Current
    <2>4. CASE ReadHead(x)
      <3>1. Has(2) /\ r'[x].pc = "tail" /\ r'[x].manifest = dest[2][2]
        BY <1>3, <2>4, Effects DEF Failed
      <3>2. CASE fit = "whole"
        <4>1. PICK e \in Table : WholeAs(e)
          BY <3>2 DEF DestInv
        <4>2. e \in packs /\ dest[2] = Manifest(e)
          BY <4>1 DEF WholeAs, Begun
        <4>3. r'[x].manifest \in packs'
          BY <2>2, <3>1, <4>2, Tags
        <4>. QED  BY <2>2, <4>3 DEF SoundInv
      <3>3. CASE fit = "torn"
        <4>1. Len(dest) >= 2
          BY <2>2, <3>1 DEF Has
        <4>2. PICK e \in Table : Begun(e)
          BY <1>0, <3>3, <4>1 DEF DestInv
        <4>3. dest[2] = Manifest(e)
          BY <4>2 DEF Begun
        <4>4. Current(e)
          BY <3>3, <4>1, <4>3 DEF Current
        <4>5. r'[x].manifest = e
          BY <3>1, <4>3, Tags
        <4>. QED  BY <2>2, <2>3, <3>1, <4>4, <4>5 DEF SoundInv
      <3>. QED  BY <2>2, <3>2, <3>3 DEF TypeOK
    <2>5. PICK m \in Table : m = r[x].manifest
      BY <1>0 DEF Reader
    <2>6. CASE ReadTail(x)
      <3>1. /\ Has(TrailerAt(r[x].total) + 1) /\ r'[x].stored = dest[TrailerAt(r[x].total) + 1]
            /\ r'[x].pc = "verify" /\ r'[x].manifest = m /\ r[x].pc = "tail"
        BY <1>3, <2>5, <2>6, Effects DEF Failed, ReadTail
      <3>2. m \notin packs => Past(m) \/ Current(m)
        BY <2>1, <2>2, <2>5, <3>1 DEF SoundInv
      <3>3. Current(m) => r'[x].stored[1] # "crc"
        <4>. SUFFICES ASSUME Current(m)  PROVE r'[x].stored[1] # "crc"
          OBVIOUS
        <4>1. dest \in Seq(Plain)
          BY <1>0 DEF DestInv, Current
        <4>2. r'[x].stored \in Plain
          BY <3>1, <4>1 DEF Has
        <4>. QED  BY <4>2, Sorts
      <3>. QED  BY <2>2, <2>3, <3>1, <3>2, <3>3 DEF SoundInv
    <2>7. CASE VerifyNext(x)
      <3>1. r'[x].pc = "verify" /\ r'[x].manifest = m /\ r[x].pc = "verify" /\ r'[x].stored = r[x].stored
        BY <1>3, <2>5, <2>7, Effects DEF Failed, VerifyNext
      <3>2. m \notin packs => Past(m) \/ r[x].stored[1] # "crc"
        BY <2>1, <2>2, <2>5, <3>1 DEF SoundInv
      <3>. QED  BY <2>2, <2>3, <3>1, <3>2 DEF SoundInv
    <2>8. CASE VerifyEnd(x)
      <3>1. /\ r'[x].pc = "entry" /\ r'[x].manifest = m /\ r[x].pc = "verify" /\ r'[x].out = r[x].out
            /\ r'[x].pos = 3 /\ Sums(r[x].seen, r[x].stored)
        BY <1>3, <2>5, <2>8, Effects DEF Failed, VerifyEnd
      <3>2. r[x].stored[1] = "crc" /\ r[x].out = <<>>
        BY <3>1, Tags DEF Sums, Unpacked
      <3>3. m \notin packs => Past(m)
        BY <2>1, <2>2, <2>5, <3>1, <3>2 DEF SoundInv
      <3>4. m \notin packs => Astray(x)'
        BY <2>3, <3>1, <3>2, <3>3 DEF Astray
      <3>. QED  BY <2>2, <3>1, <3>4 DEF SoundInv
    <2>9. m \in packs \/ r[x].pc \notin {"entry", "data"} \/ (Past(m) /\ r[x].out = <<>>)
      BY <2>1, <2>2, <2>5 DEF SoundInv, Astray
    <2>10. CASE ExtractHeader(x)
      <3>1. /\ r'[x].pc = "data" /\ r'[x].manifest = m /\ r[x].pc = "entry" /\ r'[x].out = r[x].out
            /\ r'[x].pos = r[x].pos + 1 /\ r'[x].seen = <<>>
        BY <1>3, <2>5, <2>10, Effects DEF Failed, ExtractHeader
      <3>2. m \notin packs => r[x].pos = 3
        BY <2>1, <2>2, <2>5, <3>1 DEF SoundInv, Astray
      <3>3. Len(r'[x].seen) = 0
        BY <3>1
      <3>4. m \notin packs => Astray(x)'
        BY <2>3, <2>9, <3>1, <3>2, <3>3 DEF Astray
      <3>. QED  BY <2>2, <3>1, <3>4 DEF SoundInv
    <2>11. CASE ExtractNext(x)
      <3>. DEFINE n == Len(r[x].seen)
                  c == dest[r[x].pos]
      <3>1. /\ r'[x].pc = "data" /\ r'[x].manifest = m /\ r[x].pc = "data" /\ r'[x].out = r[x].out
            /\ r'[x].pos = r[x].pos + 1 /\ r'[x].seen = Append(r[x].seen, c) /\ Has(r[x].pos)
        BY <1>3, <2>5, <2>11, Effects DEF Failed, ExtractNext
      <3>2. r[x].seen \in Seq(Cell) /\ n \in Nat /\ c \in Cell /\ r[x].pos \in Nat
        BY <1>0, <2>2, <3>1 DEF Has, Reader
      <3>3. /\ Len(r'[x].seen) = n + 1 /\ r'[x].seen[n + 1] = c
            /\ \A i \in 1 .. n : r'[x].seen[i] = r[x].seen[i]
        BY <3>1, <3>2, AppendProperties
      <3>4. ASSUME m \notin packs
            PROVE  Astray(x)'
        <4>1. r[x].pos = 4 + n /\ (n > 0 => r[x].seen[1] # Gen(m)) /\ Past(m) /\ r[x].out = <<>>
          BY <2>1, <2>2, <2>5, <3>1, <3>4 DEF SoundInv, Astray
        <4>2. CASE n = 0
          <5>1. Len(dest) >= 4 /\ c = dest[4]
            BY <2>2, <3>1, <4>1, <4>2 DEF Has
          <5>2. c # Gen(m)
            BY <4>1, <5>1 DEF Past
          <5>3. r'[x].seen[1] # Gen(m)
            BY <3>3, <4>2, <5>2
          <5>. QED  BY <2>3, <3>1, <3>2, <3>3, <4>1, <5>3 DEF Astray
        <4>3. CASE n > 0
          <5>1. 1 \in 1 .. n
            BY <3>2, <4>3
          <5>2. r'[x].seen[1] # Gen(m)
            BY <3>3, <4>1, <4>3, <5>1
          <5>. QED  BY <2>3, <3>1, <3>2, <3>3, <4>1, <5>2 DEF Astray
        <4>. QED  BY <3>2, <4>2, <4>3
      <3>. QED  BY <2>2, <3>1, <3>4 DEF SoundInv
    <2>12. CASE ExtractEnd(x)
      <3>1. /\ r'[x].pc = "entry" /\ r'[x].manifest = m /\ r[x].pc = "data"
            /\ r[x].seen = m[Len(r[x].out) + 1].crc
        BY <1>3, <2>5, <2>12, Effects DEF Failed, ExtractEnd, EntrySums
      <3>2. m \in packs
        <4>. SUFFICES ASSUME m \notin packs  PROVE FALSE
          OBVIOUS
        <4>1. /\ Past(m) /\ r[x].out = <<>>
              /\ Len(r[x].seen) > 0 => r[x].seen[1] # Gen(m)
          BY <2>1, <2>2, <2>5, <3>1 DEF SoundInv, Astray
        <4>2. r[x].seen = m[1].crc
          <5>1. Len(r[x].out) + 1 = 1
            BY <4>1
          <5>. QED  BY <3>1, <5>1
        <4>3. Fine(m) /\ 1 \in 1 .. Len(m) /\ m[1].len > 0
          BY <4>1 DEF Past, Proper
        <4>4. Len(r[x].seen) > 0
          BY <4>2, <4>3, EntryTypes
        <4>. QED  BY <4>1, <4>2, <4>4 DEF Gen
      <3>. QED  BY <2>2, <3>1, <3>2 DEF SoundInv
    <2>13. CASE Extracted(x)
      <3>1. r'[x].manifest = m /\ Len(r[x].out) = Len(m) /\ r[x].pc = "entry"
        BY <2>5, <2>13, Effects DEF Extracted
      <3>2. m \in packs
        <4>. SUFFICES ASSUME m \notin packs  PROVE FALSE
          OBVIOUS
        <4>1. Len(m) = 2 /\ r[x].out = <<>>
          BY <2>9, <3>1 DEF Past, Proper
        <4>. QED  BY <3>1, <4>1
      <3>. QED  BY <2>2, <3>1, <3>2 DEF SoundInv
    <2>. QED  BY <1>3, <2>4, <2>6, <2>7, <2>8, <2>10, <2>11, <2>12, <2>13 DEF Reading
  <1>. QED  BY <1>1, <1>2, <1>3

\* A reader's own steps, while the file stays what a finished writer left.
LEMMA GoodStep ==
    ASSUME TypeOK, DestInv, NEW x \in Readers, Reading(x), Unpacked(x), GoodInv(x)
    PROVE  GoodInv(x)'
  <1>0. r[x] \in Reader /\ UNCHANGED <<dest, w, packs, fit, dumps>> /\ ~Virgin
    BY ReaderFrame DEF TypeOK
  <1>. SUFFICES ASSUME r'[x].calm, r'[x].sound, r'[x].good  PROVE GoodInv(x)'
    BY DEF GoodInv
  <1>1. ASSUME fit = "whole"
        PROVE  \E e \in Table :
                  /\ WholeAs(e) /\ Fine(e) /\ Len(e) = 2 /\ Room(e) \in Nat
                  /\ Len(dest) = Room(e) + 4 /\ dest \in Seq(Cell)
                  /\ dest[2] = Manifest(e) /\ Laid(dest, 2, e)
    <2>1. PICK e \in Table : WholeAs(e)
      BY <1>1 DEF DestInv
    <2>2. Fine(e) /\ Len(e) = 2
      BY <2>1 DEF WholeAs, Begun, Proper
    <2>3. Room(e) \in Nat
      BY <2>2, EntryTypes
    <2>. QED  BY <1>0, <2>1, <2>2, <2>3 DEF DestInv, WholeAs, Begun
  <1>2. CASE Open(x)
    <2>1. /\ r'[x].pc = IF Len(dest) < 4 THEN "failed" ELSE "head"
          /\ r'[x].total = Len(dest) /\ w.pc # "fill" /\ fit = "whole"
      BY <1>2, Effects
    <2>2. ~(Len(dest) < 4)
      BY <1>1, <2>1
    <2>. QED  BY <1>0, <2>1, <2>2 DEF GoodInv, Manifested
  <1>3. ASSUME ~Open(x)
        PROVE  GoodInv(x)'
    <2>1. Opened(r[x], r'[x]) /\ r[x].pc # "unopened"
      BY <1>3, Effects DEF Reading, Failed, ReadHead, ReadTail, VerifyNext, VerifyEnd,
            ExtractHeader, ExtractNext, ExtractEnd, Extracted
    <2>2. /\ r[x].calm /\ r[x].sound /\ r[x].good
          /\ fit = "whole" /\ w.pc # "fill" /\ r[x].total = Len(dest)
          /\ fit' = "whole" /\ w'.pc # "fill" /\ r'[x].total = Len(dest') /\ dest' = dest
      BY <1>0, <2>1 DEF GoodInv, Opened
    <2>3. PICK e \in Table :
                  /\ WholeAs(e) /\ Fine(e) /\ Len(e) = 2 /\ Room(e) \in Nat
                  /\ Len(dest) = Room(e) + 4 /\ dest \in Seq(Cell)
                  /\ dest[2] = Manifest(e) /\ Laid(dest, 2, e)
      BY <1>1, <2>2
    <2>4. r[x].pc \in Manifested => r[x].manifest = e
      BY <2>1, <2>2, <2>3, OneTable DEF GoodInv
    <2>5. \A i \in Nat \ {0} : i <= Room(e) + 4 => Has(i)
      BY <2>3 DEF Has
    <2>6. CASE ReadHead(x)
      <3>1. Has(2) /\ dest[1] = Magic /\ dest[2][1] = "manifest" /\ dest[2][2] = e
        BY <2>3, <2>5, Tags DEF WholeAs
      <3>2. r'[x].pc = "tail" /\ r'[x].manifest = e
        BY <2>6, <3>1, Effects
      <3>. QED  BY <2>2, <2>3, <3>2 DEF GoodInv
    <2>7. CASE ReadTail(x)
      <3>1. TrailerAt(r[x].total) = Len(dest) - 1 /\ TrailerAt(r[x].total) + 1 = Room(e) + 4
        BY <2>2, <2>3 DEF TrailerAt
      <3>2. Has(TrailerAt(r[x].total) + 1)
        BY <2>3, <2>5, <3>1
      <3>3. dest[TrailerAt(r[x].total)] = Trailer
        BY <2>3, <3>1 DEF WholeAs
      <3>4. r'[x].pc = "verify" /\ r'[x].manifest = r[x].manifest /\ r[x].pc = "tail"
        BY <2>7, <3>2, <3>3, Effects DEF ReadTail
      <3>5. Copied(x)'
        <4>1. r[x].total >= 4
          BY <2>2, <2>3
        <4>. QED  BY <2>7, <3>4, <4>1, CopyStep
      <3>. QED  BY <2>2, <2>3, <2>4, <3>4, <3>5 DEF GoodInv, Manifested
    <2>8. CASE VerifyNext(x)
      <3>1. Has(Len(r[x].seen) + 1)
        <4>1. Len(r[x].seen) \in Nat /\ Len(r[x].seen) + 1 < Room(e) + 4
          BY <1>0, <2>2, <2>3, <2>8 DEF VerifyNext, Reader
        <4>. QED  BY <2>3, <2>5, <4>1
      <3>2. r'[x].pc = "verify" /\ r'[x].manifest = r[x].manifest /\ r[x].pc = "verify"
        BY <2>8, <3>1, Effects DEF VerifyNext
      <3>3. Copied(x)'
        BY <2>1, <2>2, <2>8, <3>2, CopyStep DEF GoodInv
      <3>. QED  BY <2>2, <2>3, <2>4, <3>2, <3>3 DEF GoodInv, Manifested
    <2>9. CASE VerifyEnd(x)
      <3>1. Copied(x) /\ r[x].pc = "verify" /\ r[x].out = <<>>
        BY <2>1, <2>2, <2>9 DEF GoodInv, VerifyEnd, Unpacked
      <3>2. PICK s \in Seq(Plain) : Signed(s) /\ Covers(s)
        BY <2>3 DEF WholeAs
      <3>3. Len(r[x].seen) = Len(dest) - 1
        <4>. DEFINE n == Len(r[x].seen)
                    t == r[x].total
        <4>1. n \in Nat /\ t \in Nat /\ n < t /\ n + 1 >= t
          BY <1>0, <2>9, <3>1 DEF Copied, VerifyEnd, Reader
        <4>. HIDE DEF n, t
        <4>2. n = t - 1
          BY <4>1
        <4>. QED  BY <2>2, <4>2 DEF n, t
      <3>4. r[x].seen = s
        <4>1. s \in Seq(Cell) /\ r[x].seen \in Seq(Cell) /\ Len(s) = Len(r[x].seen)
          BY <1>0, <3>2, <3>3, Wider DEF Covers, Reader
        <4>2. \A i \in 1 .. Len(s) : s[i] = r[x].seen[i]
          BY <3>1, <3>2, <4>1 DEF Covers, Copied
        <4>. QED  BY <4>1, <4>2, SeqEqual
      <3>5. Sums(r[x].seen, r[x].stored)
        BY <2>2, <3>1, <3>2, <3>4 DEF Sums, Copied, Signed
      <3>6. /\ r'[x].pc = "entry" /\ r'[x].manifest = r[x].manifest /\ r'[x].pos = 3
            /\ r'[x].out = <<>>
        BY <2>9, <3>1, <3>5, Effects
      <3>7. Len(r'[x].out) + 1 = 1
        BY <3>6
      <3>8. r'[x].pos = 2 + Start(r'[x].manifest, Len(r'[x].out) + 1)
        BY <3>6, <3>7 DEF Start
      <3>. QED  BY <2>2, <2>3, <2>4, <3>1, <3>6, <3>8 DEF GoodInv, Manifested
    <2>. DEFINE k == Len(r[x].out) + 1
                a == Start(e, k)
                len == e[k].len
                crc == e[k].crc
                n == Len(r[x].seen)
    <2>10. ASSUME r[x].pc \in {"entry", "data"}, Len(r[x].out) < 2
           PROVE  /\ k \in 1 .. Len(e) /\ (k = 1 \/ k = 2) /\ a \in Nat \ {0} /\ len \in Nat
                  /\ a + len <= Room(e) /\ crc \in Seq(Chunk) /\ Len(crc) = len
                  /\ Framed(dest, 2 + a, e[k].name, len, crc)
                  /\ r[x].manifest = e /\ r[x].seen \in Seq(Cell) /\ n \in Nat
      <3>1. k \in 1 .. Len(e) /\ r[x].seen \in Seq(Cell) /\ n \in Nat
        BY <1>0, <2>3, <2>10, SMTT(30) DEF Reader, Table
      <3>2. r[x].manifest = e
        BY <2>4, <2>10 DEF Manifested
      <3>3. /\ k = 1 \/ k = 2
            /\ a \in Nat \ {0} /\ len \in Nat
            /\ a + len <= Room(e) /\ crc \in Seq(Chunk) /\ Len(crc) = len
        BY <2>3, <3>1, EntryTypes
      <3>4. Framed(dest, 2 + a, e[k].name, len, crc)
        BY <2>3, <3>1 DEF Laid
      <3>. QED  BY <3>1, <3>2, <3>3, <3>4
    <2>11. CASE ExtractHeader(x)
      <3>1. r[x].pc = "entry" /\ Len(r[x].out) < 2
        BY <2>3, <2>4, <2>11 DEF ExtractHeader, Manifested
      <3>2. r[x].manifest = e /\ r[x].pos = 2 + a
        BY <2>1, <2>2, <2>10, <3>1 DEF GoodInv
      <3>3. Has(r[x].pos)
        BY <2>3, <2>5, <2>10, <3>1, <3>2, SMTT(30)
      <3>4. dest[r[x].pos] = Header(r[x].manifest[k].name, r[x].manifest[k].len)
        BY <2>10, <3>1, <3>2 DEF Framed
      <3>5. /\ r'[x].pc = "data" /\ r'[x].seen = <<>> /\ r'[x].pos = r[x].pos + 1
            /\ r'[x].manifest = r[x].manifest /\ r'[x].out = r[x].out
        BY <2>11, <3>3, <3>4, Effects
      <3>6. Len(r'[x].seen) = 0 /\ r'[x].pos = 3 + a + 0
        BY <2>10, <3>1, <3>2, <3>5
      <3>. HIDE DEF a, len
      <3>7. r'[x].pos = 3 + a + Len(r'[x].seen) /\ Len(r'[x].seen) <= len
            /\ \A j \in 1 .. Len(r'[x].seen) : r'[x].seen[j] = r'[x].manifest[k].crc[j]
        BY <2>10, <3>1, <3>6
      <3>. USE DEF a, len
      <3>. QED  BY <2>2, <2>3, <3>2, <3>5, <3>7 DEF GoodInv
    <2>12. CASE ExtractNext(x)
      <3>1. r[x].pc = "data" /\ Len(r[x].out) < 2
        BY <2>3, <2>4, <2>12 DEF ExtractNext, Manifested, TypeOK
      <3>2. /\ r[x].manifest = e /\ r[x].pos = 3 + a + n /\ n < len
            /\ \A j \in 1 .. n : r[x].seen[j] = crc[j]
        BY <2>1, <2>2, <2>10, <2>12, <3>1 DEF GoodInv, ExtractNext
      <3>0. /\ n \in Nat /\ a \in Nat \ {0} /\ len \in Nat /\ Room(e) \in Nat /\ a + len <= Room(e)
            /\ Len(crc) = len /\ Framed(dest, 2 + a, e[k].name, len, crc)
        BY <2>3, <2>10, <3>1
      <3>. HIDE DEF n, a, len, crc
      <3>3. Has(r[x].pos)
        <4>1. 3 + a + n \in Nat \ {0} /\ 3 + a + n <= Room(e) + 4
          BY <3>0, <3>2
        <4>. QED  BY <2>5, <3>2, <4>1
      <3>4. dest[r[x].pos] = crc[n + 1]
        <4>1. n + 1 \in 1 .. Len(crc) /\ r[x].pos = 2 + a + (n + 1)
          BY <3>0, <3>2
        <4>. QED  BY <3>0, <4>1 DEF Framed
      <3>5. /\ r'[x].pc = "data" /\ r'[x].seen = Append(r[x].seen, dest[r[x].pos])
            /\ r'[x].pos = r[x].pos + 1
            /\ r'[x].manifest = r[x].manifest /\ r'[x].out = r[x].out
        BY <2>12, <3>3, Effects
      <3>6. dest[r[x].pos] \in Cell
        BY <2>3, <3>3 DEF Has
      <3>7. /\ Len(r'[x].seen) = n + 1 /\ r'[x].seen[n + 1] = crc[n + 1]
            /\ \A j \in 1 .. n : r'[x].seen[j] = r[x].seen[j]
        BY <2>10, <3>1, <3>4, <3>5, <3>6, AppendProperties DEF n
      <3>8. \A j \in 1 .. n + 1 : r'[x].seen[j] = crc[j]
        <4>. SUFFICES ASSUME NEW j \in 1 .. n + 1  PROVE r'[x].seen[j] = crc[j]
          OBVIOUS
        <4>1. j \in 1 .. n \/ j = n + 1
          BY <3>0
        <4>. QED  BY <3>2, <3>7, <4>1
      <3>9. r'[x].pos = 3 + a + Len(r'[x].seen) /\ Len(r'[x].seen) <= len
        BY <3>0, <3>2, <3>5, <3>7
      <3>10. \A j \in 1 .. Len(r'[x].seen) : r'[x].seen[j] = crc[j]
        BY <3>7, <3>8
      <3>11. r'[x].manifest = e /\ Len(r'[x].out) + 1 = k
        BY <3>2, <3>5
      <3>12. /\ r'[x].pos = 3 + Start(r'[x].manifest, Len(r'[x].out) + 1) + Len(r'[x].seen)
             /\ Len(r'[x].seen) <= r'[x].manifest[Len(r'[x].out) + 1].len
             /\ \A j \in 1 .. Len(r'[x].seen) :
                   r'[x].seen[j] = r'[x].manifest[Len(r'[x].out) + 1].crc[j]
        BY <3>9, <3>10, <3>11, Zenon DEF a, len, crc
      <3>13. /\ fit' = "whole" /\ w'.pc # "fill" /\ r'[x].total = Len(dest')
             /\ dest'[2] = Manifest(r'[x].manifest)
        BY <2>2, <2>3, <3>2, <3>5
      <3>. QED  BY <3>5, <3>12, <3>13 DEF GoodInv
    <2>13. CASE ExtractEnd(x)
      <3>1. r[x].pc = "data" /\ Len(r[x].out) < 2
        BY <2>3, <2>4, <2>13 DEF ExtractEnd, Manifested, TypeOK
      <3>2. /\ r[x].manifest = e /\ r[x].pos = 3 + a + n /\ n = len
            /\ \A j \in 1 .. n : r[x].seen[j] = crc[j]
        BY <2>1, <2>2, <2>10, <2>13, <3>1 DEF GoodInv, ExtractEnd
      <3>3. r[x].seen = crc
        <4>1. crc \in Seq(Cell) /\ r[x].seen \in Seq(Cell) /\ Len(r[x].seen) = Len(crc)
          BY <2>10, <3>1, <3>2, Wider
        <4>. QED  BY <3>2, <4>1, SeqEqual
      <3>4. EntrySums(r[x].seen, r[x].manifest[k].crc)
        BY <3>2, <3>3 DEF EntrySums
      <3>5. /\ r'[x].pc = "entry" /\ r'[x].pos = r[x].pos
            /\ r'[x].manifest = r[x].manifest /\ r'[x].out = Append(r[x].out, e[k])
        BY <2>13, <3>2, <3>4, Effects
      <3>6. Len(r'[x].out) = k
        <4>1. r[x].out \in Seq(Entry) /\ e[k] \in Entry
          <5>1. k \in 1 .. Len(e)
            BY <2>10, <3>1
          <5>2. r[x].out \in Seq(Entry)
            BY <1>0 DEF Reader, Table
          <5>. HIDE DEF k
          <5>3. e[k] \in Entry
            BY <2>3, <5>1, EntryTypes
          <5>. QED  BY <5>2, <5>3
        <4>. QED  BY <3>5, <4>1, AppendProperties
      <3>7. k < 2 => r'[x].pos = 2 + Start(e, k + 1)
        <4>. SUFFICES ASSUME k < 2  PROVE r'[x].pos = 2 + Start(e, k + 1)
          OBVIOUS
        <4>1. k = 1
          BY <2>10, <3>1
        <4>2. a = 1 /\ len = e[1].len /\ Start(e, k + 1) = 2 + e[1].len
          BY <4>1 DEF Start
        <4>. QED  BY <2>10, <3>1, <3>2, <3>5, <4>2, SMTT(30)
      <3>. QED  BY <2>2, <2>3, <3>2, <3>5, <3>6, <3>7 DEF GoodInv
    <2>14. CASE Extracted(x)
      <3>1. r'[x].pc = "done" /\ r'[x].manifest = e
        BY <2>4, <2>14, Effects DEF Extracted, Manifested
      <3>. QED  BY <2>2, <2>3, <3>1 DEF GoodInv
    <2>. QED  BY <1>3, <2>6, <2>7, <2>8, <2>9, <2>11, <2>12, <2>13, <2>14 DEF Reading
  <1>. QED  BY <1>2, <1>3

-----------------------------------------------------------------------------
(* The theorems *)

\* The inductive invariant: how the entries lie in the scratch file, what the
\* file holds, and what each reader knows.
LEMMA ReadAlways == Spec => [](TypeOK /\ Packing /\ DestInv /\ ReadInv)
  <1>1. Init => Packing /\ DestInv /\ ReadInv
    <2>. SUFFICES ASSUME Init  PROVE Packing /\ DestInv /\ ReadInv
      OBVIOUS
    <2>1. w.pc = "idle" /\ w.entries = <<>>
      BY DEF Init, Idle
    <2>2. Fine(<<>>)
      BY DEF Fine, Table
    <2>3. Packing
      BY <2>1, <2>2 DEF Packing
    <2>4. \A x \in Readers : r[x].pc = "unopened"
      BY DEF Init, Unopened
    <2>5. DestInv
      BY <2>1, <2>4 DEF Init, DestInv, Virgin
    <2>6. ReadInv
      BY <2>4 DEF ReadInv, Unpacked, CalmInv, SoundInv, GoodInv, Busy, Verified
    <2>. QED  BY <2>3, <2>5, <2>6
  <1>2. TypeOK /\ TypeOK' /\ Packing /\ DestInv /\ ReadInv /\ [Next]_vars
          => Packing' /\ DestInv' /\ ReadInv'
    <2>. SUFFICES ASSUME TypeOK, TypeOK', Packing, DestInv, ReadInv, [Next]_vars
                  PROVE  Packing' /\ DestInv' /\ ReadInv'
      OBVIOUS
    <2>1. Packing' /\ DestInv'
      BY PackingStep, DestStep
    <2>2. ASSUME NEW x \in Readers
          PROVE  Unpacked(x)' /\ CalmInv(x)' /\ SoundInv(x)' /\ GoodInv(x)'
      <3>1. Unpacked(x) /\ CalmInv(x) /\ SoundInv(x) /\ GoodInv(x)
        BY DEF ReadInv
      <3>2. CASE Grow \/ Writing \/ WriterFails \/ WriterKilled \/ Decay \/ UNCHANGED vars
        BY <3>1, <3>2, WriterReadStep
      <3>3. CASE Reading(x)
        BY <3>1, <3>3, UnpackedStep, CalmStep, SoundStep, GoodStep
      <3>4. ASSUME NEW y \in Readers, y # x, Reading(y)
            PROVE  Unpacked(x)' /\ CalmInv(x)' /\ SoundInv(x)' /\ GoodInv(x)'
        <4>1. UNCHANGED <<dest, w, packs, fit, dumps>> /\ r'[x] = r[x]
          BY <3>4, ReaderFrame
        <4>2. \A m : Past(m) => Past(m)'
          BY <4>1 DEF Past
        <4>. QED  BY <3>1, <4>1, <4>2, StillStep
      <3>. QED  BY <3>2, <3>3, <3>4 DEF Next
    <2>3. ReadInv'
      BY <2>2 DEF ReadInv
    <2>. QED  BY <2>1, <2>3
  <1>. QED  BY <1>1, <1>2, SnapshotTypeCorrect, PTL DEF Spec

\* A torn or spoilt file never gets past verify (snapshot.rs:487-489), for any
\* number of readers, checkpoints and failures.
THEOREM TornAlwaysRejected == Spec => []TornRejected
  <1>1. TypeOK /\ ReadInv => TornRejected
    BY DEF TypeOK, Reader, ReadInv, CalmInv, Busy, Verified, TornRejected
  <1>. QED  BY <1>1, ReadAlways, PTL

\* What a finished writer left is read back without an error, unless it is
\* rewritten or spoilt first.
THEOREM RoundTripAlways == Spec => []RoundTrip
  <1>1. ReadInv => RoundTrip
    BY DEF ReadInv, GoodInv, RoundTrip
  <1>. QED  BY <1>1, ReadAlways, PTL

\* What a restore unpacks is all of one finished snapshot, however the rewrites
\* fall between its reads (snapshot.rs:20-23).
THEOREM OnePackAlways == Spec => []UnpacksOnePack
  <1>1. TypeOK /\ ReadInv => UnpacksOnePack
    <2>. SUFFICES ASSUME TypeOK, ReadInv, NEW x \in Readers, r[x].pc = "done",
                         r[x].calm \/ r[x].sound
                  PROVE  r[x].out \in packs
      BY DEF UnpacksOnePack
    <2>1. r[x].out \in Table /\ r[x].manifest \in Table
      BY DEF TypeOK, Reader
    <2>2. r[x].out = r[x].manifest
      <3>1. /\ Len(r[x].out) = Len(r[x].manifest)
            /\ \A k \in 1 .. Len(r[x].out) : r[x].out[k] = r[x].manifest[k]
        BY DEF ReadInv, Unpacked, Verified
      <3>. QED  BY <2>1, <3>1, SeqEqual DEF Table
    <2>3. r[x].manifest \in packs
      BY DEF ReadInv, CalmInv, SoundInv, Busy, Verified, Manifested
    <2>. QED  BY <2>2, <2>3
  <1>. QED  BY <1>1, ReadAlways, PTL

=============================================================================
