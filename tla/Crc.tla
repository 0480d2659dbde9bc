-------------------------------- MODULE Crc --------------------------------
(***************************************************************************)
(* The hand-rolled, table-driven CRC-32 of snapshot.rs, on which the       *)
(* verification of snapshots and of migrated files rests, against long     *)
(* division of polynomials.  A 32-bit word is the set of its bits.         *)
(*                                                                         *)
(* A message arrives in pieces, as the copy loops of the snapshot writer   *)
(* feed them; beside it runs a copy damaged once in one piece.             *)
(***************************************************************************)
EXTENDS Naturals, SequencesExt

CONSTANTS
    Bytes,
    Damaged,    \* bounds the damaged stretch, in bytes
    MaxLength   \* bounds the message

ASSUME BytesAssumption == Bytes \subseteq 0..255

\* The register has four bytes.
ASSUME DamagedAssumption == Damaged \in 1..4

VARIABLES
    message,    \* what was fed so far
    crc,        \* the register of Crc32
    copy,       \* the damaged copy
    copyCrc

crcVars == <<message, crc, copy, copyCrc>>

Word == 0..31
Xor(a, b) == (a \ b) \cup (b \ a)
Shr(a, k) == {i - k : i \in {j \in a : j >= k}}
OfByte(b) == {i \in 0..7 : (b \div 2^i) % 2 = 1}

BrokenPoly == {31, 30, 29, 27, 26, 24, 23, 21, 20, 19, 15, 9, 8}

\* 0xEDB88320
Poly == {31, 30, 29, 27, 26, 24, 23, 21, 20, 19, 15, 9, 8, 5}

TableStep(c, i) == IF 0 \in c THEN Xor(Poly, Shr(c, 1)) ELSE Shr(c, 1)

CrcTable ==
    [low \in SUBSET (0..7) |-> FoldLeft(TableStep, low, [i \in 1..8 |-> i])]

BrokenUpdateByte(c, b) ==
    Xor(CrcTable[Xor(c, OfByte(b)) \cap (0..6)], Shr(c, 8))

UpdateByte(c, b) ==
    Xor(CrcTable[Xor(c, OfByte(b)) \cap (0..7)], Shr(c, 8))

Update(c, buf) == FoldLeft(UpdateByte, c, buf)

NewCrc == Word

Finish(c) == Xor(c, Word)

-----------------------------------------------------------------------------

Buffers == UNION {[1..n -> Bytes] : n \in 1..Damaged}

CrcInit ==
    /\ message = <<>> /\ crc = NewCrc
    /\ copy = <<>> /\ copyCrc = NewCrc

\* The next piece of the stream, the same in both.
Feed(buf) ==
    /\ Len(message) + Len(buf) <= MaxLength
    /\ message' = message \o buf
    /\ crc' = Update(crc, buf)
    /\ copy' = copy \o buf
    /\ copyCrc' = Update(copyCrc, buf)

\* The piece that is damaged in the copy.
Damage(buf, bad) ==
    /\ copy = message
    /\ Len(bad) = Len(buf) /\ bad # buf
    /\ Len(message) + Len(buf) <= MaxLength
    /\ message' = message \o buf
    /\ crc' = Update(crc, buf)
    /\ copy' = copy \o bad
    /\ copyCrc' = Update(copyCrc, bad)

CrcNext ==
    \E buf \in Buffers : Feed(buf) \/ \E bad \in Buffers : Damage(buf, bad)

CrcSpec == CrcInit /\ [][CrcNext]_crcVars

-----------------------------------------------------------------------------
(* Reference: the remainder of the message, the first bits inverted, by the  *)
(* generator polynomial; a polynomial is the set of its exponents.           *)

Generator == {32, 26, 23, 22, 16, 12, 11, 10, 8, 7, 5, 4, 2, 1, 0}

Dividend(m) ==
    LET n == 8 * Len(m)
        bits == {k \in 0..(n - 1) : (k % 8) \in OfByte(m[(k \div 8) + 1])}
    IN  Xor({n + 31 - k : k \in bits}, n..(n + 31))

Divide(p, degree) ==
    IF degree \in p THEN Xor(p, {degree - 32 + e : e \in Generator}) ELSE p

Remainder(p, n) == FoldLeft(Divide, p, [i \in 1..n |-> n + 32 - i])

Crc32(m) == Word \ {31 - e : e \in Remainder(Dividend(m), 8 * Len(m))}

(* Properties *)

\* However the message was cut into pieces, the register holds the CRC-32 of the
\* whole of it (snapshot.rs:48-91).
CrcCorrect == Finish(crc) = Crc32(message)

\* A stretch of damage no longer than the register is always detected,
\* whatever comes before and after it (snapshot.rs:510-516, 572-578).
DamageDetected == copy # message => Finish(copyCrc) # Finish(crc)
=============================================================================
