------------------------------- MODULE Files -------------------------------
(***************************************************************************)
(* Reading: from a block of the drive to a file's content, a name of the   *)
(* root directory, and a whole file in a user's buffer.  Writing is here   *)
(* only as far as reading depends on it (Fat439.tla has the allocation):   *)
(* which cells of which blocks the content goes to, and the length that    *)
(* the file's first block begins with.                                     *)
(*                                                                         *)
(* A disk is its blocks and the FAT.  Block 0 is the super block, and 0 in *)
(* the FAT ends a chain.  A cell is a byte, and an int has Wide of them,   *)
(* the low one first: a header is 2 ints, an entry of a directory 4, a     *)
(* name and, in the last of them, the first block of the file.             *)
(***************************************************************************)
EXTENDS Integers, Sequences, SequencesExt

CONSTANTS BlockSize,
          Wide,          \* the bytes of an int: 4
          Junk           \* what a cell of the super block or the FAT holds

ASSUME FilesAssumption ==
    /\ Wide \in Nat \ {0} /\ BlockSize \in Nat \ 0 .. 2 * Wide
    /\ Junk \in Nat \ {0}

Zero == 0
Header == 2 * Wide
NameLen == 3 * Wide
EntrySize == 4 * Wide

Bytes(n) == [k \in 1 .. Wide |-> (n \div 256 ^ (k - 1)) % 256]
Number(cells) ==
    LET from[k \in 1 .. Len(cells) + 1] ==
          IF k > Len(cells) THEN 0 ELSE cells[k] + 256 * from[k + 1]
    IN  from[1]

Dot == <<46>>
NotFound == 0

ReadBlock(disk, b) == disk.block[b]

\* Mutant: only what there is goes to the drive.
WriteBlockShort(disk, b, data) == [disk EXCEPT !.block[b] = data]

(* What is shorter than a block is filled up with zeros.                   *)
WriteBlock(disk, b, data) ==
    [disk EXCEPT !.block[b] = data \o [k \in 1 .. BlockSize - Len(data) |-> Zero]]

(* BlockDevice::read: at most to the end of the block.                     *)
DeviceRead(disk, offset, n) ==
    LET from == offset % BlockSize
    IN  SubSeq(ReadBlock(disk, offset \div BlockSize),
               from + 1, from + Min({n, BlockSize - from}))

BlockReadFully(disk, offset, n) ==
    LET got[togo \in 0 .. n] ==
          IF togo = 0 THEN << >>
          ELSE LET piece == DeviceRead(disk, offset + n - togo, togo)
               IN  piece \o got[togo - Len(piece)]
    IN  got[n]

(* The block of a file that its position lies in: along the FAT, which is  *)
(* 0 at the end of the chain (and 0 from there on: fat[0] is 0).           *)
BlockOf(disk, start, k) == FoldLeft(LAMBDA b, j: disk.fat[b], start, [j \in 1 .. k |-> j])

(* OpenFile::read with the length that was read when it was opened.        *)
Read(disk, start, length, offset, n) ==
    LET at == offset + Header
    IN  DeviceRead(disk, (BlockOf(disk, start, at \div BlockSize) * BlockSize) + (at % BlockSize),
                   Min({n, length - offset}))

\* Mutant: every piece is read from where the first one was.
ReadFullyHere(disk, start, length, offset, n) ==
    LET got[togo \in 0 .. n] ==
          IF togo = 0 THEN << >>
          ELSE LET piece == Read(disk, start, length, offset, togo)
               IN  piece \o (IF piece = << >> THEN << >> ELSE got[togo - Len(piece)])
    IN  got[n]

(* The user's readFully, and File::readFully: File::read advances the      *)
(* offset by what it got.                                                  *)
ReadFully(disk, start, length, offset, n) ==
    LET got[togo \in 0 .. n] ==
          IF togo = 0 THEN << >>
          ELSE LET piece == Read(disk, start, length, offset + n - togo, togo)
               IN  piece \o (IF piece = << >> THEN << >> ELSE got[togo - Len(piece)])
    IN  IF offset > length THEN << >> ELSE got[n]

(* OpenFile::readFully, which the directory reads its entries with, moves  *)
(* the destination but not the offset: of an entry over the end of a block *)
(* it gets the first bytes again, where the others belong.                 *)
ReadEntry(disk, start, length, offset) ==
    LET got[togo \in 0 .. EntrySize] ==
          IF togo = 0 THEN << >>
          ELSE LET piece == Read(disk, start, length, offset, togo)
               IN  piece \o (IF piece = << >> THEN << >> ELSE got[togo - Len(piece)])
    IN  got[EntrySize]

(* The length in the header.                                               *)
StoredLength(disk, start) ==
    Number(SubSeq(BlockReadFully(disk, start * BlockSize, Header), Wide + 1, Header))

(* A directory counts its entries when it is opened, the root at boot.     *)
CountEntries(disk, dir) == StoredLength(disk, dir) \div EntrySize

(* The name in an entry ends with its first 0, and has to have one.        *)
Matches(entry, name) ==
    \E k \in 1 .. NameLen :
        entry[k] = Zero /\ k = Len(name) + 1 /\ SubSeq(entry, 1, k - 1) = name

StartIn(entry) == Number(SubSeq(entry, NameLen + 1, EntrySize))

\* Mutant: the last entry is not looked at.
LookupButLast(disk, dir, name) ==
    LET length == StoredLength(disk, dir)
        hits == {i \in 1 .. CountEntries(disk, dir) - 1 :
                    Matches(ReadEntry(disk, dir, length, (i - 1) * EntrySize), name)}
    IN  IF hits = {} THEN NotFound
        ELSE StartIn(ReadEntry(disk, dir, length, (Min(hits) - 1) * EntrySize))

Lookup(disk, dir, name) ==
    LET length == StoredLength(disk, dir)
        hits == {i \in 1 .. CountEntries(disk, dir) :
                    Matches(ReadEntry(disk, dir, length, (i - 1) * EntrySize), name)}
    IN  IF name = Dot THEN dir
        ELSE IF hits = {} THEN NotFound
        ELSE StartIn(ReadEntry(disk, dir, length, (Min(hits) - 1) * EntrySize))

(* A content cut into blocks: the header and what fits behind it, then     *)
(* full blocks, the last one filled up.                                    *)
Image(content) == Bytes(2) \o Bytes(Len(content)) \o content
BlocksOf(content) == (Len(Image(content)) + BlockSize - 1) \div BlockSize

(* OpenFile::write on the blocks "chain" that Fat439 gave it.              *)
Write(disk, chain, content) ==
    LET n == BlocksOf(content)
        Piece(k) == SubSeq(Image(content), (k - 1) * BlockSize + 1,
                           Min({k * BlockSize, Len(Image(content))}))
        Put1(d, k) == WriteBlock(d, chain[k], Piece(k))
    IN  [FoldLeft(Put1, disk, [k \in 1 .. n |-> k]) EXCEPT
            !.fat = [b \in DOMAIN @ |->
                IF \E k \in 1 .. n : chain[k] = b
                THEN LET k == CHOOSE k \in 1 .. n : chain[k] = b
                     IN IF k < n THEN chain[k + 1] ELSE 0
                ELSE @[b]]]
=============================================================================
