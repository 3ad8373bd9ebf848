------------------------------ MODULE ShaBuffer ------------------------------
(***************************************************************************)
(* How SHA-256 and SHA-512 cut a message into blocks (core/hlm_sha256.c,   *)
(* core/hlm_sha512.c).  The compression function is a black box: what a    *)
(* context has computed is the sequence of blocks it was given.  Blocks,   *)
(* bytes and counter words are small, so that block boundaries and the     *)
(* carry of the SHA-512 length counter are met by short messages.          *)
(***************************************************************************)
EXTENDS Bits, Sequences

CONSTANTS BlockSize,    \* per hash: 64 and 128 bytes
          LengthBytes,  \* per hash: 8 and 16 bytes at the end of the last block
          WordBits      \* per hash: bits of a word of the length counter, 64

Hashes == {"sha256", "sha512"}

CounterWords(h) == IF h = "sha256" THEN 1 ELSE 2
WordBytes(h) == LengthBytes[h] \div CounterWords(h)
ByteWidth(h) == WordBits[h] \div WordBytes(h)

\* The counter's words fill the length field, and whole bytes fill a word.
ASSUME ShaAssumption == /\ {BlockSize, LengthBytes, WordBits} \subseteq [Hashes -> Nat \ {0}]
                        /\ \A h \in Hashes : /\ LengthBytes[h] < BlockSize[h] /\ WordBits[h] > 3
                                             /\ LengthBytes[h] = CounterWords(h) * WordBytes(h)
                                             /\ WordBits[h] = ByteWidth(h) * WordBytes(h)

WordBase(h) == TwoTo(WordBits[h])
PadByte == -1     \* 0x80, told apart from the bytes of a message

ShaInit(h) == [hash |-> h, blocks |-> <<>>, buf |-> <<>>, hi |-> 0, lo |-> 0]

\* Mutant: nothing is carried into the upper word.
CountBitsInOneWord(ctx, len) == [ctx EXCEPT !.lo = (@ + 8 * len) % WordBase(ctx.hash)]

\* SHA-256 counts the bits in one word, SHA-512 in two.
CountBits(ctx, len) ==
    LET h   == ctx.hash
        add == (8 * len) % WordBase(h)
        lo  == (ctx.lo + add) % WordBase(h)
    IN [ctx EXCEPT !.lo = lo,
                   !.hi = IF h = "sha256" THEN 0
                          ELSE @ + (IF lo < add THEN 1 ELSE 0) + (len \div TwoTo(WordBits[h] - 3))]

Compress(ctx, block) == [ctx EXCEPT !.blocks = Append(@, block)]

\* What is in the buffer is completed first.
FillBuffer(ctx, data) ==
    LET size == BlockSize[ctx.hash]
        room == size - Len(ctx.buf)
        fill == IF room > Len(data) THEN Len(data) ELSE room
        buf  == ctx.buf \o SubSeq(data, 1, fill)
    IN IF ctx.buf = <<>> THEN [ctx |-> ctx, rest |-> data]
       ELSE [ctx  |-> IF Len(buf) = size THEN [Compress(ctx, buf) EXCEPT !.buf = <<>>]
                      ELSE [ctx EXCEPT !.buf = buf],
             rest |-> SubSeq(data, fill + 1, Len(data))]

WholeBlocks(h, data) == Len(data) \div BlockSize[h]

\* Whole blocks are compressed where they lie; what remains is kept.
ShaUpdate(ctx, data) ==
    LET start == FillBuffer(CountBits(ctx, Len(data)), data)
        size  == BlockSize[ctx.hash]
        whole == WholeBlocks(ctx.hash, start.rest)
        left  == SubSeq(start.rest, whole * size + 1, Len(start.rest))
        done[i \in 0..whole] ==
            IF i = 0 THEN start.ctx
            ELSE Compress(done[i - 1], SubSeq(start.rest, (i - 1) * size + 1, i * size))
    IN IF left = <<>> THEN done[whole] ELSE [done[whole] EXCEPT !.buf = left]

LengthField(ctx) ==
    LET h     == ctx.hash
        words == IF h = "sha256" THEN <<ctx.lo>> ELSE <<ctx.hi, ctx.lo>>
        per   == WordBytes(h)
        width == ByteWidth(h)
    IN [i \in 1..LengthBytes[h] |->
            (words[(i - 1) \div per + 1] \div TwoTo(width * (per - 1 - ((i - 1) % per)))) % TwoTo(width)]

\* The padding goes through update, byte by byte, until only the length is missing.
ShaFinal(ctx) ==
    LET target == BlockSize[ctx.hash] - LengthBytes[ctx.hash]
        padded[k \in 0..BlockSize[ctx.hash]] ==
            IF k = 0 THEN ShaUpdate(ctx, <<PadByte>>)
            ELSE LET c == padded[k - 1] IN IF Len(c.buf) = target THEN c ELSE ShaUpdate(c, <<0>>)
    IN ShaUpdate(padded[BlockSize[ctx.hash]], LengthField(ctx)).blocks
=============================================================================
