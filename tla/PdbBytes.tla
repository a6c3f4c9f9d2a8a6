------------------------------ MODULE PdbBytes ------------------------------
(***************************************************************************)
(* What the PDB reader makes of the bytes of a heap: byte_cursor.go,       *)
(* heap_ref.go, document_name.go and decompressEmbeddedSource of           *)
(* internal/pdb.  A heap is a sequence of bytes; an offset into it counts  *)
(* from 0, as in the file.  What is read is a value with the offset of     *)
(* what follows it, or nothing.                                            *)
(***************************************************************************)
EXTENDS Integers, Sequences, SequencesExt

Byte == 0..255

Nothing == [ok |-> FALSE]
Something(v, next) == [ok |-> TRUE, value |-> v, next |-> next]

\* ReadBytes; the reader may be anywhere, also behind the end.
ReadBytes(data, pos, n) ==
    IF pos + n > Len(data) THEN Nothing ELSE Something(SubSeq(data, pos + 1, pos + n), pos + n)

\* Mutant of CompressedValue: the mark of the two-byte form is not masked.
CompressedValueUnmasked(b) ==
    CASE Len(b) = 1 -> b[1]
      [] Len(b) = 2 -> b[1] * 2^8 + b[2]
      [] Len(b) = 4 -> (b[1] - 192) * 2^24 + b[2] * 2^16 + b[3] * 2^8 + b[4]

CompressedValue(b) ==
    CASE Len(b) = 1 -> b[1]
      [] Len(b) = 2 -> (b[1] - 128) * 2^8 + b[2]
      [] Len(b) = 4 -> (b[1] - 192) * 2^24 + b[2] * 2^16 + b[3] * 2^8 + b[4]

\* One, two or four bytes, by the leading bits 0, 10 and 110 of the first.
CompressedLength(first) ==
    CASE first < 128 -> 1
      [] first \in 128..191 -> 2
      [] first \in 192..223 -> 4
      [] first > 223 -> 0

ReadCompressedUint(data, pos) ==
    LET n == IF pos < Len(data) THEN CompressedLength(data[pos + 1]) ELSE 0
        all == ReadBytes(data, pos, n)
    IN IF n > 0 /\ all.ok THEN Something(CompressedValue(all.value), all.next) ELSE Nothing

readBlob(heap, pos) ==
    LET length == ReadCompressedUint(heap, pos)
    IN IF length.ok THEN ReadBytes(heap, length.next, length.value) ELSE Nothing

\* What is decoded of a name, up to the next reference or to an error.
PartialNames == {Nothing} \cup [ok : {TRUE}, value : Seq(Nat), next : Nat]

\* One turn of the loop, if there is another: a reference, the part it is to and
\* before it the separator, or 0 for none.
NextPart(heap, separator, refs, name) ==
    LET ref == ReadCompressedUint(refs, name.next)
        part == readBlob(heap, ref.value)
        glue == IF name.next > 0 /\ separator # 0 THEN <<separator>> ELSE <<>>
    IN IF ~name.ok \/ name.next = Len(refs) THEN name
       ELSE IF ref.ok /\ part.ok THEN Something(name.value \o glue \o part.value, ref.next)
       ELSE Nothing

\* A separator and references.  Each has a byte at least, which bounds the turns.
decodeDocumentName(heap, pos) ==
    LET content == readBlob(heap, pos)
        separator == content.value[1]
        refs == Tail(content.value)
        name[n \in 0..Len(refs)] ==
            IF n = 0 THEN Something(<<>>, 0)
            ELSE LET next[state \in PartialNames] == NextPart(heap, separator, refs, state)
                 IN next[name[n - 1]]
    IN IF ~content.ok THEN Nothing
       ELSE IF content.value = <<>> THEN Something(<<>>, content.next)
       ELSE IF separator > 127 THEN Nothing
       ELSE name[Len(refs)]

\* binary.LittleEndian.Uint32 as an int32.
Int32(b) == b[1] + b[2] * 2^8 + b[3] * 2^16 + (IF b[4] < 128 THEN b[4] ELSE b[4] - 256) * 2^24

\* compress/flate reads a stream to its end or to what is wrong with it.  Here a
\* stream is its contents between two marks, which like the damage are not bytes.
StreamStart == 256
StreamEnd == 257
Corrupt == 258
Deflate(content) == <<StreamStart>> \o content \o <<StreamEnd>>
Inflate(stream) ==
    IF stream = <<>> \/ stream[1] # StreamStart THEN <<>>
    ELSE LET stops == {i \in 2..Len(stream) : stream[i] \in {StreamEnd, Corrupt}}
         IN SubSeq(stream, 2, (IF stops = {} THEN Len(stream) + 1 ELSE Min(stops)) - 1)

\* decompressEmbeddedSource; make panics when the size is negative.
decompressEmbeddedSource(blob) ==
    LET size == Int32(blob)
        rest == SubSeq(blob, 5, Len(blob))
    IN CASE Len(blob) < 4 -> [outcome |-> "error"]
         [] Len(blob) >= 4 /\ size = 0 -> [outcome |-> "ok", source |-> rest]
         [] Len(blob) >= 4 /\ size < 0 -> [outcome |-> "panic"]
         [] Len(blob) >= 4 /\ size > 0 ->
                IF Len(Inflate(rest)) >= size
                THEN [outcome |-> "ok", source |-> SubSeq(Inflate(rest), 1, size)]
                ELSE [outcome |-> "error"]

=============================================================================
