------------------------------- MODULE Buffer -------------------------------
(***************************************************************************)
(* pallette/Buffer.cpp: a vector of bytes with a read and a write index    *)
(* and room for headers in front.  The operators work on a record          *)
(* [mem, read, write]; the state machine is one buffer in any use a caller *)
(* may make of it, against the sequence of bytes it stands for.  A byte is *)
(* 0..Base-1; memory that was never written holds Garbage.                 *)
(***************************************************************************)
EXTENDS Integers, Sequences

CONSTANTS
    KPrePrePend,    \* kPrePrePend, 8 in the code
    InitialSize,    \* kInitalSize, 1024 in the code
    ExtraSize,      \* sizeof(extraBuf) in readFd(), 65536 in the code
    Base,           \* how many values a byte has, 256 in the code
    MaxBytes        \* bound: readable bytes

ASSUME BufferAssumption ==
    /\ {KPrePrePend, ExtraSize} \subseteq Nat \ {0}
    /\ {InitialSize, MaxBytes} \subseteq Nat
    /\ Base \in {2 * k : k \in 2..128}    \* even, and 1 is a one-byte integer

Garbage == Base

NewBuffer == [mem |-> [i \in 1..(KPrePrePend + InitialSize) |-> Garbage],
              read |-> KPrePrePend, write |-> KPrePrePend]

Readable(b) == b.write - b.read
Writable(b) == Len(b.mem) - b.write

\* peek() and the bytes behind it; BuffertoString()
Contents(b) == SubSeq(b.mem, b.read + 1, b.write)

\* Bytes of data into the memory from index at on
Poke(mem, at, data) ==
    [i \in DOMAIN mem |-> IF i - at \in DOMAIN data THEN data[i - at] ELSE mem[i]]

RetrieveAll(b) == [b EXCEPT !.read = KPrePrePend, !.write = KPrePrePend]

\* retrieve(); retrieveUntil() and retrieveAsString() come down to it
Retrieve(b, len) == IF len < Readable(b) THEN [b EXCEPT !.read = @ + len] ELSE RetrieveAll(b)

-----------------------------------------------------------------------------
(* A wrong variant: the room kept in front is counted as room for data.     *)

TooLittleRoom(b, len) == Writable(b) + b.read < len

-----------------------------------------------------------------------------
\* makeSpace(): the data moves to the front; the vector grows when that is
\* not enough.  It asserts kPrePrePend <= readIndex_.
MustGrow(b, len) == Writable(b) + b.read < len + KPrePrePend

MakeSpace(b, len) ==
    LET moved == [b EXCEPT !.mem = Poke(@, KPrePrePend, Contents(b)),
                           !.read = KPrePrePend, !.write = KPrePrePend + Readable(b)]
    IN  IF MustGrow(b, len)
        THEN [moved EXCEPT !.mem = [i \in 1..(moved.write + len) |->
                                      IF i <= moved.write THEN moved.mem[i] ELSE Garbage]]
        ELSE moved

EnsureWritable(b, len) == IF Writable(b) < len THEN MakeSpace(b, len) ELSE b

AssertsInMakeSpace(b, len) == Writable(b) < len /\ b.read < KPrePrePend

\* append() and hasWritten()
AppendData(b, data) ==
    LET e == EnsureWritable(b, Len(data))
    IN  [e EXCEPT !.mem = Poke(@, e.write, data), !.write = @ + Len(data)]

\* prepend(), which has no check of its own
Prepend(b, data) ==
    [b EXCEPT !.mem = Poke(@, b.read - Len(data), data), !.read = @ - Len(data)]

\* readFd() when readv() returned data: what does not fit went to extraBuf
ReadFd(b, data) ==
    LET room == Writable(b)
        full == [b EXCEPT !.mem = Poke(@, b.write, SubSeq(data, 1, room)), !.write = Len(b.mem)]
    IN  IF Len(data) <= room
        THEN [b EXCEPT !.mem = Poke(@, b.write, data), !.write = @ + Len(data)]
        ELSE AppendData(full, SubSeq(data, room + 1, Len(data)))

\* How many integers n bytes can tell apart
Span(n) == LET power[k \in 0..n] == IF k = 0 THEN 1 ELSE Base * power[k - 1] IN power[n]

\* hostToNetwork: an n-byte integer, two's complement, most significant first;
\* peekInt and networkToHost: the way back
BytesOf(x, n) == [i \in 1..n |-> ((x + Span(n)) \div Span(n - i)) % Base]

IntOf(bytes) ==
    LET value[i \in 0..Len(bytes)] == IF i = 0 THEN 0 ELSE value[i - 1] * Base + bytes[i]
        v == value[Len(bytes)]
    IN  IF 2 * v >= Span(Len(bytes)) THEN v - Span(Len(bytes)) ELSE v

-----------------------------------------------------------------------------
VARIABLES
    buffer,         \* the Buffer
    content,        \* the bytes it stands for
    bufferOK        \* no assertion has failed, no read was wrong

bufferVars == <<buffer, content, bufferOK>>

BufferInit == buffer = NewBuffer /\ content = <<>> /\ bufferOK = TRUE

\* Data to write: n bytes that continue the numbering of those in the buffer
Fresh(n) == [i \in 1..n |-> (IF content = <<>> THEN i ELSE content[Len(content)] + i) % Base]

AppendBytes(n) ==
    /\ Len(content) + n <= MaxBytes
    /\ bufferOK' = ~AssertsInMakeSpace(buffer, n)
    /\ buffer' = IF bufferOK' THEN AppendData(buffer, Fresh(n)) ELSE buffer
    /\ content' = content \o Fresh(n)

\* prependInt8() ... prependInt64(), with room for the value as the callers have
PrependInt(n) ==
    /\ n <= buffer.read
    /\ Len(content) + n <= MaxBytes
    /\ \E x \in {0, 1, -1, Span(n) \div 2 - 1, -(Span(n) \div 2)} :
          /\ buffer' = Prepend(buffer, BytesOf(x, n))
          /\ content' = BytesOf(x, n) \o content
          /\ bufferOK' = (IntOf(SubSeq(Contents(buffer'), 1, n)) = x)

RetrieveBytes(n) ==
    /\ n <= Readable(buffer)
    /\ buffer' = Retrieve(buffer, n)
    /\ content' = SubSeq(content, n + 1, Len(content))
    /\ UNCHANGED bufferOK

\* readv() takes at most the room of the two vectors, of one if that is large.
ReadFromFd(n) ==
    /\ Len(content) + n <= MaxBytes
    /\ n <= Writable(buffer) + (IF Writable(buffer) < ExtraSize THEN ExtraSize ELSE 0)
    /\ bufferOK' = ~(n > Writable(buffer) /\ buffer.read < KPrePrePend)
    /\ buffer' = IF bufferOK' THEN ReadFd(buffer, Fresh(n)) ELSE buffer
    /\ content' = content \o Fresh(n)

BufferNext ==
    /\ bufferOK
    /\ \E n \in 1..MaxBytes :
          AppendBytes(n) \/ PrependInt(n) \/ RetrieveBytes(n) \/ ReadFromFd(n)

BufferSpec == BufferInit /\ [][BufferNext]_bufferVars

-----------------------------------------------------------------------------
\* The indices stay in order and the readable bytes are exactly those written
\* and not yet retrieved, however appends, header writes, socket reads that
\* overflow into extraBuf and partial retrievals alternate.  An assertion of
\* makeSpace() fails only when bytes are appended behind a header that was
\* already written in front.
BufferKeepsBytes ==
    /\ bufferOK => /\ buffer.read <= buffer.write /\ buffer.write <= Len(buffer.mem)
                   /\ Contents(buffer) = content
    /\ buffer.read >= KPrePrePend => bufferOK

=============================================================================
