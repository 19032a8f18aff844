-------------------------- MODULE Utilities_proofs --------------------------
(***************************************************************************)
(* Proofs about the utilities: the thread pool, the object pool, the file  *)
(* reader, the asynchronous log, the signal, the time zones, the dates and *)
(* base 64.                                                                *)
(***************************************************************************)
EXTENDS ThreadPool, ObjectPool, ReadSmallFile, AsyncLogging, SignalSlot, TimeZone, Date, Base64,
        SequenceTheorems, FiniteSetTheorems, WellFoundedInduction, TLAPS

-----------------------------------------------------------------------------
(* ObjectPool: ObjectsBounded for every maxSize_.  The property alone does  *)
(* not carry over a step: an empty pool grows by what is in use, so it must *)
(* be known that a pool never has nothing in it and nothing in use.         *)

ObjectsTyped ==
    /\ maxSize \in Nat \ {0}
    /\ useSize \in Nat /\ pooled \in Nat /\ given \in Nat
    /\ refused \in BOOLEAN /\ poolExists \in BOOLEAN

ObjectsInv ==
    /\ ObjectsTyped
    /\ poolExists => /\ useSize = given
                     /\ pooled + given \in 1..maxSize
                     /\ refused => given = maxSize

\* An empty pool that has not reached its maximum grows by at least one object,
\* and not beyond the maximum.
LEMMA GrowthFits ==
    ASSUME ObjectsInv, poolExists, pooled = 0, useSize < maxSize
    PROVE  Growth \in 1..(maxSize - useSize)
  BY DEF ObjectsInv, ObjectsTyped, Growth

\* allotObject() keeps the invariant, also when the pool grows or refuses.
LEMMA AllotStep ==
    ASSUME ObjectsInv, AllotObject
    PROVE  ObjectsInv'
<1>1. /\ poolExists /\ poolExists' = poolExists /\ maxSize' = maxSize
      /\ refused' \in BOOLEAN
      /\ refused' <=> pooled = 0 /\ useSize >= maxSize
  BY Zenon DEF AllotObject
<1>2. CASE pooled = 0 /\ useSize >= maxSize
  <2>1. UNCHANGED <<pooled, useSize, given>>
    BY <1>1, <1>2, Zenon DEF AllotObject
  <2> QED
    BY <1>1, <1>2, <2>1 DEF ObjectsInv, ObjectsTyped
<1>3. CASE pooled = 0 /\ useSize < maxSize
  <2>1. ~refused'
    BY <1>1, <1>3 DEF ObjectsInv, ObjectsTyped
  <2>2. pooled' = Growth - 1 /\ useSize' = useSize + 1 /\ given' = given + 1
    BY <1>3, <2>1, Zenon DEF AllotObject
  <2> QED
    BY <1>1, <1>3, <2>1, <2>2, GrowthFits DEF ObjectsInv, ObjectsTyped
<1>4. CASE pooled # 0
  <2>1. ~refused'
    BY <1>1, <1>4
  <2>2. pooled' = pooled - 1 /\ useSize' = useSize + 1 /\ given' = given + 1
    BY <1>4, <2>1, Zenon DEF AllotObject
  <2> QED
    BY <1>1, <1>4, <2>1, <2>2 DEF ObjectsInv, ObjectsTyped
<1> QED
  BY <1>2, <1>3, <1>4 DEF ObjectsInv, ObjectsTyped

\* However objects are allotted and returned, a pool that exists owns at most
\* maxSize_ objects and refuses only when all of them are held.
THEOREM PoolStaysBounded == ObjectPoolSpec => []ObjectsBounded
<1>1. ObjectPoolInit => ObjectsInv
  <2> SUFFICES ASSUME ObjectPoolInit PROVE ObjectsInv
    OBVIOUS
  <2>1. maxSize \in Nat \ {0}
    BY MaxSizesAssumption DEF ObjectPoolInit
  <2>2. maxSize \div 100 \in Nat /\ maxSize \div 100 < maxSize
    BY <2>1
  <2>3. /\ pooled \in Nat /\ given \in Nat /\ useSize \in Nat /\ useSize = given
        /\ pooled + given \in 1..maxSize
    BY <2>1, <2>2 DEF ObjectPoolInit
  <2>4. ~refused /\ refused \in BOOLEAN /\ poolExists \in BOOLEAN
    BY Zenon DEF ObjectPoolInit
  <2> QED
    BY <2>1, <2>3, <2>4, Zenon DEF ObjectsInv, ObjectsTyped
<1>2. ObjectsInv /\ [ObjectPoolNext]_objectVars => ObjectsInv'
  <2> SUFFICES ASSUME ObjectsInv, [ObjectPoolNext]_objectVars PROVE ObjectsInv'
    OBVIOUS
  <2>1. CASE DeleteObject
    <3>1. /\ ~refused' /\ refused' \in BOOLEAN
          /\ poolExists' = poolExists /\ poolExists \in BOOLEAN /\ maxSize' = maxSize
      BY <2>1, Zenon DEF DeleteObject, ObjectsInv, ObjectsTyped
    <3>2. maxSize' \in Nat \ {0} /\ given' \in Nat
      BY <2>1 DEF DeleteObject, ObjectsInv, ObjectsTyped
    <3>3. CASE poolExists
      <4>1. /\ pooled' = pooled + 1 /\ useSize' = useSize - 1
            /\ given' = given - 1 /\ given > 0
        BY <2>1, <3>3, Zenon DEF DeleteObject
      <4>2. /\ maxSize \in Nat /\ pooled \in Nat /\ given \in Nat
            /\ useSize = given /\ pooled + given \in 1..maxSize
        BY <3>3, Zenon DEF ObjectsInv, ObjectsTyped
      <4>3. /\ pooled' \in Nat /\ useSize' \in Nat /\ useSize' = given'
            /\ pooled' + given' \in 1..maxSize'
        BY <3>1, <4>1, <4>2
      <4> QED
        BY <3>1, <3>2, <4>3, Zenon DEF ObjectsInv, ObjectsTyped
    <3>4. CASE ~poolExists
      <4>1. pooled' = pooled /\ useSize' = useSize
        BY <2>1, <3>4, Zenon DEF DeleteObject
      <4> QED
        BY <3>1, <3>2, <3>4, <4>1, Zenon DEF ObjectsInv, ObjectsTyped
    <3> QED
      BY <3>3, <3>4
  <2>2. CASE DestroyPool
    BY <2>2 DEF DestroyPool, ObjectsInv, ObjectsTyped
  <2>3. CASE UNCHANGED objectVars
    BY <2>3 DEF objectVars, ObjectsInv, ObjectsTyped
  <2> QED
    BY <2>1, <2>2, <2>3, AllotStep DEF ObjectPoolNext
<1>3. ObjectsInv => ObjectsBounded
  BY DEF ObjectsInv, ObjectsTyped, ObjectsBounded
<1> QED
  BY <1>1, <1>2, <1>3, PTL DEF ObjectPoolSpec

-----------------------------------------------------------------------------
(* ReadSmallFile: FileReadWhole for files, limits and buffers of every size.*)

ReaderTyped ==
    /\ fileLength \in Nat /\ readLimit \in Nat /\ readSoFar \in Nat
    /\ reader \in {"open", "stat", "reading", "returned"}
    /\ readError \in {"none", "open", "stat", "read"}

(* The bytes read are of the file and within the limit; a return without an *)
(* error came from the end of one of the two.                               *)
ReaderInv ==
    /\ ReaderTyped
    /\ readSoFar <= fileLength /\ readSoFar <= readLimit
    /\ (reader = "returned" /\ readError = "none")
          => readSoFar = fileLength \/ readSoFar = readLimit

\* One turn of the loop reads no more than is asked for, and asks for no more
\* than maxSize leaves.
LEMMA ReadStep ==
    ASSUME ReaderInv, ReadBytes
    PROVE  ReaderInv'
<1>1. fileLength' = fileLength /\ readLimit' = readLimit /\ reader = "reading"
  BY DEF ReadBytes
<1>2. CASE /\ \E n \in 1..ToRead : n <= fileLength - readSoFar /\ readSoFar' = readSoFar + n
           /\ UNCHANGED <<reader, readError>>
  <2>1. ToRead \in Nat /\ ToRead <= readLimit - readSoFar
    BY FileAssumption DEF ToRead, ReaderInv, ReaderTyped
  <2>2. PICK n \in 1..ToRead : n <= fileLength - readSoFar /\ readSoFar' = readSoFar + n
    BY <1>2
  <2>3. n \in Nat /\ n <= readLimit - readSoFar
    BY <2>1, <2>2 DEF ReaderInv, ReaderTyped
  <2> QED
    BY <1>1, <1>2, <2>2, <2>3 DEF ReaderInv, ReaderTyped
<1>3. CASE /\ readSoFar = fileLength /\ reader' = "returned"
           /\ UNCHANGED <<readSoFar, readError>>
  BY <1>1, <1>3 DEF ReaderInv, ReaderTyped
<1>4. CASE reader' = "returned" /\ readError' = "read" /\ UNCHANGED readSoFar
  BY <1>1, <1>4 DEF ReaderInv, ReaderTyped
<1> QED
  BY <1>2, <1>3, <1>4 DEF ReadBytes

\* A readToString() that returns no error has the whole file or its first
\* maxSize bytes, however short the single reads were.
THEOREM FileIsReadWhole == FileSpec => []FileReadWhole
<1>1. FileInit => ReaderInv
  BY FileAssumption DEF FileInit, ReaderInv, ReaderTyped
<1>2. ReaderInv /\ [FileNext]_fileVars => ReaderInv'
  <2> SUFFICES ASSUME ReaderInv, [FileNext]_fileVars PROVE ReaderInv'
    OBVIOUS
  <2>1. CASE OpenFile
    BY <2>1 DEF OpenFile, ReaderInv, ReaderTyped
  <2>2. CASE StatFile
    BY <2>2 DEF StatFile, ReaderInv, ReaderTyped
  <2>3. CASE ReadEnough
    BY <2>3 DEF ReadEnough, ReaderInv, ReaderTyped
  <2>4. CASE UNCHANGED fileVars
    BY <2>4 DEF fileVars, ReaderInv, ReaderTyped
  <2> QED
    BY <2>1, <2>2, <2>3, <2>4, ReadStep DEF FileNext
<1>3. ReaderInv => FileReadWhole
  BY DEF ReaderInv, ReaderTyped, FileReadWhole
<1> QED
  BY <1>1, <1>2, <1>3, PTL DEF FileSpec

-----------------------------------------------------------------------------
(* AsyncLogging: LogAssertionsHold for any buffer size, any lines and any   *)
(* order of the threads.  The refill after a write needs as many written    *)
(* buffers as spare ones went to the front end, and whether both went was   *)
(* settled when append() ran out of nextBuffer_ some passes before.         *)

Buffers == Seq(Seq(Nat))

LogTyped ==
    /\ currentBuffer \in Seq(Nat) /\ buffers \in Buffers /\ buffersToWrite \in Buffers
    /\ appended \in Seq(Nat)
    /\ owner \in {"constructed", "starting", "started", "stopping", "stopped"}
    /\ logger \in {"unborn", "latch", "test", "wait", "write", "refill", "finished"}

(* A full buffer stands in buffers_ whenever nextBuffer_ is used up; what   *)
(* the logging thread still has of its own two spare buffers.               *)
Spares ==
    /\ ~nextBuffer => Len(buffers) >= 1
    /\ logger \in {"unborn", "latch", "test", "wait"}
          => newBuffer1 /\ newBuffer2 /\ buffersToWrite = <<>>
    /\ logger \in {"write", "refill"}
          => Len(buffersToWrite) >= 1 /\ (~newBuffer2 => Len(buffersToWrite) >= 2)

LogInv ==
    /\ LogTyped
    /\ Spares
    /\ owner = "constructed" => logger = "unborn"
    /\ logger = "latch" => owner = "starting"
    /\ owner = "starting" => running
    /\ ~assertFailed

\* append(): a buffer that is full goes to buffers_ before nextBuffer_ is used.
LEMMA AppendLineStep == ASSUME LogInv, AppendLine PROVE LogInv'
<1> DEFINE line == Len(appended) + 1
<1>1. /\ appended' = Append(appended, line)
      /\ currentBuffer' = IF Fits(line) THEN Append(currentBuffer, line) ELSE <<line>>
      /\ buffers' = IF Fits(line) THEN buffers ELSE Append(buffers, currentBuffer)
      /\ nextBuffer' = (nextBuffer /\ Fits(line))
      /\ UNCHANGED <<newBuffer1, newBuffer2, buffersToWrite, running, owner, logger,
                     assertFailed>>
  BY DEF AppendLine
<1>2. line \in Nat
  BY LenProperties DEF LogInv, LogTyped
<1> HIDE DEF line
<1>3. LogTyped'
  BY <1>1, <1>2, AppendProperties DEF LogInv, LogTyped, Buffers
<1>4. ~nextBuffer' => Len(buffers') >= 1
  <2>1. CASE Fits(line)
    BY <1>1, <2>1 DEF LogInv, Spares
  <2>2. CASE ~Fits(line)
    <3>1. /\ buffers' = Append(buffers, currentBuffer)
          /\ Len(Append(buffers, currentBuffer)) = Len(buffers) + 1 /\ Len(buffers) \in Nat
      BY <1>1, <2>2, AppendProperties, LenProperties DEF LogInv, LogTyped, Buffers
    <3> QED
      BY <3>1
  <2> QED
    BY <2>1, <2>2
<1>5. Spares'
  BY <1>1, <1>4 DEF LogInv, Spares
<1> QED
  BY <1>1, <1>3, <1>5 DEF LogInv

\* The exchange under the mutex: a spare buffer is spent for nextBuffer_ only
\* when a full buffer is there beside the current one.
LEMMA SwapStep == ASSUME LogInv, SwapBuffers PROVE LogInv'
<1>1. /\ logger = "wait" /\ logger' = "write"
      /\ buffersToWrite' = Append(buffers, currentBuffer) /\ buffers' = <<>>
      /\ currentBuffer' = <<>> /\ nextBuffer'
      /\ newBuffer2' = (newBuffer2 /\ nextBuffer)
      /\ assertFailed' = (assertFailed \/ ~newBuffer1 \/ buffersToWrite' = <<>>)
      /\ UNCHANGED <<running, owner, appended>>
  BY DEF SwapBuffers, TakenBuffers
<1>2. /\ buffersToWrite' \in Buffers /\ Len(buffersToWrite') = Len(buffers) + 1
      /\ Len(buffers) \in Nat /\ buffersToWrite' # <<>>
  <2>1. buffers \in Seq(Seq(Nat)) /\ currentBuffer \in Seq(Nat)
    BY DEF LogInv, LogTyped, Buffers
  <2>2. /\ Append(buffers, currentBuffer) \in Seq(Seq(Nat))
        /\ Append(buffers, currentBuffer) # <<>>
        /\ Len(Append(buffers, currentBuffer)) = Len(buffers) + 1
    BY <2>1, AppendProperties
  <2> QED
    BY <1>1, <2>1, <2>2, LenProperties DEF Buffers
<1>3. LogTyped'
  BY <1>1, <1>2 DEF LogInv, LogTyped, Buffers
<1>4. newBuffer1 /\ newBuffer2 /\ (~nextBuffer => Len(buffers) >= 1)
  BY <1>1 DEF LogInv, Spares
<1>5. Spares'
  <2>1. ~newBuffer2' => ~nextBuffer
    BY <1>1, <1>4
  <2> QED
    BY <1>1, <1>2, <1>4, <2>1 DEF Spares
<1>6. ~assertFailed'
  BY <1>1, <1>2, <1>4 DEF LogInv
<1> QED
  BY <1>1, <1>3, <1>5, <1>6 DEF LogInv

\* The buffers written suffice to give the logging thread two again.
LEMMA RefillStep == ASSUME LogInv, Refill PROVE LogInv'
<1> DEFINE needed == (IF newBuffer1 THEN 0 ELSE 1) + (IF newBuffer2 THEN 0 ELSE 1)
<1>1. /\ logger = "refill" /\ logger' = "test"
      /\ assertFailed' = (assertFailed \/ needed > Len(buffersToWrite))
      /\ newBuffer1' /\ newBuffer2' /\ buffersToWrite' = <<>>
      /\ UNCHANGED <<currentBuffer, nextBuffer, buffers, running, owner, appended>>
  BY DEF Refill
<1>2. Len(buffersToWrite) \in Nat /\ needed \in 0..2 /\ (newBuffer2 => needed <= 1)
  BY LenProperties DEF LogInv, LogTyped, Buffers
<1> HIDE DEF needed
<1>3. ~(needed > Len(buffersToWrite))
  BY <1>1, <1>2 DEF LogInv, Spares
<1>4. ~assertFailed'
  BY <1>1, <1>3, Zenon DEF LogInv
<1>5. LogTyped' /\ Spares'
  BY <1>1 DEF LogInv, LogTyped, Spares, Buffers
<1> QED
  BY <1>1, <1>4, <1>5 DEF LogInv

LEMMA LogInvInit == LogInit => LogInv
  BY DEF LogInit, LogInv, LogTyped, Spares, Buffers

LEMMA LogInvStep == ASSUME LogInv, [LogNext]_logVars PROVE LogInv'
<1>1. CASE Start
  BY <1>1 DEF Start, LogInv, LogTyped, Spares
<1>2. CASE Stop
  BY <1>2 DEF Stop, LogInv, LogTyped, Spares
<1>3. CASE Enter
  BY <1>3 DEF Enter, LogInv, LogTyped, Spares
<1>4. CASE TestRunning
  BY <1>4 DEF TestRunning, LogInv, LogTyped, Spares
<1>5. CASE WriteBuffer
  BY <1>5 DEF WriteBuffer, LogInv, LogTyped, Spares
<1>6. CASE Tick \/ UNCHANGED logVars
  BY <1>6 DEF Tick, logVars, LogInv, LogTyped, Spares
<1> QED
  BY <1>1, <1>2, <1>3, <1>4, <1>5, <1>6, AppendLineStep, SwapStep, RefillStep
     DEF LogNext, LoggerStep

\* The assertions of threadFunc() hold in every run: the thread finds running_
\* set and its buffers ready, and the buffers it wrote always give it back the
\* two spare ones.
THEOREM LogAsserts == LogSpec => []LogAssertionsHold
<1>1. LogInv /\ [LogNext]_logVars => LogInv'
  BY LogInvStep
<1>2. LogInv => LogAssertionsHold
  BY DEF LogInv, LogAssertionsHold
<1> QED
  BY LogInvInit, <1>1, <1>2, PTL DEF LogSpec

-----------------------------------------------------------------------------
(* AsyncLogging as a Fifo.  The buffers cut the appended lines into pieces: *)
(* what the files have, the buffers being written, the full ones and the    *)
(* current one follow each other without a gap.  cut[j] is how many lines   *)
(* lie before the end of buffer j.                                          *)

Piece(a, m, n) == SubSeq(a, m + 1, n)

(* The buffers of q behind the first w hold the lines from m to n of a.     *)
Cuts(a, q, w, m, n, cut) ==
    /\ cut[w] = m /\ cut[Len(q)] = n
    /\ \A j \in w..Len(q) : cut[j] <= n
    /\ \A j \in (w + 1)..Len(q) : cut[j - 1] <= cut[j] /\ q[j] = Piece(a, cut[j - 1], cut[j])

Holds(a, q, w, m, n) == \E cut \in [Nat -> Nat] : Cuts(a, q, w, m, n, cut)

(* All of it, with k lines in the files and the buffers being written, and  *)
(* l lines in all but the current buffer.                                   *)
InPieces(k, l) ==
    /\ output.lines = Piece(appended, 0, Len(output.lines)) /\ Len(output.lines) \in Nat
    /\ Len(output.lines) <= k /\ k <= l /\ l <= Len(appended)
    /\ logger = "write" => Holds(appended, buffersToWrite, written, Len(output.lines), k)
    /\ logger # "write" => k = Len(output.lines)
    /\ Holds(appended, buffers, 0, k, l)
    /\ currentBuffer = Piece(appended, l, Len(appended))

LinesInv ==
    /\ LogInv
    /\ "lines" \in DOMAIN output
    /\ written \in Nat /\ (logger = "write" => written < Len(buffersToWrite))
    /\ logger \notin {"write", "refill"} => written = 0
    /\ logger \in {"unborn", "latch"} => output.lines = <<>>
    /\ \E k, l \in Nat : InPieces(k, l)

\* A piece of the lines, and the lines when one is appended
LEMMA PieceProperties ==
    ASSUME NEW a \in Seq(Nat), NEW m \in Nat, NEW n \in Nat, m <= n, n <= Len(a)
    PROVE  /\ Piece(a, m, n) \in Seq(Nat) /\ Len(Piece(a, m, n)) = n - m
           /\ \A i \in 1..(n - m) : Piece(a, m, n)[i] = a[m + i]
<1>1. Len(a) \in Nat /\ \A i \in 1..Len(a) : a[i] \in Nat
  BY LenProperties, ElementOfSeq
<1>2. m + 1 \in Int /\ n \in Int /\ \A i \in (m + 1)..n : a[i] \in Nat
  BY <1>1
<1>3. /\ SubSeq(a, m + 1, n) \in Seq(Nat)
      /\ Len(SubSeq(a, m + 1, n)) = IF m + 1 <= n THEN n - (m + 1) + 1 ELSE 0
      /\ \A i \in 1..(n - (m + 1) + 1) : SubSeq(a, m + 1, n)[i] = a[(m + 1) + i - 1]
  <2> DEFINE p == m + 1
  <2>1. p \in Int /\ n \in Int /\ \A i \in p..n : a[i] \in Nat
    BY <1>2
  <2> HIDE DEF p
  <2>2. /\ SubSeq(a, p, n) \in Seq(Nat)
        /\ Len(SubSeq(a, p, n)) = IF p <= n THEN n - p + 1 ELSE 0
        /\ \A i \in 1..(n - p + 1) : SubSeq(a, p, n)[i] = a[p + i - 1]
    BY <2>1, SubSeqProperties, SMTT(30)
  <2> QED
    BY <2>2, Zenon DEF p
<1>4. n - (m + 1) + 1 = n - m /\ \A i \in 1..(n - m) : (m + 1) + i - 1 = m + i
  OBVIOUS
<1>5. Len(SubSeq(a, m + 1, n)) = n - m
  BY <1>3
<1> QED
  BY <1>3, <1>4, <1>5 DEF Piece

LEMMA PieceOfMore ==
    ASSUME NEW a \in Seq(Nat), NEW e \in Nat, NEW m \in Nat, NEW n \in Nat,
           m <= n, n <= Len(a)
    PROVE  Piece(Append(a, e), m, n) = Piece(a, m, n)
<1> DEFINE b == Append(a, e)
<1>1. /\ b \in Seq(Nat) /\ Len(b) = Len(a) + 1 /\ Len(a) \in Nat
      /\ \A i \in 1..Len(a) : b[i] = a[i]
  BY AppendProperties, LenProperties
<1> HIDE DEF b
<1>2. n <= Len(b)
  BY <1>1
<1>3. /\ Piece(a, m, n) \in Seq(Nat) /\ Len(Piece(a, m, n)) = n - m
      /\ \A i \in 1..(n - m) : Piece(a, m, n)[i] = a[m + i]
      /\ Piece(b, m, n) \in Seq(Nat) /\ Len(Piece(b, m, n)) = n - m
      /\ \A i \in 1..(n - m) : Piece(b, m, n)[i] = b[m + i]
  BY <1>1, <1>2, PieceProperties
<1>4. \A i \in 1..(n - m) : m + i \in 1..Len(a)
  BY SMTT(40), <1>1
<1>5. \A i \in 1..(n - m) : Piece(b, m, n)[i] = Piece(a, m, n)[i]
  BY <1>1, <1>3, <1>4
<1> QED
  BY <1>3, <1>5, SeqEqual DEF b

LEMMA PiecesJoin ==
    ASSUME NEW a \in Seq(Nat), NEW k \in Nat, NEW m \in Nat, NEW n \in Nat,
           k <= m, m <= n, n <= Len(a)
    PROVE  Piece(a, k, m) \o Piece(a, m, n) = Piece(a, k, n)
<1>1. Len(a) \in Nat
  BY LenProperties
<1>2. k + 1 \in 1..(Len(a) + 1) /\ m \in (k + 1 - 1)..Len(a) /\ n \in m..Len(a)
  BY <1>1
<1> QED
  BY <1>2, ConcatAdjacentSubSeq DEF Piece

\* Places in a sequence of length n behind the first w
LEMMA Intervals ==
    ASSUME NEW w \in Nat, NEW n \in Nat
    PROVE  /\ n + 1 \in Nat /\ \A j \in 0..n : j # n + 1 /\ j \in Nat
           /\ \A j \in w..(n + 1) : j = n + 1 \/ j \in w..n
           /\ \A j \in (w + 1)..(n + 1) : j = n + 1 \/ j \in (w + 1)..n
           /\ \A j \in (w + 1)..n : /\ j \in 0..n /\ j - 1 \in 0..n /\ j \in 1..n
                                     /\ j \in w..n
           /\ \A j \in (w + 1 + 1)..n : j \in (w + 1)..n
  OBVIOUS

LEMMA IntervalEnds ==
    ASSUME NEW w \in Nat, NEW n \in Nat, w <= n
    PROVE  /\ n + 1 - 1 = n /\ n \in 0..n /\ w \in 0..n
           /\ n + 1 \in w..(n + 1) /\ n + 1 \in (w + 1)..(n + 1)
  OBVIOUS

\* A line that is appended leaves the buffers their pieces.
LEMMA HoldsOfMore ==
    ASSUME NEW a \in Seq(Nat), NEW e \in Nat, NEW q, NEW w \in Nat, Len(q) \in Nat,
           NEW m \in Nat, NEW n \in Nat, n <= Len(a), Holds(a, q, w, m, n)
    PROVE  Holds(Append(a, e), q, w, m, n)
<1>1. PICK cut \in [Nat -> Nat] : Cuts(a, q, w, m, n, cut)
  BY DEF Holds
<1>2. ASSUME NEW j \in (w + 1)..Len(q)
      PROVE  cut[j - 1] <= cut[j] /\ q[j] = Piece(Append(a, e), cut[j - 1], cut[j])
  <2>1. cut[j - 1] <= cut[j] /\ q[j] = Piece(a, cut[j - 1], cut[j]) /\ cut[j] <= n
    BY <1>1 DEF Cuts
  <2>2. cut[j - 1] \in Nat /\ cut[j] \in Nat /\ cut[j] <= Len(a)
    <3>1. j - 1 \in Nat /\ j \in Nat
      OBVIOUS
    <3>2. PICK x \in Nat, y \in Nat : x = cut[j - 1] /\ y = cut[j]
      BY <3>1, Zenon
    <3>3. Len(a) \in Nat
      BY LenProperties
    <3>4. y <= n => y <= Len(a)
      BY <3>3
    <3> QED
      BY <2>1, <3>2, <3>4, Zenon
  <2> QED
    BY <2>1, <2>2, PieceOfMore, SMTT(30)
<1>3. Cuts(Append(a, e), q, w, m, n, cut)
  BY <1>1, <1>2 DEF Cuts
<1> QED
  BY <1>3 DEF Holds

\* No buffer holds no line.
LEMMA HoldsNothing == ASSUME NEW a, NEW m \in Nat PROVE Holds(a, <<>>, 0, m, m)
<1> DEFINE cut == [j \in Nat |-> m]
<1>1. cut \in [Nat -> Nat] /\ Cuts(a, <<>>, 0, m, m, cut)
  BY DEF Cuts
<1> HIDE DEF cut
<1> QED
  BY <1>1 DEF Holds

\* A buffer more, with the lines that follow
LEMMA HoldsOneMore ==
    ASSUME NEW a, NEW q \in Seq(Seq(Nat)), NEW w \in Nat, w <= Len(q), NEW m \in Nat,
           NEW n \in Nat, NEW p \in Nat, n <= p, Piece(a, n, p) \in Seq(Nat),
           Holds(a, q, w, m, n)
    PROVE  Holds(a, Append(q, Piece(a, n, p)), w, m, p)
<1>1. PICK cut \in [Nat -> Nat] : Cuts(a, q, w, m, n, cut)
  BY DEF Holds
<1> DEFINE r == Append(q, Piece(a, n, p))
           x == Len(q) + 1
           more == [cut EXCEPT ![x] = p]
<1>2. /\ Len(q) \in Nat /\ Len(r) = x /\ \A j \in 1..Len(q) : r[j] = q[j]
      /\ r[x] = Piece(a, n, p)
  BY AppendProperties, LenProperties
<1>21. x \in Nat /\ \A j \in 0..Len(q) : j # x /\ j \in Nat
  BY <1>2, Intervals, ZenonT(30)
<1>22. x - 1 = Len(q) /\ Len(q) \in 0..Len(q) /\ x \in w..x /\ x \in (w + 1)..x
      /\ w \in 0..Len(q)
  <2>1. PICK z \in Nat : z = Len(q)
    BY <1>2
  <2>2. /\ z + 1 - 1 = z /\ z \in 0..z /\ w \in 0..z
        /\ z + 1 \in w..(z + 1) /\ z + 1 \in (w + 1)..(z + 1)
    BY <2>1, IntervalEnds
  <2> QED
    BY <2>1, <2>2
<1>23. (\A j \in w..x : j = x \/ j \in w..Len(q))
      /\ (\A j \in (w + 1)..x : j = x \/ j \in (w + 1)..Len(q))
  BY <1>2, Intervals, ZenonT(30)
<1> HIDE DEF x
<1>3. /\ more \in [Nat -> Nat] /\ more[x] = p
      /\ \A j \in 0..Len(q) : more[j] = cut[j]
  BY <1>21
<1> HIDE DEF r, more
<1>4. more[w] = m /\ more[Len(r)] = p
  BY <1>1, <1>2, <1>3, <1>22 DEF Cuts
<1>5. \A j \in w..Len(r) : more[j] <= p
  <2>1. \A j \in w..Len(q) : more[j] <= p
    <3> TAKE j \in w..Len(q)
    <3>1. j \in 0..Len(q) /\ j \in Nat /\ cut[j] <= n /\ cut[j] \in Nat
      BY <1>1, <1>2 DEF Cuts
    <3> QED
      BY <1>3, <3>1
  <2> QED
    BY <1>2, <1>3, <1>23, <2>1, SMTT(30)
<1>6. \A j \in (w + 1)..Len(r) :
         more[j - 1] <= more[j] /\ r[j] = Piece(a, more[j - 1], more[j])
  <2> TAKE j \in (w + 1)..Len(r)
  <2>1. CASE j = x
    <3>1. more[j - 1] = n
      BY <1>1, <1>3, <1>22, <2>1 DEF Cuts
    <3> QED
      BY <1>2, <1>3, <2>1, <3>1
  <2>2. CASE j \in (w + 1)..Len(q)
    <3>1. j \in 0..Len(q) /\ j - 1 \in 0..Len(q) /\ j \in 1..Len(q)
      BY <1>2, <2>2, Intervals, Zenon
    <3>2. cut[j - 1] <= cut[j] /\ q[j] = Piece(a, cut[j - 1], cut[j])
      BY <1>1, <2>2 DEF Cuts
    <3> QED
      BY <1>2, <1>3, <3>1, <3>2
  <2> QED
    BY <1>2, <1>23, <2>1, <2>2
<1>7. Cuts(a, r, w, m, p, more)
  BY <1>4, <1>5, <1>6 DEF Cuts
<1> QED
  BY <1>3, <1>7 DEF Holds, r

\* The first buffer is written.
LEMMA HoldsOneLess ==
    ASSUME NEW a, NEW q, Len(q) \in Nat, NEW w \in Nat, w < Len(q), NEW m \in Nat,
           NEW n \in Nat, Holds(a, q, w, m, n)
    PROVE  \E p \in Nat : /\ m <= p /\ p <= n /\ q[w + 1] = Piece(a, m, p)
                          /\ Holds(a, q, w + 1, p, n) /\ (w + 1 = Len(q) => p = n)
<1>1. PICK cut \in [Nat -> Nat] : Cuts(a, q, w, m, n, cut)
  BY DEF Holds
<1> DEFINE p == cut[w + 1]
<1>2. w + 1 \in Nat /\ w + 1 \in (w + 1)..Len(q) /\ w + 1 \in w..Len(q) /\ w + 1 - 1 = w
  OBVIOUS
<1>3. /\ p \in Nat /\ m <= p /\ p <= n /\ q[w + 1] = Piece(a, m, p)
      /\ (w + 1 = Len(q) => p = n)
  BY <1>1, <1>2 DEF Cuts
<1>4. Cuts(a, q, w + 1, p, n, cut)
  <2>1. /\ \A j \in (w + 1)..Len(q) : j \in w..Len(q)
        /\ \A j \in (w + 1 + 1)..Len(q) : j \in (w + 1)..Len(q)
    BY Intervals
  <2> QED
    BY <1>1, <2>1 DEF Cuts
<1> QED
  BY <1>3, <1>4 DEF Holds

\* LogFile::append() adds the lines behind the others, whether it rolls the file
\* over, flushes it or neither; so does no other function of the file.
LEMMA RollKeepsLines ==
    ASSUME NEW f, "lines" \in DOMAIN f, NEW t
    PROVE  "lines" \in DOMAIN RollFile(f, t) /\ RollFile(f, t).lines = f.lines
  BY DEF RollFile

LEMMA FlushKeepsLines ==
    ASSUME NEW f, "lines" \in DOMAIN f
    PROVE  "lines" \in DOMAIN Flush(f) /\ Flush(f).lines = f.lines
  BY DEF Flush

LEMMA AppendAddsLines ==
    ASSUME NEW f, "lines" \in DOMAIN f, NEW b, NEW t
    PROVE  /\ "lines" \in DOMAIN AppendLines(f, b, t)
           /\ AppendLines(f, b, t).lines = f.lines \o b
<1> DEFINE g == WriteLines(f, b)
           next == (g.count + 1) % CheckEveryN
           h == [g EXCEPT !.count = next]
           i == [h EXCEPT !.lastFlush = t]
<1>1. "lines" \in DOMAIN g /\ g.lines = f.lines \o b
  BY DEF WriteLines
<1>2. AppendLines(f, b, t) \in {RollFile(g, t), h, RollFile(h, t), Flush(i)}
  BY DEF AppendLines
<1> HIDE DEF g, next
<1>3. "lines" \in DOMAIN h /\ h.lines = g.lines
  BY <1>1
<1> HIDE DEF h
<1>4. "lines" \in DOMAIN i /\ i.lines = h.lines
  BY <1>3
<1> HIDE DEF i
<1> QED
  BY <1>1, <1>2, <1>3, <1>4, RollKeepsLines, FlushKeepsLines

\* A new line goes behind the others, in the current buffer or in a new one.
LEMMA AppendLineKeeps == ASSUME LinesInv, AppendLine PROVE LinesInv'
<1> DEFINE line == Len(appended) + 1
           more == Append(appended, line)
<1>1. LogInv'
  BY AppendLineStep DEF LinesInv
<1>2. /\ appended' = more
      /\ Fits(line) => /\ currentBuffer' = Append(currentBuffer, line)
                       /\ buffers' = buffers
      /\ ~Fits(line) => /\ currentBuffer' = <<line>>
                        /\ buffers' = Append(buffers, currentBuffer)
      /\ UNCHANGED <<buffersToWrite, written, logger, output>>
  BY DEF AppendLine
<1>3. /\ appended \in Seq(Nat) /\ Len(appended) \in Nat /\ line \in Nat
      /\ more \in Seq(Nat) /\ Len(more) = line /\ more[line] = line
      /\ buffers \in Seq(Seq(Nat)) /\ Len(buffers) \in Nat
      /\ currentBuffer \in Seq(Nat) /\ Len(buffersToWrite) \in Nat
  <2>1. /\ appended \in Seq(Nat) /\ Len(appended) \in Nat
        /\ buffers \in Seq(Seq(Nat)) /\ Len(buffers) \in Nat
        /\ currentBuffer \in Seq(Nat) /\ Len(buffersToWrite) \in Nat
    BY LenProperties DEF LinesInv, LogInv, LogTyped, Buffers
  <2>2. line \in Nat
    BY <2>1
  <2> QED
    BY <2>1, <2>2, AppendProperties
<1>31. PICK n \in Nat : n = Len(appended)
  BY <1>3
<1>32. line = n + 1 /\ n <= line /\ line <= Len(more) /\ n <= Len(more)
  BY <1>3, <1>31
<1> HIDE DEF line, more
<1>4. PICK k \in Nat, l \in Nat : InPieces(k, l)
  BY DEF LinesInv
<1> DEFINE m == Len(output.lines)
<1>5. /\ m \in Nat /\ m <= k /\ k <= l /\ l <= n /\ l <= line
      /\ m <= n /\ k <= n
  BY <1>3, <1>31, <1>32, <1>4 DEF InPieces
<1>51. /\ output.lines = Piece(appended, 0, m)
       /\ logger = "write" => Holds(appended, buffersToWrite, written, m, k)
       /\ Holds(appended, buffers, 0, k, l) /\ currentBuffer = Piece(appended, l, n)
       /\ written \in Nat /\ 0 \in Nat /\ 0 <= m /\ n <= n
  BY <1>31, <1>4, <1>5 DEF InPieces, LinesInv
<1> HIDE DEF m
<1>6. output.lines = Piece(more, 0, m) /\ Piece(more, l, n) = currentBuffer
  <2>1. ASSUME NEW u \in Nat, NEW v \in Nat, u <= v, v <= n
        PROVE  Piece(more, u, v) = Piece(appended, u, v)
    BY <1>3, <1>31, <2>1, PieceOfMore, SMTT(30) DEF more
  <2> QED
    BY <1>5, <1>51, <2>1, Zenon
<1>7. ASSUME NEW q, NEW w \in Nat, Len(q) \in Nat, NEW u \in Nat, NEW v \in Nat, v <= n,
             Holds(appended, q, w, u, v)
      PROVE  Holds(more, q, w, u, v)
  BY <1>3, <1>31, <1>7, HoldsOfMore, Zenon DEF more
<1>8. /\ logger = "write" => Holds(more, buffersToWrite, written, m, k)
      /\ Holds(more, buffers, 0, k, l)
  BY <1>3, <1>5, <1>51, <1>7, Zenon
<1>10. Piece(more, n, line) = <<line>>
  <2>1. /\ Piece(more, n, line) \in Seq(Nat)
        /\ Len(Piece(more, n, line)) = line - n
        /\ \A i \in 1..(line - n) :
              Piece(more, n, line)[i] = more[n + i]
    BY <1>3, <1>32, PieceProperties, ZenonT(60)
  <2>2. line - n = 1 /\ 1 \in 1..1 /\ n + 1 = line
    BY <1>32
  <2>3. Len(Piece(more, n, line)) = 1 /\ Piece(more, n, line)[1] = line
    BY <1>3, <2>1, <2>2
  <2>4. /\ <<line>> \in Seq(Nat) /\ Len(<<line>>) = 1 /\ <<line>>[1] = line
    BY <1>3
  <2>5. \A i \in 1..1 : Piece(more, n, line)[i] = <<line>>[i]
    BY <2>3, <2>4
  <2> QED
    BY <2>1, <2>3, <2>4, <2>5, SeqEqual
<1>11. CASE Fits(line)
  <2>1. Append(currentBuffer, line) = currentBuffer \o <<line>>
    BY <1>3, AppendIsConcat
  <2>2. currentBuffer' = Piece(more, l, line)
    <3>1. Piece(more, l, n) \o Piece(more, n, line) = Piece(more, l, line)
      <4>1. /\ more \in Seq(Nat) /\ l \in Nat /\ n \in Nat /\ line \in Nat
            /\ l <= n /\ n <= line /\ line <= Len(more)
        BY <1>3, <1>32, <1>5
      <4> QED
        BY <4>1, PiecesJoin, Zenon
    <3> QED
      BY <1>2, <1>6, <1>10, <1>11, <2>1, <3>1
  <2>3. InPieces(k, l)'
    BY <1>2, <1>3, <1>32, <1>4, <1>5, <1>6, <1>8, <1>11, <2>2 DEF InPieces, m
  <2> QED
    BY <1>1, <1>2, <2>3 DEF LinesInv
<1>12. CASE ~Fits(line)
  <2>1. Holds(more, Append(buffers, currentBuffer), 0, k, n)
    <3>1. Piece(more, l, n) \in Seq(Nat)
      BY <1>3, <1>6
    <3> QED
      BY <1>3, <1>5, <1>8, <1>6, <3>1, HoldsOneMore
  <2>2. InPieces(k, n)'
    BY <1>2, <1>3, <1>32, <1>4, <1>5, <1>6, <1>8, <1>10, <1>12, <2>1 DEF InPieces, m
  <2> QED
    BY <1>1, <1>2, <1>3, <2>2 DEF LinesInv
<1> QED
  BY <1>11, <1>12

\* The exchange takes the full buffers and the current one in this order.
LEMMA SwapKeeps == ASSUME LinesInv, SwapBuffers PROVE LinesInv'
<1>1. LogInv'
  BY SwapStep DEF LinesInv
<1>2. /\ logger = "wait" /\ logger' = "write"
      /\ buffersToWrite' = Append(buffers, currentBuffer)
      /\ buffers' = <<>> /\ currentBuffer' = <<>>
      /\ UNCHANGED <<written, output, appended>>
  BY DEF SwapBuffers, TakenBuffers
<1>3. /\ appended \in Seq(Nat) /\ Len(appended) \in Nat /\ written = 0
      /\ buffers \in Seq(Seq(Nat)) /\ Len(buffers) \in Nat /\ currentBuffer \in Seq(Nat)
  BY <1>2, LenProperties DEF LinesInv, LogInv, LogTyped, Buffers
<1>4. PICK k \in Nat, l \in Nat : InPieces(k, l)
  BY DEF LinesInv
<1>5. PICK n \in Nat : n = Len(appended)
  BY <1>3
<1>6. /\ k = Len(output.lines) /\ k <= l /\ l <= n /\ k <= n
      /\ Holds(appended, buffers, 0, k, l) /\ currentBuffer = Piece(appended, l, n)
  BY <1>2, <1>4, <1>5 DEF InPieces
<1>7. Holds(appended, buffersToWrite', 0, k, n)
  BY <1>2, <1>3, <1>6, HoldsOneMore
<1>8. Holds(appended, <<>>, 0, n, n)
  BY HoldsNothing
<1>9. Piece(appended, n, n) = <<>>
  BY SubSeqEmpty DEF Piece
<1>10. InPieces(n, n)'
  BY <1>2, <1>3, <1>4, <1>5, <1>6, <1>7, <1>8, <1>9 DEF InPieces
<1>11. written < Len(buffersToWrite')
  <2>1. Len(Append(buffers, currentBuffer)) = Len(buffers) + 1
    BY <1>3, AppendProperties
  <2> QED
    BY <1>2, <1>3, <2>1
<1> QED
  BY <1>1, <1>2, <1>3, <1>10, <1>11 DEF LinesInv

\* A buffer goes to the files behind the lines they have.
LEMMA WriteKeeps ==
    ASSUME LinesInv, WriteBuffer, LogInv'
    PROVE  /\ LinesInv'
           /\ \E n \in Len(output.lines)..Len(appended) : output'.lines = Piece(appended, 0, n)
<1>1. /\ logger = "write" /\ written' = written + 1
      /\ output' = AppendLines(output, buffersToWrite[written + 1], now)
      /\ logger' = IF written + 1 < Len(buffersToWrite) THEN "write" ELSE "refill"
      /\ UNCHANGED <<buffersToWrite, buffers, currentBuffer, appended>>
  BY DEF WriteBuffer
<1>2. /\ appended \in Seq(Nat) /\ Len(appended) \in Nat /\ Len(buffersToWrite) \in Nat
      /\ written \in Nat /\ written < Len(buffersToWrite) /\ "lines" \in DOMAIN output
  BY <1>1, LenProperties DEF LinesInv, LogInv, LogTyped, Buffers
<1>3. PICK k \in Nat, l \in Nat : InPieces(k, l)
  BY DEF LinesInv
<1>4. PICK m \in Nat : m = Len(output.lines)
  BY <1>3 DEF InPieces
<1>5. /\ output.lines = Piece(appended, 0, m) /\ m <= k /\ k <= l /\ l <= Len(appended)
      /\ Holds(appended, buffersToWrite, written, m, k)
      /\ Holds(appended, buffers, 0, k, l)
      /\ currentBuffer = Piece(appended, l, Len(appended))
  BY <1>1, <1>3, <1>4 DEF InPieces
<1>6. PICK p \in Nat :
         /\ m <= p /\ p <= k /\ buffersToWrite[written + 1] = Piece(appended, m, p)
         /\ Holds(appended, buffersToWrite, written + 1, p, k)
         /\ written + 1 = Len(buffersToWrite) => p = k
  BY <1>2, <1>5, HoldsOneLess
<1>7. p <= Len(appended) /\ 0 <= m /\ 0 <= p
  BY <1>2, <1>5, <1>6
<1>8. "lines" \in DOMAIN output' /\ output'.lines = output.lines \o Piece(appended, m, p)
  BY <1>1, <1>2, <1>6, AppendAddsLines
<1>9. output'.lines = Piece(appended, 0, p)
  <2>1. Piece(appended, 0, m) \o Piece(appended, m, p) = Piece(appended, 0, p)
    <3>1. 0 \in Nat
      OBVIOUS
    <3> QED
      BY <1>2, <1>6, <1>7, <3>1, PiecesJoin, SMTT(30)
  <2> QED
    BY <1>5, <1>8, <2>1
<1>10. Len(output'.lines) = p
  <2>1. Len(Piece(appended, 0, p)) = p - 0
    BY <1>2, <1>7, PieceProperties
  <2> QED
    BY <1>9, <2>1
<1>11. written' < Len(buffersToWrite) <=> logger' = "write"
  BY <1>1
<1>12. logger' # "write" => p = k
  BY <1>1, <1>2, <1>6
<1>13. InPieces(k, l)'
  BY <1>1, <1>5, <1>6, <1>9, <1>10, <1>12 DEF InPieces
<1>14. LinesInv'
  BY <1>1, <1>2, <1>8, <1>11, <1>13 DEF LinesInv
<1>15. p \in Len(output.lines)..Len(appended)
  BY <1>2, <1>4, <1>6, <1>7
<1> QED
  BY <1>9, <1>14, <1>15

\* Every other step leaves the lines and their buffers alone.
LEMMA OthersKeep ==
    ASSUME LinesInv, LogInv', UNCHANGED <<appended, currentBuffer, buffers>>,
           logger # "write", logger' # "write", output'.lines = output.lines,
           "lines" \in DOMAIN output', written' \in Nat,
           logger' \in {"write", "refill"} \/ written' = 0,
           logger' \in {"unborn", "latch"} => logger \in {"unborn", "latch"}
    PROVE  LinesInv'
<1>1. PICK k \in Nat, l \in Nat : InPieces(k, l)
  BY DEF LinesInv
<1>2. InPieces(k, l)'
  BY <1>1 DEF InPieces
<1> QED
  BY <1>2 DEF LinesInv

LEMMA SameKeep ==
    ASSUME LinesInv, LogInv',
           UNCHANGED <<appended, currentBuffer, buffers, buffersToWrite, written, logger, output>>
    PROVE  LinesInv'
<1>1. PICK k \in Nat, l \in Nat : InPieces(k, l)
  BY DEF LinesInv
<1>2. InPieces(k, l)'
  BY <1>1 DEF InPieces
<1> QED
  BY <1>2 DEF LinesInv

\* Every step keeps the invariant and is one of the queue: append() puts a line
\* in, the write of a buffer takes its lines out.
LEMMA LinesStep ==
    ASSUME LinesInv, [LogNext]_logVars
    PROVE  /\ LinesInv'
           /\ [Lines!Put \/ Lines!Get]_<<appended, output.lines>>
<1>1. LogInv' /\ LogInv
  BY LogInvStep DEF LinesInv
<1>2. CASE AppendLine
  <2>1. LinesInv'
    BY <1>2, AppendLineKeeps
  <2>2. Len(appended) < MaxLines /\ appended' = Append(appended, Len(appended) + 1)
        /\ output' = output
    BY <1>2 DEF AppendLine
  <2>3. Len(appended) + 1 \in 1..MaxLines
    BY <1>1, <2>2, LenProperties, LogAssumption DEF LogInv, LogTyped
  <2>4. Lines!Put
    BY <2>2, <2>3 DEF Lines!Put
  <2> QED
    BY <2>1, <2>4
<1>3. CASE SwapBuffers
  BY <1>3, SwapKeeps DEF SwapBuffers
<1>4. CASE WriteBuffer
  <2>1. /\ LinesInv'
        /\ \E n \in Len(output.lines)..Len(appended) : output'.lines = Piece(appended, 0, n)
    BY <1>1, <1>4, WriteKeeps
  <2>2. PICK n \in Len(output.lines)..Len(appended) : output'.lines = Piece(appended, 0, n)
    BY <2>1
  <2>3. /\ appended' = appended /\ Len(output.lines) \in Nat /\ Len(appended) \in Nat
        /\ output.lines = Piece(appended, 0, Len(output.lines))
    BY <1>1, <1>4, LenProperties DEF WriteBuffer, LinesInv, InPieces, LogInv, LogTyped
  <2>4. Piece(appended, 0, n) = SubSeq(appended, 1, n)
    BY DEF Piece
  <2>5. CASE n = Len(output.lines)
    BY <2>1, <2>2, <2>3, <2>5
  <2>6. CASE n # Len(output.lines)
    <3>1. n \in (Len(output.lines) + 1)..Len(appended)
      BY <2>3, <2>6
    <3>2. Lines!Get
      BY <2>2, <2>3, <2>4, <3>1 DEF Lines!Get
    <3> QED
      BY <2>1, <3>2
  <2> QED
    BY <2>5, <2>6
<1>5. CASE Start
  <2>1. CASE logger' = logger
    <3>1. UNCHANGED <<appended, currentBuffer, buffers, buffersToWrite, written, logger, output>>
      BY <1>5, <2>1 DEF Start
    <3> QED
      BY <1>1, <3>1, SameKeep
  <2>2. CASE logger' # logger
    <3>1. owner = "constructed" /\ logger' = "latch" /\ logger = "unborn"
      BY <1>1, <1>5, <2>2 DEF Start, LogInv
    <3>2. /\ UNCHANGED <<appended, currentBuffer, buffers, written, output>>
          /\ written = 0 /\ "lines" \in DOMAIN output
      BY <1>5, <3>1 DEF Start, LinesInv
    <3> QED
      BY <1>1, <3>1, <3>2, OthersKeep
  <2> QED
    BY <2>1, <2>2
<1>6. CASE Stop \/ Tick \/ UNCHANGED logVars
  <2>1. UNCHANGED <<appended, currentBuffer, buffers, buffersToWrite, written, logger, output>>
    BY <1>6 DEF Stop, Tick, logVars
  <2> QED
    BY <1>1, <2>1, SameKeep
<1>7. CASE Enter
  <2>1. /\ logger = "latch" /\ logger' = "test" /\ output' = NewLogFile(now)
        /\ UNCHANGED <<appended, currentBuffer, buffers, written>>
    BY <1>7 DEF Enter
  <2>2. output.lines = <<>> /\ written = 0
    BY <2>1 DEF LinesInv
  <2>3. "lines" \in DOMAIN output' /\ output'.lines = <<>>
    BY <2>1, RollKeepsLines DEF NewLogFile
  <2> QED
    BY <1>1, <2>1, <2>2, <2>3, OthersKeep
<1>8. CASE TestRunning
  <2>1. /\ logger = "test" /\ logger' \in {"wait", "finished"}
        /\ output' \in {output, Flush(output)}
        /\ UNCHANGED <<appended, currentBuffer, buffers, written>>
    BY <1>8 DEF TestRunning
  <2>2. "lines" \in DOMAIN output /\ written = 0
    BY <2>1 DEF LinesInv
  <2>3. "lines" \in DOMAIN output' /\ output'.lines = output.lines
    BY <2>1, <2>2, FlushKeepsLines
  <2> QED
    BY <1>1, <2>1, <2>2, <2>3, OthersKeep
<1>9. CASE Refill
  <2>1. /\ logger = "refill" /\ logger' = "test" /\ output' = Flush(output) /\ written' = 0
        /\ UNCHANGED <<appended, currentBuffer, buffers>>
    BY <1>9 DEF Refill
  <2>2. "lines" \in DOMAIN output
    BY DEF LinesInv
  <2>3. "lines" \in DOMAIN output' /\ output'.lines = output.lines
    BY <2>1, <2>2, FlushKeepsLines
  <2> QED
    BY <1>1, <2>1, <2>3, OthersKeep
<1> QED
  BY <1>2, <1>3, <1>4, <1>5, <1>6, <1>7, <1>8, <1>9 DEF LogNext, LoggerStep

\* AsyncLogging implements the abstract queue: through the buffers that are
\* filled, exchanged, written and given back, and through the files that are
\* rolled over, the lines keep the order in which append() took them, for any
\* lines, buffer sizes, roll sizes and times.
THEOREM LogImplementsFifo == LogSpec => LogIsFifo
<1>1. LogInit => Lines!FifoInit /\ LinesInv
  <2> SUFFICES ASSUME LogInit PROVE Lines!FifoInit /\ LinesInv
    OBVIOUS
  <2>1. /\ currentBuffer = <<>> /\ buffers = <<>> /\ buffersToWrite = <<>> /\ written = 0
        /\ logger = "unborn" /\ appended = <<>>
        /\ output = [files |-> <<>>, lines |-> <<>>, unflushed |-> 0]
    BY DEF LogInit
  <2>2. "lines" \in DOMAIN output /\ output.lines = <<>> /\ Len(output.lines) = 0
    BY <2>1
  <2>3. Piece(<<>>, 0, 0) = <<>>
    BY SubSeqEmpty DEF Piece
  <2>4. Holds(<<>>, <<>>, 0, 0, 0)
    BY HoldsNothing
  <2>5. InPieces(0, 0)
    BY <2>1, <2>2, <2>3, <2>4 DEF InPieces
  <2>6. LinesInv
    BY <2>1, <2>2, <2>5, LogInvInit DEF LinesInv
  <2> QED
    BY <2>1, <2>2, <2>6 DEF Lines!FifoInit
<1>2. LinesInv /\ [LogNext]_logVars => LinesInv'
  BY LinesStep
<1>3. LinesInv /\ [LogNext]_logVars => [Lines!Put \/ Lines!Get]_<<appended, output.lines>>
  BY LinesStep
<1> QED
  BY <1>1, <1>2, <1>3, PTL DEF LogSpec, LogIsFifo, Lines!FifoSpec

-----------------------------------------------------------------------------
(* Induction over the natural numbers, for a set instead of a predicate.    *)

LEMMA Induction ==
    ASSUME NEW S, 0 \in S, \A n \in Nat : n \in S => n + 1 \in S
    PROVE  Nat \subseteq S
<1> SUFFICES ASSUME Nat \ S # {} PROVE FALSE
  OBVIOUS
<1> DEFINE R == {ss \in Nat \X Nat : ss[1] < ss[2]}
           T == Nat \ S
<1>1. IsWellFoundedOn(R, Nat)
  BY NatLessThanWellFounded DEF OpToRel
<1>2. T \subseteq Nat /\ T # {}
  OBVIOUS
<1> HIDE DEF R, T
<1>3. PICK x \in T : \A y \in T : ~(<<y, x>> \in R)
  BY <1>1, <1>2, WFMin
<1>4. x \in Nat /\ x \notin S /\ x # 0
  BY <1>3 DEF T
<1>5. x - 1 \in Nat /\ (x - 1) + 1 = x /\ <<x - 1, x>> \in R
  BY <1>4 DEF R
<1>6. x - 1 \in S
  BY <1>3, <1>5 DEF T
<1> QED
  BY <1>4, <1>5, <1>6

-----------------------------------------------------------------------------
(* SignalSlot: SlotsCalled for any callers and slots.  The property says    *)
(* what a call has done; the invariant says of every call under way that    *)
(* the slots it must still reach lie ahead of it in its own list, which is  *)
(* true because a list that a call holds is never written.                  *)

CallType ==
    [at : {"out", "loop", "callback"}, version : Versions, next : Nat,
     called : Seq(Nat), entry : SUBSET Nat, kept : SUBSET Nat]

SignalTyped ==
    /\ slotLists \in [Versions -> Seq(Nat)] /\ current \in Versions
    /\ connected \in Nat /\ held \subseteq 1..connected
    /\ caller \in [Callers -> CallType]

Has(list, s) == \E i \in 1..Len(list) : list[i] = s

(* Slots stand in the order in which they were connected.                   *)
Ordered(list, n) ==
    /\ \A i \in 1..Len(list) : list[i] \in 1..n
    /\ \A i, j \in 1..Len(list) : i < j => list[i] < list[j]

Live == {s \in 1..connected : ~Expired(s)}

(* A call c that iterates over list, when the slots in have have a handle   *)
(* and those in live are not expired.                                       *)
CallFits(c, list, have, live) ==
    /\ c.next \in 1..(Len(list) + 1) /\ (c.at = "callback" => c.next <= Len(list))
    /\ \A i, j \in 1..Len(c.called) : i < j => c.called[i] < c.called[j]
    /\ \A i \in 1..Len(c.called) :
          /\ c.called[i] \in c.entry
          /\ \E j \in 1..Len(list) :
                list[j] = c.called[i] /\ (j < c.next \/ (c.at = "callback" /\ j = c.next))
    /\ c.at = "callback" => Has(c.called, list[c.next])
    /\ \A j \in 1..Len(list) : list[j] \in live => list[j] \in c.entry
    /\ c.kept \subseteq have
    /\ \A s \in c.kept : Has(c.called, s) \/ \E j \in c.next..Len(list) : list[j] = s

SignalInv ==
    /\ SignalTyped
    /\ \A v \in Versions : Ordered(slotLists[v], connected)
    /\ \A s \in held : Has(slotLists[current], s)
    /\ \A i \in 1..Len(slotLists[current]) :
          slotLists[current][i] \notin Live => slotLists[current][i] \in dying
    /\ \A t \in Callers : IF InCall(t)
                          THEN CallFits(caller[t], slotLists[caller[t].version], held, Live)
                          ELSE caller[t] = Out

-----------------------------------------------------------------------------
(* The loop of clean().                                                     *)

\* One turn of the loop of Erase, by which the list before it becomes left[i]
EraseTurn(list, gone, left, i) ==
    IF i = 0 THEN <<>>
    ELSE IF list[i] \in gone THEN left[i - 1] ELSE Append(left[i - 1], list[i])

\* The recursion defines a function.
LEMMA EraseExists ==
    ASSUME NEW list, NEW gone
    PROVE  \A n \in Nat : \E f : f = [i \in 0..n |-> EraseTurn(list, gone, f, i)]
<1> DEFINE Defined == {n \in Nat : \E f : f = [i \in 0..n |-> EraseTurn(list, gone, f, i)]}
<1>1. 0 \in Defined
  <2> DEFINE f == [i \in 0..0 |-> <<>>]
  <2>1. f = [i \in 0..0 |-> EraseTurn(list, gone, f, i)]
    BY DEF EraseTurn
  <2> QED
    BY <2>1
<1>2. ASSUME NEW n \in Nat, n \in Defined PROVE n + 1 \in Defined
  <2>1. PICK f : f = [i \in 0..n |-> EraseTurn(list, gone, f, i)]
    BY <1>2
  <2> DEFINE g == [i \in 0..(n + 1) |-> IF i = n + 1 THEN EraseTurn(list, gone, f, i) ELSE f[i]]
  <2>2. ASSUME NEW i \in 0..(n + 1) PROVE g[i] = EraseTurn(list, gone, g, i)
    <3>1. CASE i = 0
      BY <2>1, <3>1 DEF EraseTurn
    <3>2. CASE i # 0
      <4>1. i - 1 \in 0..n /\ i - 1 \in 0..(n + 1) /\ i - 1 # n + 1 /\ g[i - 1] = f[i - 1]
        BY <3>2
      <4>2. EraseTurn(list, gone, g, i) = EraseTurn(list, gone, f, i)
        BY <3>2, <4>1 DEF EraseTurn
      <4>3. i # n + 1 => i \in 0..n /\ f[i] = EraseTurn(list, gone, f, i)
        BY <2>1
      <4> QED
        BY <4>2, <4>3
    <3> QED
      BY <3>1, <3>2
  <2>3. g = [i \in 0..(n + 1) |-> EraseTurn(list, gone, g, i)]
    BY <2>2
  <2> HIDE DEF g
  <2> QED
    BY <2>3
<1>3. Nat \subseteq Defined
  <2> HIDE DEF Defined
  <2> QED
    BY <1>1, <1>2, Induction
<1> QED
  BY <1>3

\* clean() keeps the order and every slot that is not expired, and no other.
LEMMA Erased ==
    ASSUME NEW list \in Seq(Nat), NEW n \in Nat, Ordered(list, n), NEW gone
    PROVE  /\ Erase(list, gone) \in Seq(Nat) /\ Ordered(Erase(list, gone), n)
           /\ \A s : Has(Erase(list, gone), s) <=> Has(list, s) /\ s \notin gone
<1> DEFINE left == CHOOSE f : f = [i \in 0..Len(list) |-> EraseTurn(list, gone, f, i)]
<1>1. Len(list) \in Nat
  BY LenProperties
<1>2. left = [i \in 0..Len(list) |-> EraseTurn(list, gone, left, i)]
  BY <1>1, EraseExists, Zenon
<1>3. Erase(list, gone) = left[Len(list)]
  BY Zenon DEF Erase, EraseTurn
<1> HIDE DEF left
<1>4. \A i \in 1..Len(list) : list[i] \in Nat
  BY ElementOfSeq
<1> DEFINE Right(i) ==
             /\ left[i] \in Seq(Nat)
             /\ \A h, j \in 1..Len(left[i]) : h < j => left[i][h] < left[i][j]
             /\ \A s : Has(left[i], s) <=> s \notin gone /\ \E j \in 1..i : list[j] = s
           Done == {i \in Nat : i <= Len(list) => Right(i)}
<1>5. 0 \in Done
  <2>1. left[0] = <<>>
    BY <1>1, <1>2 DEF EraseTurn
  <2>2. Right(0)
    BY <2>1 DEF Has
  <2> QED
    BY <2>2
<1>6. ASSUME NEW i \in Nat, i \in Done PROVE i + 1 \in Done
  <2> SUFFICES ASSUME i + 1 <= Len(list) PROVE Right(i + 1)
    OBVIOUS
  <2>1. Right(i) /\ i + 1 \in 1..Len(list) /\ i + 1 \in 0..Len(list) /\ i + 1 # 0
        /\ (i + 1) - 1 = i
    BY <1>1, <1>6
  <2> DEFINE x == list[i + 1]
             q == left[i]
  <2>2. x \in Nat /\ left[i + 1] = IF x \in gone THEN q ELSE Append(q, x)
    BY <1>2, <1>4, <2>1 DEF EraseTurn
  <2>3. \A s : (\E j \in 1..(i + 1) : list[j] = s) <=> (\E j \in 1..i : list[j] = s) \/ s = x
    <3>1. 1..(i + 1) = 1..i \cup {i + 1}
      OBVIOUS
    <3> QED
      BY <3>1
  <2>4. CASE x \in gone
    BY <2>1, <2>2, <2>3, <2>4
  <2>5. CASE x \notin gone
    <3>1. \A s : Has(q, s) => s < x
      <4> SUFFICES ASSUME NEW s, Has(q, s) PROVE s < x
        OBVIOUS
      <4>1. PICK j \in 1..i : list[j] = s
        BY <2>1
      <4>2. j \in 1..Len(list) /\ j < i + 1
        BY <1>1, <2>1
      <4> QED
        BY <2>1, <4>1, <4>2 DEF Ordered
    <3> HIDE DEF x, q
    <3> DEFINE r == Append(q, x)
    <3>2. /\ r \in Seq(Nat) /\ Len(q) \in Nat /\ Len(r) = Len(q) + 1
          /\ (\A j \in 1..Len(q) : r[j] = q[j]) /\ r[Len(q) + 1] = x
      BY <2>1, <2>2, AppendProperties, LenProperties DEF q
    <3> HIDE DEF r
    <3>3. 1..Len(r) = 1..Len(q) \cup {Len(q) + 1}
      BY <3>2
    <3>4. \A s : Has(r, s) <=> Has(q, s) \/ s = x
      BY <3>2, <3>3 DEF Has
    <3>5. \A h, j \in 1..Len(r) : h < j => r[h] < r[j]
      <4> SUFFICES ASSUME NEW h \in 1..Len(r), NEW j \in 1..Len(r), h < j PROVE r[h] < r[j]
        OBVIOUS
      <4>0. h \in 1..Len(q)
        BY <3>2
      <4>1. h \in 1..Len(q) /\ r[h] = q[h] /\ Has(q, q[h])
        BY <3>2, <4>0 DEF Has
      <4>2. CASE j = Len(q) + 1
        BY <3>1, <3>2, <4>1, <4>2
      <4>3. CASE j \in 1..Len(q)
        BY <2>1, <3>2, <4>1, <4>3 DEF q
      <4> QED
        BY <3>3, <4>2, <4>3
    <3>6. left[i + 1] = r
      BY <2>2, <2>5 DEF r
    <3>7. \A s : Has(q, s) <=> s \notin gone /\ \E j \in 1..i : list[j] = s
      BY <2>1 DEF q
    <3> QED
      BY <2>3, <2>5, <3>2, <3>4, <3>5, <3>6, <3>7
  <2> QED
    BY <2>4, <2>5
<1>7. Nat \subseteq Done
  <2> HIDE DEF Done
  <2> QED
    BY <1>5, <1>6, Induction
<1>8. Right(Len(list))
  <2> HIDE DEF Right
  <2>1. Len(list) \in Done => Right(Len(list))
    BY <1>1
  <2> HIDE DEF Done
  <2> QED
    BY <1>1, <1>7, <2>1
<1>9. \A s : Has(Erase(list, gone), s) <=> Has(list, s) /\ s \notin gone
  BY <1>3, <1>8 DEF Has
<1>10. Ordered(Erase(list, gone), n)
  BY <1>3, <1>8, <1>9 DEF Ordered, Has
<1> QED
  BY <1>3, <1>8, <1>9, <1>10

-----------------------------------------------------------------------------
(* The steps of the signal.                                                 *)

\* copyOnWrite() finds a list that no call holds: there is one more than there
\* are callers.
LEMMA FreeVersion == ASSUME SignalTyped PROVE CopyOnWrite \in Versions /\ ~Shared(CopyOnWrite)
<1>1. CASE ~Shared(current)
  BY <1>1 DEF CopyOnWrite, SignalTyped
<1>2. CASE Shared(current)
  <2> DEFINE f == [t \in Callers |-> caller[t].version]
             T == {caller[t].version : t \in Callers}
  <2>1. f \in Surjection(Callers, T)
    BY DEF Surjection
  <2> HIDE DEF f
  <2>2. IsFiniteSet(T) /\ Cardinality(T) <= Cardinality(Callers)
    <3> HIDE DEF T
    <3> QED
      BY <2>1, SignalAssumption, FS_Surjection
  <2>3. Cardinality(Callers) \in Nat
    BY SignalAssumption, FS_CardinalityType
  <2>4. Cardinality(Versions) = Cardinality(Callers) + 1
    <3> DEFINE n == Cardinality(Callers)
    <3> HIDE DEF n
    <3>1. n \in Nat
      BY <2>3 DEF n
    <3>2. Cardinality(0..n) = IF 0 > n THEN 0 ELSE n - 0 + 1
      BY <3>1, FS_Interval
    <3>3. Cardinality(0..n) = n + 1
      BY <3>1, <3>2
    <3> QED
      BY <3>3 DEF Versions, n
  <2>5. ~(Versions \subseteq T)
    <3> HIDE DEF T
    <3>1. Versions \subseteq T => Cardinality(Versions) <= Cardinality(T)
      BY <2>2, FS_Subset
    <3>2. Cardinality(T) \in Nat
      BY <2>2, FS_CardinalityType
    <3> QED
      BY <2>2, <2>3, <2>4, <3>1, <3>2
  <2>6. PICK v \in Versions : v \notin T
    BY <2>5
  <2>7. ~Shared(v)
    BY <2>6 DEF Shared
  <2>8. \E w \in Versions : w # current /\ ~Shared(w)
    BY <1>2, <2>7
  <2> QED
    BY <1>2, <2>8 DEF CopyOnWrite
<1> QED
  BY <1>1, <1>2

\* A write leaves the lists of the calls alone.
LEMMA WriteLeavesCalls ==
    ASSUME SignalInv, NEW list \in Seq(Nat), WriteList(list), UNCHANGED caller,
           connected' \in Nat, connected <= connected', Ordered(list, connected')
    PROVE  /\ slotLists' \in [Versions -> Seq(Nat)] /\ current' \in Versions
           /\ slotLists'[current'] = list
           /\ \A v \in Versions : Ordered(slotLists'[v], connected')
           /\ \A t \in Callers : InCall(t) =>
                 slotLists'[caller[t].version] = slotLists[caller[t].version]
           /\ \A t \in Callers : Locked(t)' = Locked(t)
<1> DEFINE v == CopyOnWrite
<1>1. v \in Versions /\ ~Shared(v)
  BY FreeVersion DEF SignalInv
<1>2. slotLists' = [slotLists EXCEPT ![v] = list] /\ current' = v
  BY DEF WriteList
<1> HIDE DEF v
<1>3. slotLists \in [Versions -> Seq(Nat)] /\ connected \in Nat
  BY DEF SignalInv, SignalTyped
<1>4. /\ slotLists' \in [Versions -> Seq(Nat)] /\ current' \in Versions
      /\ slotLists'[v] = list /\ \A w \in Versions \ {v} : slotLists'[w] = slotLists[w]
  BY <1>1, <1>2, <1>3
<1>5. ASSUME NEW w \in Versions PROVE Ordered(slotLists'[w], connected')
  <2>1. CASE w = v
    BY <1>4, <2>1
  <2>2. CASE w # v
    <3>1. Ordered(slotLists[w], connected) /\ slotLists'[w] = slotLists[w]
      BY <1>4, <2>2 DEF SignalInv
    <3>2. \A x \in 1..connected : x \in 1..connected'
      BY <1>3
    <3> QED
      BY <3>1, <3>2 DEF Ordered
  <2> QED
    BY <2>1, <2>2
<1>6. ASSUME NEW t \in Callers, InCall(t)
      PROVE  slotLists'[caller[t].version] = slotLists[caller[t].version]
  <2>1. caller[t].version \in Versions /\ caller[t].version # v
    BY <1>1, <1>6 DEF Shared, SignalInv, SignalTyped, CallType
  <2> QED
    BY <1>4, <2>1
<1>7. \A t \in Callers : Locked(t)' = Locked(t)
  BY <1>6 DEF Locked, InCall
<1> QED
  BY <1>2, <1>4, <1>5, <1>6, <1>7

\* A call that fits fits on when no slot of its list comes to life.
LEMMA FitsOn ==
    ASSUME NEW k, NEW list, NEW have, NEW live, CallFits(k, list, have, live),
           NEW have2, NEW live2, k.kept \subseteq have2,
           \A j \in 1..Len(list) : list[j] \in live2 => list[j] \in live
    PROVE  CallFits(k, list, have2, live2)
  BY DEF CallFits

\* connect()
LEMMA ConnectKeeps == ASSUME SignalInv, ConnectSlot PROVE SignalInv'
<1> DEFINE old == slotLists[current]
           x == connected + 1
           list == Append(old, x)
<1>1. /\ connected' = x /\ held' = held \cup {x} /\ WriteList(list)
      /\ UNCHANGED <<caller, dying>>
  BY DEF ConnectSlot
<1>2. /\ connected \in Nat /\ x \in Nat /\ old \in Seq(Nat) /\ Ordered(old, connected)
      /\ held \subseteq 1..connected /\ Len(old) \in Nat
      /\ caller \in [Callers -> CallType]
  <2>1. old \in Seq(Nat)
    BY DEF SignalInv, SignalTyped
  <2> QED
    BY <2>1, LenProperties DEF SignalInv, SignalTyped
<1>3. /\ list \in Seq(Nat) /\ Len(list) = Len(old) + 1
      /\ (\A j \in 1..Len(old) : list[j] = old[j]) /\ list[Len(old) + 1] = x
  <2> HIDE DEF old, x
  <2> QED
    BY <1>2, AppendProperties
<1>4. 1..x = 1..connected \cup {x} /\ x \notin 1..connected /\ connected <= x
      /\ \A y \in 1..connected : y < x
  BY <1>2
<1> HIDE DEF old, list, x
<1>5. 1..Len(list) = 1..Len(old) \cup {Len(old) + 1}
  BY <1>2, <1>3
<1>6. Ordered(list, x)
  <2>1. \A i \in 1..Len(list) : list[i] \in 1..x
    BY <1>2, <1>3, <1>4, <1>5 DEF Ordered
  <2>2. ASSUME NEW i \in 1..Len(list), NEW j \in 1..Len(list), i < j PROVE list[i] < list[j]
    <3>1. i \in 1..Len(old)
      BY <1>2, <1>3, <2>2
    <3>2. CASE j = Len(old) + 1
      BY <1>2, <1>3, <1>4, <3>1, <3>2 DEF Ordered
    <3>3. CASE j \in 1..Len(old)
      BY <1>2, <1>3, <2>2, <3>1, <3>3 DEF Ordered
    <3> QED
      BY <1>5, <3>2, <3>3
  <2> QED
    BY <2>1, <2>2 DEF Ordered
<1>7. /\ slotLists' \in [Versions -> Seq(Nat)] /\ current' \in Versions
      /\ slotLists'[current'] = list
      /\ \A v \in Versions : Ordered(slotLists'[v], connected')
      /\ \A t \in Callers : InCall(t) =>
            slotLists'[caller[t].version] = slotLists[caller[t].version]
      /\ \A t \in Callers : Locked(t)' = Locked(t)
  BY <1>1, <1>2, <1>3, <1>4, <1>6, WriteLeavesCalls
<1>8. Live' = Live \cup {x}
  BY <1>1, <1>2, <1>4, <1>7 DEF Live, Expired
<1>9. SignalTyped'
  BY <1>1, <1>2, <1>4, <1>7 DEF SignalTyped
<1>10. \A s \in held' : Has(list, s)
  <2>1. \A s \in held : Has(old, s)
    BY DEF SignalInv, old
  <2> QED
    BY <1>1, <1>3, <1>5, <2>1 DEF Has
<1>11. \A i \in 1..Len(list) : list[i] \notin Live' => list[i] \in dying'
  <2>1. \A i \in 1..Len(old) : old[i] \notin Live => old[i] \in dying
    BY DEF SignalInv, old
  <2> QED
    BY <1>1, <1>3, <1>5, <1>8, <2>1
<1>12. ASSUME NEW t \in Callers
       PROVE  IF InCall(t)'
              THEN CallFits(caller'[t], slotLists'[caller'[t].version], held', Live')
              ELSE caller'[t] = Out
  <2>1. CASE ~InCall(t)
    BY <1>1, <2>1 DEF InCall, SignalInv
  <2>2. CASE InCall(t)
    <3> DEFINE k == caller[t]
               own == slotLists[k.version]
    <3>1. CallFits(k, own, held, Live) /\ k.version \in Versions
      BY <1>2, <2>2 DEF SignalInv, CallType
    <3>2. k.kept \subseteq held'
      BY <1>1, <3>1 DEF CallFits
    <3>3. \A j \in 1..Len(own) : own[j] \in Live' => own[j] \in Live
      BY <1>4, <1>8, <3>1 DEF SignalInv, Ordered
    <3>4. CallFits(k, own, held', Live')
      <4> HIDE DEF k, own
      <4> QED
        BY <3>1, <3>2, <3>3, FitsOn
    <3> QED
      BY <1>1, <1>7, <2>2, <3>4 DEF InCall
  <2> QED
    BY <2>1, <2>2
<1> QED
  BY <1>7, <1>9, <1>10, <1>11, <1>12 DEF SignalInv

\* ~SlotImpl(): the list without the expired slots
LEMMA CleanKeeps == ASSUME SignalInv, NEW d, Clean(d) PROVE SignalInv'
<1> DEFINE old == slotLists[current]
           gone == {x \in 1..connected : Expired(x)}
           list == Erase(old, gone)
<1>1. WriteList(list) /\ UNCHANGED <<caller, connected, held>>
  BY DEF Clean
<1>2. /\ connected \in Nat /\ old \in Seq(Nat) /\ Ordered(old, connected)
      /\ caller \in [Callers -> CallType] /\ held \subseteq 1..connected
  <2>1. old \in Seq(Nat)
    BY DEF SignalInv, SignalTyped
  <2> QED
    BY <2>1 DEF SignalInv, SignalTyped
<1>3. \A s \in held : s \notin gone
  BY DEF Expired
<1> HIDE DEF gone, old
<1>4. /\ list \in Seq(Nat) /\ Ordered(list, connected)
      /\ \A s : Has(list, s) <=> Has(old, s) /\ s \notin gone
  BY <1>2, Erased
<1> HIDE DEF list
<1>5. connected' \in Nat /\ connected <= connected' /\ Ordered(list, connected')
  BY <1>1, <1>2, <1>4
<1>6. /\ slotLists' \in [Versions -> Seq(Nat)] /\ current' \in Versions
      /\ slotLists'[current'] = list
      /\ \A v \in Versions : Ordered(slotLists'[v], connected')
      /\ \A t \in Callers : InCall(t) =>
            slotLists'[caller[t].version] = slotLists[caller[t].version]
      /\ \A t \in Callers : Locked(t)' = Locked(t)
  BY <1>1, <1>4, <1>5, WriteLeavesCalls
<1>7. Live' = Live
  BY <1>1, <1>6 DEF Live, Expired
<1>8. SignalTyped'
  BY <1>1, <1>2, <1>6 DEF SignalTyped
<1>9. \A s \in held' : Has(list, s)
  BY <1>1, <1>3, <1>4 DEF SignalInv, old
<1>10. \A i \in 1..Len(list) : list[i] \notin Live' => list[i] \in dying'
  <2> TAKE i \in 1..Len(list)
  <2>1. list[i] \in 1..connected /\ list[i] \notin gone
    BY <1>4 DEF Ordered, Has
  <2> QED
    BY <1>7, <2>1 DEF Live, gone
<1>11. ASSUME NEW t \in Callers
       PROVE  IF InCall(t)'
              THEN CallFits(caller'[t], slotLists'[caller'[t].version], held', Live')
              ELSE caller'[t] = Out
  BY <1>1, <1>6, <1>7 DEF InCall, SignalInv
<1> QED
  BY <1>6, <1>8, <1>9, <1>10, <1>11 DEF SignalInv

\* A handle goes: a slot that nobody has locked is expired from here on, and
\* its destructor is to run.
LEMMA DropKeeps == ASSUME SignalInv, NEW d, DropSlot(d) PROVE SignalInv'
<1>1. /\ d \in held /\ held' = held \ {d}
      /\ dying' = IF \E t \in Callers : d \in Locked(t) THEN dying ELSE dying \cup {d}
      /\ caller' = [t \in Callers |-> [caller[t] EXCEPT !.kept = @ \ {d}]]
      /\ UNCHANGED <<slotLists, current, connected>>
  BY DEF DropSlot
<1>2. ASSUME NEW t \in Callers
      PROVE  /\ caller'[t] \in CallType /\ caller'[t].kept = caller[t].kept \ {d}
             /\ caller'[t].at = caller[t].at /\ caller'[t].version = caller[t].version
             /\ caller'[t].next = caller[t].next /\ caller'[t].called = caller[t].called
             /\ caller'[t].entry = caller[t].entry
             /\ caller[t] = Out => caller'[t] = Out
  <2> DEFINE less == caller[t].kept \ {d}
  <2>1. caller[t] \in CallType /\ less \in SUBSET Nat
    BY DEF SignalInv, SignalTyped, CallType
  <2>2. caller'[t] = [caller[t] EXCEPT !.kept = less]
    BY <1>1
  <2>3. caller[t] = Out => less = caller[t].kept
    BY DEF Out
  <2> HIDE DEF less
  <2>4. less = caller[t].kept => caller'[t] = caller[t]
    BY <2>1, <2>2 DEF CallType
  <2>5. /\ caller'[t] \in CallType /\ caller'[t].kept = less
        /\ caller'[t].at = caller[t].at /\ caller'[t].version = caller[t].version
        /\ caller'[t].next = caller[t].next /\ caller'[t].called = caller[t].called
        /\ caller'[t].entry = caller[t].entry
    BY <2>1, <2>2 DEF CallType
  <2> QED
    BY <2>3, <2>4, <2>5 DEF less
<1>3. SignalTyped'
  <2>1. caller' \in [Callers -> CallType]
    BY <1>1, <1>2
  <2> QED
    BY <1>1, <2>1 DEF SignalInv, SignalTyped
<1>4. \A t \in Callers : Locked(t)' = Locked(t) /\ InCall(t)' = InCall(t)
  BY <1>1, <1>2 DEF Locked, InCall
<1>5. Live' \subseteq Live /\ \A s \in Live : s \notin Live' => s = d /\ s \in dying'
  BY <1>1, <1>4 DEF Live, Expired
<1>6. \A s \in held' : Has(slotLists'[current'], s)
  BY <1>1 DEF SignalInv
<1>7. \A i \in 1..Len(slotLists'[current']) :
         slotLists'[current'][i] \notin Live' => slotLists'[current'][i] \in dying'
  BY <1>1, <1>5 DEF SignalInv
<1>8. ASSUME NEW t \in Callers
      PROVE  IF InCall(t)'
             THEN CallFits(caller'[t], slotLists'[caller'[t].version], held', Live')
             ELSE caller'[t] = Out
  <2>1. CASE ~InCall(t)
    BY <1>2, <1>4, <2>1 DEF SignalInv
  <2>2. CASE InCall(t)
    <3> DEFINE k == caller[t]
               e == caller'[t]
               own == slotLists[k.version]
    <3>1. CallFits(k, own, held, Live)
      BY <2>2 DEF SignalInv
    <3>2. /\ e.kept = k.kept \ {d} /\ e.at = k.at /\ e.next = k.next
          /\ e.called = k.called /\ e.entry = k.entry
      BY <1>2
    <3>3. CallFits(e, own, held', Live')
      <4> HIDE DEF k, e, own
      <4>1. \A j \in 1..Len(own) : own[j] \in Live' => own[j] \in e.entry
        BY <1>5, <3>1, <3>2 DEF CallFits
      <4>2. e.kept \subseteq held'
        BY <1>1, <3>1, <3>2 DEF CallFits
      <4>3. \A s \in e.kept : s \in k.kept
        BY <3>2
      <4> QED
        BY <3>1, <3>2, <4>1, <4>2, <4>3 DEF CallFits
    <3> QED
      BY <1>1, <1>2, <1>4, <2>2, <3>3
  <2> QED
    BY <2>1, <2>2
<1> QED
  BY <1>1, <1>3, <1>6, <1>7, <1>8 DEF SignalInv

\* A step of call() in one thread
LEMMA CallerKeeps ==
    ASSUME SignalInv, NEW t \in Callers, NEW e \in CallType,
           caller' = [caller EXCEPT ![t] = e], e.at # "out",
           UNCHANGED <<slotLists, current, connected, held>>,
           CallFits(e, slotLists[e.version], held, Live'),
           Live' \subseteq Live, \A s \in Live : s \notin Live' => s \in dying',
           dying \subseteq dying'
    PROVE  SignalInv'
<1>1. /\ caller' \in [Callers -> CallType] /\ caller'[t] = e
      /\ \A u \in Callers \ {t} : caller'[u] = caller[u]
  BY DEF SignalInv, SignalTyped
<1>2. SignalTyped'
  BY <1>1 DEF SignalInv, SignalTyped
<1>3. \A i \in 1..Len(slotLists'[current']) :
         slotLists'[current'][i] \notin Live' => slotLists'[current'][i] \in dying'
  BY DEF SignalInv
<1>4. ASSUME NEW u \in Callers
      PROVE  IF InCall(u)'
             THEN CallFits(caller'[u], slotLists'[caller'[u].version], held', Live')
             ELSE caller'[u] = Out
  <2>1. CASE u = t
    BY <1>1, <2>1 DEF InCall
  <2>2. CASE u # t
    <3>1. caller'[u] = caller[u]
      BY <1>1, <2>2
    <3>2. CASE ~InCall(u)
      BY <3>1, <3>2 DEF InCall, SignalInv
    <3>3. CASE InCall(u)
      <4> DEFINE k == caller[u]
                 own == slotLists[k.version]
      <4>1. CallFits(k, own, held, Live)
        BY <3>3 DEF SignalInv
      <4>2. k.kept \subseteq held
        BY <4>1 DEF CallFits
      <4>3. CallFits(k, own, held, Live')
        <5> HIDE DEF k, own
        <5> QED
          BY <4>1, <4>2, FitsOn
      <4> QED
        BY <3>1, <3>3, <4>3 DEF InCall
    <3> QED
      BY <3>2, <3>3
  <2> QED
    BY <2>1, <2>2
<1> QED
  BY <1>2, <1>3, <1>4 DEF SignalInv

\* call() takes the list.
LEMMA CallKeeps == ASSUME SignalInv, NEW t \in Callers, CallSignal(t) PROVE SignalInv'
<1> DEFINE e == [at |-> "loop", version |-> current, next |-> 1, called |-> <<>>,
                 entry |-> Live, kept |-> held]
           list == slotLists[current]
<1>1. /\ ~InCall(t) /\ caller' = [caller EXCEPT ![t] = e]
      /\ UNCHANGED <<slotLists, current, connected, held, dying>>
  BY DEF CallSignal, Live
<1>2. /\ caller \in [Callers -> CallType] /\ current \in Versions /\ connected \in Nat
      /\ held \subseteq 1..connected /\ list \in Seq(Nat) /\ Len(list) \in Nat
  <2>1. list \in Seq(Nat)
    BY DEF SignalInv, SignalTyped
  <2> QED
    BY <2>1, LenProperties DEF SignalInv, SignalTyped
<1>3. Live \subseteq Nat /\ held \subseteq Nat
  BY <1>2 DEF Live
<1>4. /\ e.at = "loop" /\ e.version = current /\ e.next = 1 /\ e.called = <<>>
      /\ e.entry = Live /\ e.kept = held /\ e \in CallType
  <2> HIDE DEF Live
  <2> QED
    BY <1>2, <1>3 DEF CallType
<1> HIDE DEF e
<1>5. \A u \in Callers : Locked(u)' = Locked(u)
  <2>1. caller'[t] = e /\ \A u \in Callers \ {t} : caller'[u] = caller[u]
    BY <1>1, <1>2
  <2> QED
    BY <1>1, <1>4, <2>1 DEF Locked, InCall
<1>6. Live' = Live
  BY <1>1, <1>5 DEF Live, Expired
<1>7. CallFits(e, list, held, Live)
  <2>1. \A s \in held : \E j \in 1..Len(list) : list[j] = s
    BY DEF SignalInv, Has
  <2>2. 1 \in 1..(Len(list) + 1)
    BY <1>2
  <2> HIDE DEF list
  <2>3. Len(e.called) = 0 /\ 1..0 = {}
    BY <1>4
  <2> QED
    BY <1>4, <2>1, <2>2, <2>3 DEF CallFits
<1>8. e.at # "out" /\ dying \subseteq dying' /\ Live' \subseteq Live
      /\ CallFits(e, slotLists[e.version], held, Live')
      /\ \A s \in Live : s \notin Live' => s \in dying'
  BY <1>1, <1>4, <1>6, <1>7
<1> QED
  BY <1>1, <1>4, <1>8, CallerKeeps

\* The next slot is expired, and not one that the call must reach, or it is
\* locked and called: those called before stand before it in the list.
LEMMA NextKeeps == ASSUME SignalInv, NEW t \in Callers, NextSlot(t) PROVE SignalInv'
<1> DEFINE k == caller[t]
           list == slotLists[k.version]
           x == list[k.next]
           more == k.next + 1
           calls == Append(k.called, x)
<1>1. /\ k.at = "loop" /\ k.next <= Len(list)
      /\ Expired(x) => caller' = [caller EXCEPT ![t] = [k EXCEPT !.next = more]]
      /\ ~Expired(x) => caller' = [caller EXCEPT ![t] = [k EXCEPT !.at = "callback",
                                                                  !.called = calls]]
      /\ UNCHANGED <<slotLists, current, connected, held, dying>>
  BY DEF NextSlot
<1>2. /\ caller \in [Callers -> CallType] /\ k \in CallType /\ k.next \in Nat
      /\ k.version \in Versions /\ list \in Seq(Nat) /\ Len(list) \in Nat
      /\ Ordered(list, connected) /\ connected \in Nat /\ k.called \in Seq(Nat)
  <2>1. k \in CallType /\ caller \in [Callers -> CallType] /\ connected \in Nat
    BY DEF SignalInv, SignalTyped
  <2>2. k.next \in Nat /\ k.version \in Versions /\ k.called \in Seq(Nat)
    BY <2>1 DEF CallType
  <2>3. list \in Seq(Nat)
    BY <2>2 DEF SignalInv, SignalTyped
  <2> QED
    BY <2>1, <2>2, <2>3, LenProperties DEF SignalInv
<1>3. CallFits(k, list, held, Live)
  BY <1>1 DEF SignalInv, InCall
<1>4. k.next \in 1..Len(list) /\ x \in 1..connected /\ x \in Nat /\ more \in Nat
  <2>1. k.next \in 1..Len(list)
    BY <1>1, <1>2, <1>3 DEF CallFits
  <2> QED
    BY <1>2, <2>1 DEF Ordered
<1>5. ASSUME NEW e, caller' = [caller EXCEPT ![t] = e]
      PROVE  caller'[t] = e /\ \A u \in Callers \ {t} : caller'[u] = caller[u]
  BY <1>2, <1>5
<1>6. CASE Expired(x)
  <2> DEFINE e == [k EXCEPT !.next = more]
  <2>1. caller' = [caller EXCEPT ![t] = e]
    BY <1>1, <1>6
  <2> HIDE DEF more, k
  <2>2. /\ e \in CallType /\ e.at = k.at /\ e.version = k.version /\ e.next = more
        /\ e.called = k.called /\ e.entry = k.entry /\ e.kept = k.kept
    BY <1>2, <1>4 DEF CallType
  <2> HIDE DEF e
  <2>3. \A u \in Callers : Locked(u)' = Locked(u)
    <3>1. caller'[t] = e /\ \A u \in Callers \ {t} : caller'[u] = caller[u]
      BY <1>5, <2>1
    <3> QED
      BY <1>1, <2>2, <3>1 DEF Locked, k
  <2>4. Live' = Live
    BY <1>1, <2>3 DEF Live, Expired
  <2>5. x \notin held
    BY <1>6 DEF Expired
  <2> HIDE DEF list, x
  <2>6. CallFits(e, list, held, Live)
    <3>1. more \in 1..(Len(list) + 1) /\ k.next < more /\ \A j \in Nat : j < k.next => j < more
      BY <1>2, <1>4 DEF more
    <3>2. \A j \in k.next..Len(list) : j = k.next \/ j \in more..Len(list)
      BY <1>2, <1>4 DEF more
    <3>3. \A i \in 1..Len(e.called) :
             /\ e.called[i] \in e.entry
             /\ \E j \in 1..Len(list) : list[j] = e.called[i] /\ j < e.next
      <4> TAKE i \in 1..Len(e.called)
      <4>1. PICK j \in 1..Len(list) : list[j] = k.called[i] /\ j < k.next
        BY <1>1, <1>3, <2>2 DEF CallFits
      <4>2. j < more
        <5>1. j \in Nat
          OBVIOUS
        <5> QED
          BY <3>1, <4>1, <5>1
      <4> QED
        BY <1>3, <2>2, <4>1, <4>2 DEF CallFits
    <3>4. \A s \in e.kept : Has(e.called, s) \/ \E j \in e.next..Len(list) : list[j] = s
      BY <1>3, <2>2, <2>5, <3>2 DEF CallFits, x
    <3> QED
      BY <1>1, <1>3, <2>2, <3>1, <3>3, <3>4 DEF CallFits
  <2>7. e.at # "out" /\ dying \subseteq dying' /\ Live' \subseteq Live
        /\ CallFits(e, slotLists[e.version], held, Live')
        /\ \A s \in Live : s \notin Live' => s \in dying'
    BY <1>1, <2>2, <2>4, <2>6 DEF list
  <2> QED
    BY <1>1, <2>1, <2>2, <2>7, CallerKeeps
<1>7. CASE ~Expired(x)
  <2> DEFINE e == [k EXCEPT !.at = "callback", !.called = calls]
  <2>1. caller' = [caller EXCEPT ![t] = e]
    BY <1>1, <1>7
  <2>2. x \in Live
    BY <1>4, <1>7 DEF Live
  <2> HIDE DEF x
  <2>3. /\ calls \in Seq(Nat) /\ Len(k.called) \in Nat /\ Len(calls) = Len(k.called) + 1
        /\ (\A i \in 1..Len(k.called) : calls[i] = k.called[i])
        /\ calls[Len(k.called) + 1] = x
    <3> HIDE DEF k
    <3> QED
      BY <1>2, <1>4, AppendProperties, LenProperties
  <2> HIDE DEF calls, k
  <2>4. /\ e \in CallType /\ e.at = "callback" /\ e.version = k.version /\ e.next = k.next
        /\ e.called = calls /\ e.entry = k.entry /\ e.kept = k.kept
    BY <1>2, <2>3 DEF CallType
  <2> HIDE DEF e
  <2>5. caller'[t] = e /\ \A u \in Callers \ {t} : caller'[u] = caller[u]
    BY <1>5, <2>1
  <2>6. Live' = Live
    <3>1. Locked(t) = {} /\ Locked(t)' = {x} /\ \A u \in Callers \ {t} : Locked(u)' = Locked(u)
      BY <1>1, <2>4, <2>5 DEF Locked, k, list, x
    <3>2. \A s : Expired(s)' <=> Expired(s) /\ s # x
      BY <1>1, <3>1 DEF Expired
    <3> QED
      BY <1>1, <1>7, <3>2 DEF Live, x
  <2> HIDE DEF list
  <2>7. 1..Len(calls) = 1..Len(k.called) \cup {Len(k.called) + 1}
    BY <2>3
  <2>8. CallFits(e, list, held, Live)
    <3>1. \A i \in 1..Len(k.called) :
             /\ k.called[i] \in k.entry
             /\ \E j \in 1..Len(list) : list[j] = k.called[i] /\ j < k.next
      BY <1>1, <1>3 DEF CallFits
    <3>2. x \in k.entry
      BY <1>3, <1>4, <2>2 DEF CallFits, x
    <3>3. \A i \in 1..Len(k.called) : k.called[i] < x
      BY <1>2, <1>4, <3>1 DEF Ordered, x
    <3>4. ASSUME NEW i \in 1..Len(calls), NEW j \in 1..Len(calls), i < j
          PROVE  calls[i] < calls[j]
      <4>1. i \in 1..Len(k.called)
        BY <2>3, <3>4
      <4>2. CASE j = Len(k.called) + 1
        BY <2>3, <3>3, <4>1, <4>2
      <4>3. CASE j \in 1..Len(k.called)
        BY <1>3, <2>3, <3>4, <4>1, <4>3 DEF CallFits
      <4> QED
        BY <2>7, <4>2, <4>3
    <3>5. \A i \in 1..Len(calls) :
             /\ calls[i] \in k.entry
             /\ \E j \in 1..Len(list) : list[j] = calls[i] /\ (j < k.next \/ j = k.next)
      BY <1>4, <2>3, <2>7, <3>1, <3>2 DEF x
    <3>6. \A s \in k.kept : Has(calls, s) \/ \E j \in k.next..Len(list) : list[j] = s
      BY <1>3, <2>3, <2>7 DEF CallFits, Has
    <3>7. k.next \in 1..(Len(list) + 1) /\ k.next <= Len(list)
      BY <1>1, <1>3 DEF CallFits
    <3>8. (\A j \in 1..Len(list) : list[j] \in Live => list[j] \in k.entry)
          /\ k.kept \subseteq held
      BY <1>3 DEF CallFits
    <3>9. Has(calls, list[k.next])
      BY <2>3, <2>7 DEF Has, x
    <3> QED
      BY <2>4, <3>4, <3>5, <3>6, <3>7, <3>8, <3>9 DEF CallFits
  <2>9. e.at # "out" /\ dying \subseteq dying' /\ Live' \subseteq Live
        /\ CallFits(e, slotLists[e.version], held, Live')
        /\ \A s \in Live : s \notin Live' => s \in dying'
    BY <1>1, <2>4, <2>6, <2>8 DEF list
  <2> QED
    BY <1>1, <2>1, <2>4, <2>9, CallerKeeps
<1> QED
  BY <1>6, <1>7

\* The callback returns; if it had the last reference, the slot is expired and
\* its destructor is to run.
LEMMA CallbackKeeps == ASSUME SignalInv, NEW t \in Callers, CallbackReturns(t) PROVE SignalInv'
<1> DEFINE k == caller[t]
           list == slotLists[k.version]
           x == list[k.next]
           more == k.next + 1
           e == [k EXCEPT !.at = "loop", !.next = more]
<1>1. /\ k.at = "callback"
      /\ dying' = dying \cup {s \in Locked(t) : s \notin held
                                 /\ \A u \in Callers \ {t} : s \notin Locked(u)}
      /\ UNCHANGED <<slotLists, current, connected, held>>
  BY DEF CallbackReturns
<1>2. /\ caller \in [Callers -> CallType] /\ k \in CallType /\ k.next \in Nat
      /\ k.version \in Versions /\ list \in Seq(Nat) /\ Len(list) \in Nat
  <2>1. k \in CallType /\ caller \in [Callers -> CallType]
    BY DEF SignalInv, SignalTyped
  <2>2. k.next \in Nat /\ k.version \in Versions
    BY <2>1 DEF CallType
  <2>3. list \in Seq(Nat)
    BY <2>2 DEF SignalInv, SignalTyped
  <2> QED
    BY <2>1, <2>2, <2>3, LenProperties
<1>3. caller' = [caller EXCEPT ![t] = e]
  <2>1. caller' = [caller EXCEPT ![t].at = "loop", ![t].next = @ + 1]
    BY DEF CallbackReturns
  <2>2. k.next + 1 = more
    OBVIOUS
  <2> HIDE DEF more
  <2> QED
    BY <1>2, <2>1, <2>2 DEF CallType
<1>4. CallFits(k, list, held, Live)
  BY <1>1 DEF SignalInv, InCall
<1>5. /\ more \in Nat /\ more \in 1..(Len(list) + 1) /\ k.next \in 1..Len(list)
      /\ \A j \in Nat : j < k.next \/ j = k.next => j < more
      /\ \A j \in k.next..Len(list) : j = k.next \/ j \in more..Len(list)
  <2>1. k.next \in 1..Len(list)
    BY <1>1, <1>2, <1>4 DEF CallFits
  <2> HIDE DEF k, list
  <2> QED
    BY <1>2, <2>1
<1> HIDE DEF more, k, list
<1>6. /\ e \in CallType /\ e.at = "loop" /\ e.version = k.version /\ e.next = more
      /\ e.called = k.called /\ e.entry = k.entry /\ e.kept = k.kept
  BY <1>2, <1>5 DEF CallType
<1> HIDE DEF e
<1>7. caller'[t] = e /\ \A u \in Callers \ {t} : caller'[u] = caller[u]
  BY <1>2, <1>3
<1>8. Locked(t) = {x} /\ Locked(t)' = {} /\ \A u \in Callers \ {t} : Locked(u)' = Locked(u)
  BY <1>1, <1>6, <1>7 DEF Locked, k, list
<1> HIDE DEF x
<1>9. \A s : (Expired(s) => Expired(s)') /\ (Expired(s)' => Expired(s) \/ s \in dying')
  BY <1>1, <1>8 DEF Expired
<1>10. Live' \subseteq Live /\ \A s \in Live : s \notin Live' => s \in dying'
  BY <1>1, <1>9 DEF Live
<1>11. CallFits(e, list, held, Live')
  <2>1. \A i \in 1..Len(e.called) :
           /\ e.called[i] \in e.entry
           /\ \E j \in 1..Len(list) : list[j] = e.called[i] /\ j < e.next
    <3> TAKE i \in 1..Len(e.called)
    <3>1. PICK j \in 1..Len(list) : list[j] = k.called[i] /\ (j < k.next \/ j = k.next)
      BY <1>4, <1>6 DEF CallFits
    <3>2. j \in Nat
      OBVIOUS
    <3>3. j < more
      BY <1>5, <3>1, <3>2
    <3> QED
      BY <1>4, <1>6, <3>1, <3>3 DEF CallFits
  <2>2. \A s \in e.kept : Has(e.called, s) \/ \E j \in e.next..Len(list) : list[j] = s
    <3> SUFFICES ASSUME NEW s \in k.kept, ~Has(k.called, s)
                 PROVE  \E j \in more..Len(list) : list[j] = s
      BY <1>6
    <3>1. PICK j \in k.next..Len(list) : list[j] = s
      BY <1>4 DEF CallFits
    <3>2. s # x
      BY <1>1, <1>4 DEF CallFits, x
    <3> QED
      BY <1>5, <3>1, <3>2 DEF x
  <2> QED
    BY <1>4, <1>5, <1>6, <1>10, <2>1, <2>2 DEF CallFits
<1>12. e.at # "out" /\ dying \subseteq dying' /\ CallFits(e, slotLists[e.version], held, Live')
  BY <1>1, <1>6, <1>11 DEF list
<1> QED
  BY <1>1, <1>3, <1>6, <1>10, <1>12, CallerKeeps

\* call() returns; the lists that nobody holds any more are gone.
LEMMA ReturnKeeps == ASSUME SignalInv, NEW t \in Callers, CallReturns(t) PROVE SignalInv'
<1>1. /\ caller[t].at = "loop" /\ caller' = [caller EXCEPT ![t] = Out]
      /\ slotLists' = [v \in Versions |->
                          IF v # current /\ ~Shared(v)' THEN <<>> ELSE slotLists[v]]
      /\ UNCHANGED <<current, connected, held, dying>>
  BY DEF CallReturns, LoopEnded
<1>2. /\ slotLists \in [Versions -> Seq(Nat)] /\ current \in Versions
      /\ connected \in Nat /\ caller \in [Callers -> CallType]
  BY DEF SignalInv, SignalTyped
<1>3. Out \in CallType /\ Out.at = "out"
  <2>1. IsFiniteSet(Callers)
    BY SignalAssumption
  <2>2. Cardinality(Callers) \in Nat
    BY <2>1, FS_CardinalityType
  <2>3. 0 \in Versions
    BY <2>2 DEF Versions
  <2> QED
    BY <2>3 DEF Out, CallType
<1>4. /\ caller' \in [Callers -> CallType] /\ caller'[t] = Out
      /\ \A u \in Callers \ {t} : caller'[u] = caller[u]
  BY <1>1, <1>2, <1>3
<1>5. \A u \in Callers : InCall(u)' => u # t /\ InCall(u) /\ caller'[u] = caller[u]
  BY <1>3, <1>4 DEF InCall
<1>6. slotLists'[current] = slotLists[current]
  BY <1>1, <1>2
<1>7. ASSUME NEW u \in Callers, InCall(u)'
      PROVE  slotLists'[caller[u].version] = slotLists[caller[u].version]
  <2>1. PICK v \in Versions : v = caller[u].version
    BY <1>2 DEF CallType
  <2>2. Shared(v)'
    BY <1>5, <1>7, <2>1 DEF Shared
  <2>3. slotLists'[v] = slotLists[v]
    BY <1>1, <2>2
  <2> QED
    BY <2>1, <2>3
<1>8. \A u \in Callers : Locked(u)' = Locked(u)
  <2> TAKE u \in Callers
  <2>1. CASE InCall(u)'
    BY <1>5, <1>7, <2>1 DEF Locked
  <2>2. CASE ~InCall(u)'
    BY <1>1, <1>3, <1>4, <2>2 DEF Locked, InCall
  <2> QED
    BY <2>1, <2>2
<1>9. Live' = Live
  BY <1>1, <1>8 DEF Live, Expired
<1>10. slotLists' \in [Versions -> Seq(Nat)]
       /\ \A v \in Versions : slotLists'[v] = <<>> \/ slotLists'[v] = slotLists[v]
  BY <1>1, <1>2
<1>11. \A v \in Versions : Ordered(slotLists'[v], connected)
  <2>1. Ordered(<<>>, connected)
    BY DEF Ordered
  <2> QED
    BY <1>10, <2>1 DEF SignalInv
<1>12. SignalTyped'
  BY <1>1, <1>4, <1>10 DEF SignalInv, SignalTyped
<1>13. ASSUME NEW u \in Callers
       PROVE  IF InCall(u)'
              THEN CallFits(caller'[u], slotLists'[caller'[u].version], held', Live')
              ELSE caller'[u] = Out
  <2>1. CASE InCall(u)'
    <3>1. CallFits(caller[u], slotLists[caller[u].version], held, Live)
      BY <1>5, <2>1 DEF SignalInv
    <3> QED
      BY <1>1, <1>5, <1>7, <1>9, <2>1, <3>1
  <2>2. CASE ~InCall(u)'
    BY <1>4, <2>2 DEF SignalInv, InCall
  <2> QED
    BY <2>1, <2>2
<1> QED
  BY <1>1, <1>6, <1>9, <1>11, <1>12, <1>13 DEF SignalInv

LEMMA SignalInvInit == ASSUME SignalInit PROVE SignalInv
<1>1. IsFiniteSet(Callers)
  BY SignalAssumption
<1>2. Cardinality(Callers) \in Nat
  BY <1>1, FS_CardinalityType
<1>3. 0 \in Versions
  BY <1>2 DEF Versions
<1>4. Out \in CallType /\ Out.at = "out"
  BY <1>3 DEF Out, CallType
<1>5. SignalTyped
  BY <1>3, <1>4 DEF SignalInit, SignalTyped
<1>6. \A v \in Versions : slotLists[v] = <<>>
  BY DEF SignalInit
<1>7. \A v \in Versions : Ordered(slotLists[v], connected)
  BY <1>6 DEF Ordered
<1>8. held = {} /\ slotLists[current] = <<>> /\ \A t \in Callers : caller[t] = Out
  BY <1>3 DEF SignalInit
<1>9. \A t \in Callers : ~InCall(t)
  BY <1>4, <1>8 DEF InCall
<1> HIDE DEF Live
<1>10. \A i \in 1..Len(slotLists[current]) : FALSE
  BY <1>8
<1> QED
  BY <1>5, <1>7, <1>8, <1>9, <1>10 DEF SignalInv

LEMMA SignalStep == ASSUME SignalInv, [SignalNext]_signalVars PROVE SignalInv'
<1>1. CASE ConnectSlot
  BY <1>1, ConnectKeeps
<1>2. ASSUME NEW s \in Slots, DropSlot(s) PROVE SignalInv'
  BY <1>2, DropKeeps
<1>3. ASSUME NEW s \in Slots, Clean(s) PROVE SignalInv'
  BY <1>3, CleanKeeps
<1>4. ASSUME NEW t \in Callers, CallSignal(t) PROVE SignalInv'
  BY <1>4, CallKeeps
<1>5. ASSUME NEW t \in Callers, NextSlot(t) PROVE SignalInv'
  BY <1>5, NextKeeps
<1>6. ASSUME NEW t \in Callers, CallbackReturns(t) PROVE SignalInv'
  BY <1>6, CallbackKeeps
<1>7. ASSUME NEW t \in Callers, CallReturns(t) PROVE SignalInv'
  BY <1>7, ReturnKeeps
<1>8. CASE UNCHANGED signalVars
  BY <1>8 DEF signalVars, SignalInv, SignalTyped, InCall, Live, Expired, Locked
<1> QED
  BY <1>1, <1>2, <1>3, <1>4, <1>5, <1>6, <1>7, <1>8 DEF SignalNext

\* The invariant says what SlotsCalled says.
LEMMA FittingCallsCalled == ASSUME SignalInv PROVE SlotsCalled
<1>1. ASSUME NEW t \in Callers
      PROVE  LET c == caller[t]
                 calledSet == {c.called[i] : i \in DOMAIN c.called}
             IN  /\ \A i, j \in DOMAIN c.called : i < j => c.called[i] < c.called[j]
                 /\ calledSet \subseteq c.entry
                 /\ LoopEnded(t) => c.kept \subseteq calledSet
  <2> DEFINE c == caller[t]
             list == slotLists[c.version]
  <2>1. c.called \in Seq(Nat) /\ c.version \in Versions /\ c.next \in Nat
    BY DEF SignalInv, SignalTyped, CallType
  <2>2. list \in Seq(Nat)
    BY <2>1 DEF SignalInv, SignalTyped
  <2>3. DOMAIN c.called = 1..Len(c.called) /\ Len(list) \in Nat
    BY <2>1, <2>2, LenProperties
  <2>4. CASE ~InCall(t)
    <3>1. c = Out /\ c.at = "out"
      BY <2>4 DEF SignalInv, InCall
    <3>2. c.called = <<>> /\ Len(c.called) = 0 /\ ~LoopEnded(t)
      BY <3>1 DEF Out, LoopEnded
    <3>3. DOMAIN c.called = {}
      BY <2>3, <3>2
    <3> QED
      BY <3>2, <3>3
  <2>5. CASE InCall(t)
    <3>1. CallFits(c, list, held, Live)
      BY <2>5 DEF SignalInv
    <3>2. LoopEnded(t) => c.next..Len(list) = {}
      BY <2>1, <2>3 DEF LoopEnded
    <3> HIDE DEF c, list
    <3>3. LoopEnded(t) => \A s \in c.kept : Has(c.called, s)
      BY <3>1, <3>2 DEF CallFits
    <3>4. \A i, j \in DOMAIN c.called : i < j => c.called[i] < c.called[j]
      BY <2>3, <3>1 DEF CallFits
    <3>5. \A i \in DOMAIN c.called : c.called[i] \in c.entry
      BY <2>3, <3>1 DEF CallFits
    <3>6. LoopEnded(t) => \A s \in c.kept : \E i \in DOMAIN c.called : s = c.called[i]
      BY <2>3, <3>3 DEF Has
    <3> HIDE DEF LoopEnded
    <3> QED
      BY <3>4, <3>5, <3>6 DEF c
  <2> QED
    BY <2>4, <2>5
<1>2. ASSUME NEW i \in DOMAIN slotLists[current], Expired(slotLists[current][i])
      PROVE  slotLists[current][i] \in dying
  <2>1. slotLists[current] \in Seq(Nat)
    BY DEF SignalInv, SignalTyped
  <2>2. i \in 1..Len(slotLists[current])
    BY <2>1, LenProperties
  <2> QED
    BY <1>2, <2>2 DEF SignalInv, Live
<1> QED
  BY <1>1, <1>2 DEF SlotsCalled

(* For any number of calling threads and of slots: whatever connects and    *)
(* drops slots while call() runs, a call reaches the slots that were        *)
(* connected when it began and kept until it ended, in the order of         *)
(* connection and no other (SlotsCalled), because copyOnWrite() always      *)
(* finds a list that no call iterates over.                                 *)
THEOREM SlotsAreCalled == SignalSpec => []SlotsCalled
<1>1. SignalInit => SignalInv
  BY SignalInvInit
<1>2. SignalInv /\ [SignalNext]_signalVars => SignalInv'
  BY SignalStep
<1>3. SignalInv => SlotsCalled
  BY FittingCallsCalled
<1> QED
  BY <1>1, <1>2, <1>3, PTL DEF SignalSpec

-----------------------------------------------------------------------------
(* ThreadPool: its queue implements a Fifo for any number of workers,       *)
(* producers and tasks and for every maxQueueSize_.                         *)

Task == 1..MaxTasks

PoolTyped ==
    /\ tasks \in Seq(Task) /\ submitted \in Seq(Task) /\ taken \in Seq(Task)
    /\ producer \in [Producers -> {"out", "waiting"}]

(* The calls that wait for room still have a task to push: with it a pushed *)
(* task is always one of the bounded set.                                   *)
CallsFit == Cardinality(Calls) <= MaxTasks - Len(submitted)

(* What has been pushed is what has been taken and then what is queued.     *)
QueueInOrder == submitted = taken \o tasks

PoolQueueInv == PoolTyped /\ CallsFit /\ QueueInOrder

-----------------------------------------------------------------------------

\* pop_front() moves one task from the queue to the end of those taken.
LEMMA TakeKeepsOrder ==
    ASSUME NEW S, NEW r \in Seq(S), NEW q \in Seq(S), q # <<>>
    PROVE  /\ Append(r, Head(q)) \in Seq(S) /\ Tail(q) \in Seq(S)
           /\ Len(Append(r, Head(q))) = Len(r) + 1
           /\ Append(r, Head(q)) \o Tail(q) = r \o q
<1>1. /\ Head(q) \in S /\ Tail(q) \in Seq(S) /\ <<Head(q)>> \in Seq(S)
      /\ Len(q) \in Nat /\ Len(q) > 0 /\ Len(Tail(q)) = Len(q) - 1
      /\ \A i \in 1 .. (Len(q) - 1) : Tail(q)[i] = q[i + 1]
      /\ Head(q) = q[1]
  BY HeadTailProperties, EmptySeq, LenProperties
<1>2. /\ <<Head(q)>> \o Tail(q) \in Seq(S)
      /\ Len(<<Head(q)>> \o Tail(q)) = Len(q)
      /\ \A i \in 1 .. Len(q) : (<<Head(q)>> \o Tail(q))[i] = q[i]
  BY <1>1, ConcatProperties
<1>3. <<Head(q)>> \o Tail(q) = q
  BY <1>2, SeqEqual
<1>4. Append(r, Head(q)) = r \o <<Head(q)>>
  BY <1>1, AppendIsConcat
<1>5. (r \o <<Head(q)>>) \o Tail(q) = r \o (<<Head(q)>> \o Tail(q))
  BY <1>1, ConcatAssociative
<1>6. Append(r, Head(q)) \in Seq(S) /\ Len(Append(r, Head(q))) = Len(r) + 1
  BY <1>1, AppendProperties
<1> QED
  BY <1>1, <1>3, <1>4, <1>5, <1>6

\* push_back() keeps what was taken in front of what is queued.
LEMMA PushKeepsOrder ==
    ASSUME NEW r \in Seq(Task), NEW q \in Seq(Task), NEW x \in Task
    PROVE  Append(r \o q, x) = r \o Append(q, x)
<1>1. r \o q \in Seq(Task) /\ <<x>> \in Seq(Task)
  BY ConcatProperties
<1>2. Append(r \o q, x) = (r \o q) \o <<x>> /\ Append(q, x) = q \o <<x>>
  BY <1>1, AppendIsConcat
<1>3. (r \o q) \o <<x>> = r \o (q \o <<x>>)
  BY <1>1, ConcatAssociative
<1> QED
  BY <1>2, <1>3

\* What a sequence begins with is its prefix of that length.
LEMMA PrefixOfConcat ==
    ASSUME NEW S, NEW r \in Seq(S), NEW q \in Seq(S)
    PROVE  SubSeq(r \o q, 1, Len(r)) = r /\ Len(r) <= Len(r \o q)
<1>1. /\ r \o q \in Seq(S) /\ Len(r \o q) = Len(r) + Len(q)
      /\ \A i \in 1..Len(r) : (r \o q)[i] = r[i]
      /\ Len(r) \in Nat /\ Len(q) \in Nat
  BY ConcatProperties, LenProperties
<1>2. /\ SubSeq(r \o q, 1, Len(r)) \in Seq(S)
      /\ Len(SubSeq(r \o q, 1, Len(r))) = Len(r)
      /\ \A i \in 1..Len(r) : SubSeq(r \o q, 1, Len(r))[i] = (r \o q)[i]
  BY <1>1, SubSeqProperties
<1> QED
  BY <1>1, <1>2, SeqEqual

-----------------------------------------------------------------------------
(* run().                                                                   *)

\* A call that waits for room or pushes its task leaves the others room for
\* theirs, and the task it pushes is within the bound.
LEMMA CallsStep ==
    ASSUME PoolQueueInv, NEW p \in Producers, RunTask(p)
    PROVE  /\ CallsFit' /\ producer' \in [Producers -> {"out", "waiting"}]
           /\ ~IsFull => Len(submitted) + 1 \in Task
<1>1. /\ IsFiniteSet(Calls) /\ Cardinality(Calls) \in Nat
      /\ Len(submitted) \in Nat /\ MaxTasks \in Nat
  <2>1. Calls \in SUBSET Producers
    BY DEF Calls
  <2> QED
    BY <2>1, FS_Subset, FS_CardinalityType, ProducersAssumption, TasksAssumption,
       LenProperties DEF PoolQueueInv, PoolTyped
<1>2. p \in Calls <=> producer[p] = "waiting"
  BY DEF Calls
<1>3. p \in Calls => Cardinality(Calls) >= 1
  BY <1>1, FS_EmptySet
<1>4. IF p \in Calls THEN Cardinality(Calls) <= MaxTasks - Len(submitted)
                     ELSE Cardinality(Calls) < MaxTasks - Len(submitted)
  BY <1>2 DEF RunTask, PoolQueueInv, CallsFit
<1>5. CASE IsFull
  <2>1. producer' = [producer EXCEPT ![p] = "waiting"] /\ submitted' = submitted
    BY <1>5 DEF RunTask
  <2>2. Calls' = Calls \cup {p}
    BY <2>1 DEF Calls, PoolQueueInv, PoolTyped
  <2>3. Cardinality(Calls') = IF p \in Calls THEN Cardinality(Calls) ELSE Cardinality(Calls) + 1
    BY <1>1, <2>2, FS_AddElement
  <2>4. CallsFit'
    BY <1>1, <1>4, <2>1, <2>3 DEF CallsFit
  <2> QED
    BY <1>5, <2>1, <2>4 DEF PoolQueueInv, PoolTyped
<1>6. CASE ~IsFull
  <2>1. /\ producer' = [producer EXCEPT ![p] = "out"]
        /\ submitted' = Append(submitted, Len(submitted) + 1)
    BY <1>6 DEF RunTask
  <2>2. Len(submitted) + 1 \in Task
    BY <1>1, <1>3, <1>4 DEF Task
  <2>3. Len(submitted') = Len(submitted) + 1
    BY <2>1, <2>2, AppendProperties DEF PoolQueueInv, PoolTyped
  <2>4. Calls' = Calls \ {p}
    BY <2>1 DEF Calls, PoolQueueInv, PoolTyped
  <2>5. Cardinality(Calls') = IF p \in Calls THEN Cardinality(Calls) - 1 ELSE Cardinality(Calls)
    BY <1>1, <2>4, FS_RemoveElement
  <2>6. CallsFit'
    BY <1>1, <1>4, <2>3, <2>5 DEF CallsFit
  <2> QED
    BY <2>1, <2>2, <2>6 DEF PoolQueueInv, PoolTyped
<1> QED
  BY <1>5, <1>6

\* run() keeps the invariant, and is a Put of the FIFO when it pushes.
LEMMA RunStep ==
    ASSUME PoolQueueInv, NEW p \in Producers, RunTask(p)
    PROVE  PoolQueueInv' /\ (Tasks!Put \/ UNCHANGED <<submitted, taken>>)
<1>1. CallsFit' /\ producer' \in [Producers -> {"out", "waiting"}] /\ taken' = taken
  BY CallsStep DEF RunTask
<1>2. CASE IsFull
  <2>1. tasks' = tasks /\ submitted' = submitted
    BY <1>2 DEF RunTask
  <2> QED
    BY <1>1, <2>1 DEF PoolQueueInv, PoolTyped, QueueInOrder
<1>3. CASE ~IsFull
  <2>1. PICK x \in Task : x = Len(submitted) + 1
    BY <1>3, CallsStep
  <2>2. tasks' = Append(tasks, x) /\ submitted' = Append(submitted, x)
    BY <1>3, <2>1 DEF RunTask
  <2>3. tasks' \in Seq(Task) /\ submitted' \in Seq(Task) /\ taken' \in Seq(Task)
    BY <1>1, <2>1, <2>2, AppendProperties DEF PoolQueueInv, PoolTyped
  <2>4. QueueInOrder'
    <3>1. taken \in Seq(Task) /\ tasks \in Seq(Task)
      BY DEF PoolQueueInv, PoolTyped
    <3>2. Append(taken \o tasks, x) = taken \o Append(tasks, x)
      BY <3>1, PushKeepsOrder, Zenon
    <3> QED
      BY <1>1, <2>2, <3>2 DEF PoolQueueInv, QueueInOrder
  <2>5. Tasks!Put
    BY <1>1, <2>1, <2>2 DEF Tasks!Put, Task
  <2> QED
    BY <1>1, <2>3, <2>4, <2>5 DEF PoolQueueInv, PoolTyped
<1> QED
  BY <1>2, <1>3

-----------------------------------------------------------------------------
(* take().                                                                  *)

\* take() keeps the invariant, and is a Get of the FIFO when there is a task.
LEMMA TakeStep ==
    ASSUME PoolQueueInv, NEW w, Take(w)
    PROVE  PoolQueueInv' /\ (Tasks!Get \/ UNCHANGED <<submitted, taken>>)
<1>1. submitted' = submitted /\ producer' = producer
  BY DEF Take
<1>2. CallsFit'
  BY <1>1 DEF PoolQueueInv, CallsFit, Calls
<1>3. CASE tasks = <<>>
  <2>1. tasks' = tasks /\ taken' = taken
    BY <1>3 DEF Take
  <2> QED
    BY <1>1, <1>2, <2>1 DEF PoolQueueInv, PoolTyped, QueueInOrder
<1>4. CASE tasks # <<>>
  <2>1. taken' = Append(taken, Head(tasks)) /\ tasks' = Tail(tasks)
    BY <1>4 DEF Take, Oldest
  <2>2. /\ taken' \in Seq(Task) /\ tasks' \in Seq(Task)
        /\ Len(taken') = Len(taken) + 1 /\ taken' \o tasks' = taken \o tasks
    BY <1>4, <2>1, TakeKeepsOrder DEF PoolQueueInv, PoolTyped
  <2>3. QueueInOrder'
    BY <1>1, <2>2 DEF PoolQueueInv, QueueInOrder
  <2>4. SubSeq(submitted, 1, Len(taken')) = taken' /\ Len(taken') <= Len(submitted)
    BY <1>1, <2>2, <2>3, PrefixOfConcat DEF QueueInOrder
  <2>5. Len(taken) \in Nat /\ Len(submitted) \in Nat
    BY LenProperties DEF PoolQueueInv, PoolTyped
  <2>6. Len(taken) + 1 \in Len(taken) + 1 .. Len(submitted)
    BY <2>2, <2>4, <2>5
  <2>7. taken' = SubSeq(submitted, 1, Len(taken) + 1)
    BY <2>2, <2>4
  <2>8. Tasks!Get
    BY <1>1, <2>6, <2>7 DEF Tasks!Get
  <2> QED
    BY <1>1, <1>2, <2>2, <2>3, <2>8 DEF PoolQueueInv, PoolTyped
<1> QED
  BY <1>3, <1>4

-----------------------------------------------------------------------------
\* Every step of the owner, the producers and the workers keeps the invariant
\* and is a step of the FIFO or none.
LEMMA PoolStep ==
    ASSUME PoolQueueInv, [PoolNext]_poolVars
    PROVE  PoolQueueInv' /\ [Tasks!Put \/ Tasks!Get]_<<submitted, taken>>
<1>1. ASSUME UNCHANGED <<tasks, submitted, taken, producer>>
      PROVE  PoolQueueInv' /\ UNCHANGED <<submitted, taken>>
  BY <1>1 DEF PoolQueueInv, PoolTyped, CallsFit, Calls, QueueInOrder
<1>2. CASE PoolStart \/ PoolStop \/ RunInline \/ SpuriousWakeup \/ UNCHANGED poolVars
  <2>1. UNCHANGED <<tasks, submitted, taken, producer>>
    BY <1>2 DEF PoolStart, PoolStop, RunInline, SpuriousWakeup, poolVars
  <2> QED
    BY <1>1, <2>1
<1>3. CASE OwnerStep
  <2>1. UNCHANGED <<tasks, submitted, taken, producer>>
    BY <1>3 DEF OwnerStep, StartWorker, PoolStarted, JoinAll
  <2> QED
    BY <1>1, <2>1
<1>4. ASSUME NEW p \in Producers, RunTask(p)
      PROVE  PoolQueueInv' /\ [Tasks!Put \/ Tasks!Get]_<<submitted, taken>>
  BY <1>4, RunStep
<1>5. ASSUME NEW w \in 1..NumWorkers, WorkerStep(w)
      PROVE  PoolQueueInv' /\ [Tasks!Put \/ Tasks!Get]_<<submitted, taken>>
  <2>1. CASE Take(w)
    BY <2>1, TakeStep
  <2>2. CASE CountDown(w) \/ TestPoolRunning(w) \/ TaskEnds(w)
    <3>1. UNCHANGED <<tasks, submitted, taken, producer>>
      BY <2>2 DEF CountDown, TestPoolRunning, TaskEnds
    <3> QED
      BY <1>1, <3>1
  <2> QED
    BY <1>5, <2>1, <2>2 DEF WorkerStep
<1> QED
  BY <1>2, <1>3, <1>4, <1>5 DEF PoolNext

\* The tasks of a ThreadPool, pushed by run() in any number of threads and
\* taken by any number of workers, are a FIFO.
THEOREM TasksImplementFifo == PoolSpec => TasksAreFifo
<1>1. PoolInit => PoolQueueInv /\ Tasks!FifoInit
  <2> SUFFICES ASSUME PoolInit PROVE PoolQueueInv /\ Tasks!FifoInit
    OBVIOUS
  <2>1. <<>> \in Seq(Task) /\ <<>> \o <<>> = <<>> /\ Len(<<>>) = 0
    BY ConcatEmptySeq, EmptySeq
  <2>2. PoolTyped /\ QueueInOrder
    BY <2>1 DEF PoolInit, PoolTyped, QueueInOrder
  <2>3. Calls = {}
    BY DEF PoolInit, Calls
  <2>4. CallsFit
    BY <2>1, <2>3, FS_EmptySet, TasksAssumption DEF PoolInit, CallsFit
  <2> QED
    BY <2>2, <2>4 DEF PoolQueueInv, PoolInit, Tasks!FifoInit
<1>2. PoolQueueInv /\ [PoolNext]_poolVars
        => PoolQueueInv' /\ [Tasks!Put \/ Tasks!Get]_<<submitted, taken>>
  BY PoolStep
<1> QED
  BY <1>1, <1>2, PTL DEF PoolSpec, TasksAreFifo, Tasks!FifoSpec

-----------------------------------------------------------------------------
(* TimeZone: LocalTimesReturn for every zone file and every time.  Each     *)
(* lookup is that of the last transition not after the time; the argument   *)
(* is that the two lookups of the way to local time and back differ only    *)
(* in the hour that occurs twice, which is the one the hack is for.         *)

\* Numbers that rise from each to the next rise throughout.
LEMMA RisingThroughout ==
    ASSUME NEW n \in Nat, NEW f, \A i \in 1..n : f[i] \in Int,
           \A i \in 1..n : i > 1 => f[i] > f[i - 1]
    PROVE  \A i, j \in 1..n : i < j => f[i] < f[j]
<1> DEFINE Up == {j \in Nat : j <= n => \A i \in 1..n : i < j => f[i] < f[j]}
<1>1. 0 \in Up
  OBVIOUS
<1>2. ASSUME NEW j \in Nat, j \in Up PROVE j + 1 \in Up
  <2> SUFFICES ASSUME j + 1 <= n, NEW i \in 1..n, i < j + 1 PROVE f[i] < f[j + 1]
    OBVIOUS
  <2>1. j \in 1..n /\ j + 1 \in 1..n /\ (j + 1) - 1 = j
    OBVIOUS
  <2>2. f[j + 1] > f[j] /\ f[j + 1] \in Int /\ f[j] \in Int /\ f[i] \in Int
    BY <2>1
  <2>3. i = j \/ f[i] < f[j]
    BY <1>2, <2>1
  <2> QED
    BY <2>2, <2>3
<1>3. Nat \subseteq Up
  <2> HIDE DEF Up
  <2> QED
    BY <1>1, <1>2, Induction
<1> QED
  BY <1>3

\* A time lies behind the first k of n rising numbers and before the others.
LEMMA PlaceOf ==
    ASSUME NEW n \in Nat, NEW f, \A i \in 1..n : f[i] \in Int, NEW t \in Int,
           \A i, j \in 1..n : i < j => f[i] < f[j]
    PROVE  \E k \in 0..n : /\ \A i \in 1..k : f[i] <= t
                           /\ \A i \in (k + 1)..n : f[i] > t
<1> DEFINE Cut(k, m) == /\ \A i \in 1..k : f[i] <= t
                        /\ \A i \in (k + 1)..m : f[i] > t
           Placed == {m \in Nat : m <= n => \E k \in 0..m : Cut(k, m)}
<1>1. 0 \in Placed
  <2>1. Cut(0, 0)
    OBVIOUS
  <2> QED
    BY <2>1
<1>2. ASSUME NEW m \in Nat, m \in Placed PROVE m + 1 \in Placed
  <2> SUFFICES ASSUME m + 1 <= n PROVE \E k \in 0..(m + 1) : Cut(k, m + 1)
    OBVIOUS
  <2>1. PICK k \in 0..m : Cut(k, m)
    BY <1>2
  <2>2. m + 1 \in 1..n /\ f[m + 1] \in Int
    OBVIOUS
  <2>3. CASE f[m + 1] > t
    <3>1. Cut(k, m + 1)
      BY <2>1, <2>2, <2>3
    <3> QED
      BY <3>1
  <2>4. CASE f[m + 1] <= t
    <3>1. \A i \in 1..(m + 1) : f[i] <= t
      BY <2>2, <2>4
    <3>2. Cut(m + 1, m + 1)
      BY <3>1
    <3> QED
      BY <3>2
  <2> QED
    BY <2>2, <2>3, <2>4
<1>3. Nat \subseteq Placed
  <2> HIDE DEF Placed
  <2> QED
    BY <1>1, <1>2, Induction
<1>4. n \in Placed
  <2> HIDE DEF Placed
  <2> QED
    BY <1>3
<1>5. \E k \in 0..n : Cut(k, n)
  <2> HIDE DEF Cut
  <2> QED
    BY <1>4
<1> QED
  BY <1>5

LEMMA LeastOf ==
    ASSUME NEW S \in SUBSET Nat, S # {}
    PROVE  \E i \in S : \A j \in S : i <= j
<1> DEFINE R == {ss \in Nat \X Nat : ss[1] < ss[2]}
<1>1. IsWellFoundedOn(R, Nat)
  BY NatLessThanWellFounded DEF OpToRel
<1> HIDE DEF R
<1>2. PICK x \in S : \A y \in S : ~(<<y, x>> \in R)
  BY <1>1, WFMin
<1>3. ASSUME NEW y \in S PROVE x <= y
  <2>1. x \in Nat /\ y \in Nat /\ ~(<<y, x>> \in R)
    BY <1>2
  <2> QED
    BY <2>1 DEF R
<1> QED
  BY <1>3

-----------------------------------------------------------------------------
(* A zone whose transitions refer to types that it has.                     *)

ZoneData(data) ==
    /\ data.localtimes \in Seq([gmtOffset : Int, isDst : BOOLEAN])
    /\ data.transitions \in Seq([gmttime : Int, localtime : Int,
                                 localtimeIdx : 1..Len(data.localtimes)])
    /\ \A i \in 1..Len(data.transitions) :
          data.transitions[i].localtime = data.transitions[i].gmttime
              + data.localtimes[data.transitions[i].localtimeIdx].gmtOffset

\* The type in force after k transitions
TypeAfter(data, k) ==
    IF k = 0 THEN data.localtimes[1] ELSE data.localtimes[data.transitions[k].localtimeIdx]

LEMMA TypesAfter ==
    ASSUME NEW data, ZoneData(data), data.localtimes # <<>>
    PROVE  /\ \A k \in 0..Len(data.transitions) :
                 TypeAfter(data, k).gmtOffset \in Int /\ TypeAfter(data, k).isDst \in BOOLEAN
           /\ \A i \in 1..Len(data.transitions) :
                 /\ data.transitions[i].gmttime \in Int
                 /\ data.transitions[i].localtime
                       = data.transitions[i].gmttime + TypeAfter(data, i).gmtOffset
           /\ Len(data.transitions) \in Nat
<1> DEFINE types == data.localtimes
           trans == data.transitions
           T == [gmtOffset : Int, isDst : BOOLEAN]
<1>1. PICK n \in Nat, m \in Nat \ {0} : n = Len(trans) /\ m = Len(types)
  BY EmptySeq, LenProperties DEF ZoneData
<1>2. types \in [1..m -> T] /\ trans \in [1..n -> [gmttime : Int, localtime : Int, localtimeIdx : 1..m]]
  BY <1>1, LenProperties DEF ZoneData
<1>3. \A i \in 1..n : trans[i].localtime = trans[i].gmttime + types[trans[i].localtimeIdx].gmtOffset
  BY <1>1 DEF ZoneData
<1>4. \A k \in 0..n : TypeAfter(data, k) \in T
  <2> SUFFICES ASSUME NEW k \in 0..n PROVE TypeAfter(data, k) \in T
    OBVIOUS
  <2>1. CASE k = 0
    BY <1>1, <1>2, <2>1 DEF TypeAfter
  <2>2. CASE k # 0
    <3>1. k \in 1..n
      BY <2>2
    <3>2. trans[k].localtimeIdx \in 1..m
      BY <1>2, <3>1, Zenon
    <3>3. types[trans[k].localtimeIdx] \in T
      BY <1>2, <3>2, Zenon
    <3> QED
      BY <2>2, <3>3, Zenon DEF TypeAfter
  <2> QED
    BY <2>1, <2>2
<1>5. \A k \in 1..n : TypeAfter(data, k) = types[trans[k].localtimeIdx]
  BY DEF TypeAfter
<1> HIDE DEF types, trans
<1>6. \A i \in 1..n : trans[i].gmttime \in Int /\ i \in 0..n
  BY <1>2
<1>7. \A i \in 1..n : trans[i].localtime = trans[i].gmttime + TypeAfter(data, i).gmtOffset
  BY <1>3, <1>5
<1> QED
  BY <1>1, <1>4, <1>6, <1>7 DEF trans

\* findLocaltime() gives the type after the last transition not after the time.
LEMMA Found ==
    ASSUME NEW data, ZoneData(data), NEW gmt \in BOOLEAN, NEW t \in Int,
           NEW f, \A i \in 1..Len(data.transitions) :
                     f[i] \in Int /\ f[i] = Compared(data.transitions[i], gmt),
           \A i, j \in 1..Len(data.transitions) : i < j => f[i] < f[j],
           NEW k \in 0..Len(data.transitions),
           \A i \in 1..k : f[i] <= t,
           \A i \in (k + 1)..Len(data.transitions) : f[i] > t
    PROVE  FindLocaltime(data, t, gmt) = TypeAfter(data, k)
<1> DEFINE trans == data.transitions
           key(transition) == Compared(transition, gmt)
           notBefore == {i \in DOMAIN trans : key(trans[i]) >= t}
           lower == CHOOSE i \in notBefore : \A j \in notBefore : i <= j
           index == CASE notBefore = {} -> Len(trans)
                      [] notBefore # {} /\ key(trans[lower]) = t -> lower
                      [] OTHER -> lower - 1
<1>1. FindLocaltime(data, t, gmt) = IF trans = <<>> \/ t < key(trans[1]) THEN data.localtimes[1]
                                    ELSE data.localtimes[trans[index].localtimeIdx]
  BY Zenon DEF FindLocaltime
<1>2. PICK n \in Nat : n = Len(trans)
  BY LenProperties DEF ZoneData
<1>3. DOMAIN trans = 1..n /\ (trans = <<>> <=> n = 0)
  BY <1>2, EmptySeq, LenProperties DEF ZoneData
<1>4. \A i \in 1..n : f[i] \in Int /\ key(trans[i]) = f[i]
  BY <1>2
<1>5. notBefore = {i \in 1..n : f[i] >= t}
  BY <1>3, <1>4
<1>6. k \in 0..n /\ (\A i \in 1..k : f[i] <= t) /\ (\A i \in (k + 1)..n : f[i] > t)
  BY <1>2
<1>7. \A i, j \in 1..n : i < j => f[i] < f[j]
  BY <1>2
<1>8. TypeAfter(data, k) = IF k = 0 THEN data.localtimes[1] ELSE data.localtimes[trans[k].localtimeIdx]
  BY DEF TypeAfter
<1> HIDE DEF trans, key
<1>9. CASE k = 0
  <2>1. trans = <<>> \/ t < key(trans[1])
    BY <1>3, <1>4, <1>6, <1>9
  <2> QED
    BY <1>1, <1>8, <1>9, <2>1, Zenon
<1>10. CASE k # 0
  <2>1. ~(trans = <<>> \/ t < key(trans[1]))
    BY <1>3, <1>4, <1>6, <1>10
  <2>2. index = k
    <3>1. CASE notBefore = {}
      <4>1. k = n
        <5> SUFFICES ASSUME k # n PROVE FALSE
          OBVIOUS
        <5>1. k + 1 \in 1..n /\ k + 1 \in (k + 1)..n
          BY <1>6
        <5>2. f[k + 1] > t /\ f[k + 1] \in Int
          BY <1>4, <1>6, <5>1
        <5>3. k + 1 \notin {i \in 1..n : f[i] >= t}
          BY <1>5, <3>1, Zenon
        <5> HIDE DEF notBefore
        <5> QED
          BY <5>1, <5>2, <5>3
      <4> HIDE DEF lower
      <4> QED
        BY <1>2, <3>1, <4>1
    <3>2. CASE notBefore # {}
      <4>1. lower \in notBefore /\ \A j \in notBefore : lower <= j
        <5>1. \E i \in notBefore : \A j \in notBefore : i <= j
          <6>1. notBefore \in SUBSET Nat
            BY <1>5
          <6> HIDE DEF notBefore
          <6> QED
            BY <3>2, <6>1, LeastOf
        <5> QED
          BY <5>1, Zenon
      <4> HIDE DEF lower, notBefore
      <4>2. lower \in 1..n /\ f[lower] >= t /\ f[lower] \in Int /\ key(trans[lower]) = f[lower]
        BY <1>4, <1>5, <4>1
      <4>3. CASE f[lower] = t
        <5>1. lower <= k
          BY <1>6, <4>2, <4>3
        <5>2. k \in 1..n /\ f[k] <= t /\ f[k] \in Int
          BY <1>4, <1>6, <1>10
        <5>3. ~(lower < k)
          BY <1>7, <4>2, <4>3, <5>2
        <5>4. lower = k
          BY <1>6, <4>2, <5>1, <5>3
        <5> QED
          BY <3>2, <4>2, <4>3, <5>4
      <4>4. CASE f[lower] # t
        <5>1. lower > k
          BY <1>6, <4>2, <4>4
        <5>2. k + 1 \in 1..n /\ k + 1 \in (k + 1)..n
          BY <1>6, <4>2, <5>1
        <5>3. k + 1 \in notBefore
          BY <1>4, <1>5, <1>6, <5>2
        <5>4. lower = k + 1
          BY <1>6, <4>1, <4>2, <5>1, <5>3
        <5> QED
          BY <1>6, <3>2, <4>2, <4>4, <5>4
      <4> QED
        BY <4>3, <4>4
    <3> QED
      BY <3>1, <3>2
  <2> QED
    BY <1>1, <1>8, <1>10, <2>1, <2>2, Zenon
<1> QED
  BY <1>9, <1>10

-----------------------------------------------------------------------------
(* What Ordinary says of the type after k transitions and its time.         *)

LEMMA OrdinaryZone ==
    ASSUME NEW data, ZoneData(data), data.localtimes # <<>>, Ordinary(data)
    PROVE  \A i \in 1..Len(data.transitions) :
              /\ TypeAfter(data, i).isDst # TypeAfter(data, i - 1).isDst
              /\ TypeAfter(data, i).gmtOffset - TypeAfter(data, i - 1).gmtOffset
                    = IF TypeAfter(data, i).isDst THEN 1 ELSE -1
              /\ i > 1 => data.transitions[i].gmttime > data.transitions[i - 1].gmttime + 2
<1> SUFFICES ASSUME NEW i \in 1..Len(data.transitions)
             PROVE  /\ TypeAfter(data, i).isDst # TypeAfter(data, i - 1).isDst
                    /\ TypeAfter(data, i).gmtOffset - TypeAfter(data, i - 1).gmtOffset
                          = IF TypeAfter(data, i).isDst THEN 1 ELSE -1
                    /\ i > 1 => data.transitions[i].gmttime > data.transitions[i - 1].gmttime + 2
  OBVIOUS
<1> DEFINE type(j) == data.localtimes[data.transitions[j].localtimeIdx]
           before == IF i = 1 THEN data.localtimes[1] ELSE type(i - 1)
<1>1. i \in DOMAIN data.transitions
  BY LenProperties DEF ZoneData
<1>2. i \in Nat /\ i # 0 /\ (i = 1 <=> i - 1 = 0)
  BY LenProperties DEF ZoneData
<1>3. /\ type(i).isDst # before.isDst
      /\ type(i).gmtOffset - before.gmtOffset = IF type(i).isDst THEN 1 ELSE -1
      /\ i > 1 => data.transitions[i].gmttime > data.transitions[i - 1].gmttime + 2
  BY <1>1, Zenon DEF Ordinary
<1>4. TypeAfter(data, i) = type(i) /\ TypeAfter(data, i - 1) = before
  BY <1>2, Zenon DEF TypeAfter
<1> QED
  BY <1>3, <1>4, Zenon

\* Transitions rise in local time as they do in UTC, since the clock is set by
\* an hour and they are more than two hours apart.
LEMMA TransitionsRise ==
    ASSUME NEW data, ZoneData(data), data.localtimes # <<>>, Ordinary(data)
    PROVE  \A i, j \in 1..Len(data.transitions) : i < j =>
              /\ data.transitions[i].gmttime < data.transitions[j].gmttime
              /\ data.transitions[i].localtime < data.transitions[j].localtime
<1> DEFINE n == Len(data.transitions)
           g == [i \in 1..n |-> data.transitions[i].gmttime]
           l == [i \in 1..n |-> data.transitions[i].localtime]
           o == [i \in 0..n |-> TypeAfter(data, i).gmtOffset]
<1>1. /\ n \in Nat /\ (\A i \in 0..n : o[i] \in Int)
      /\ \A i \in 1..n : g[i] \in Int /\ l[i] = g[i] + o[i]
  BY TypesAfter
<1>2. \A i \in 1..n : /\ o[i] - o[i - 1] \in {1, -1}
                      /\ i > 1 => g[i] > g[i - 1] + 2
  <2> SUFFICES ASSUME NEW i \in 1..n
               PROVE  o[i] - o[i - 1] \in {1, -1} /\ (i > 1 => g[i] > g[i - 1] + 2)
    OBVIOUS
  <2>1. i \in 0..n /\ i - 1 \in 0..n /\ (i > 1 => i - 1 \in 1..n)
    BY <1>1
  <2> HIDE DEF n
  <2> QED
    BY <2>1, OrdinaryZone DEF n
<1> HIDE DEF n, g, l, o
<1>3. \A i \in 1..n : i > 1 => g[i] > g[i - 1] /\ l[i] > l[i - 1]
  <2> SUFFICES ASSUME NEW i \in 1..n, i > 1 PROVE g[i] > g[i - 1] /\ l[i] > l[i - 1]
    OBVIOUS
  <2>1. i \in 0..n /\ i - 1 \in 0..n /\ i - 1 \in 1..n
    BY <1>1
  <2>2. PICK a \in Int, b \in Int, u \in Int, v \in Int :
           a = g[i] /\ b = g[i - 1] /\ u = o[i] /\ v = o[i - 1]
    BY <1>1, <2>1
  <2>3. l[i] = a + u /\ l[i - 1] = b + v /\ a > b + 2 /\ u - v \in {1, -1}
    BY <1>1, <1>2, <2>1, <2>2
  <2>4. a > b /\ a + u > b + v
    BY <2>3
  <2> QED
    BY <2>2, <2>3, <2>4, Zenon
<1>4. \A i \in 1..n : l[i] \in Int
  BY <1>1
<1>5. \A i, j \in 1..n : i < j => g[i] < g[j]
  BY <1>1, <1>3, RisingThroughout
<1>6. \A i, j \in 1..n : i < j => l[i] < l[j]
  BY <1>1, <1>3, <1>4, RisingThroughout
<1> QED
  BY <1>5, <1>6 DEF g, l, n

\* A time survives the way to local time and back, in any ordinary zone.
LEMMA ThereAndBack ==
    ASSUME NEW data, ZoneData(data), data.localtimes # <<>>, Ordinary(data), NEW t \in Int
    PROVE  FromLocalTime(data, ToLocalTime(data, t)) = t
<1> DEFINE n == Len(data.transitions)
           g == [i \in 1..n |-> data.transitions[i].gmttime]
           l == [i \in 1..n |-> data.transitions[i].localtime]
           o == [i \in 0..n |-> TypeAfter(data, i).gmtOffset]
           s == [i \in 0..n |-> TypeAfter(data, i).isDst]
<1>1. /\ n \in Nat /\ (\A i \in 0..n : o[i] \in Int /\ s[i] \in BOOLEAN)
      /\ \A i \in 1..n : g[i] \in Int /\ l[i] \in Int /\ l[i] = g[i] + o[i]
  BY TypesAfter
<1>2. \A i \in 1..n : /\ s[i] # s[i - 1]
                      /\ o[i] - o[i - 1] = IF s[i] THEN 1 ELSE -1
                      /\ i > 1 => g[i] > g[i - 1] + 2
  <2> SUFFICES ASSUME NEW i \in 1..n
               PROVE  /\ s[i] # s[i - 1]
                      /\ o[i] - o[i - 1] = IF s[i] THEN 1 ELSE -1
                      /\ i > 1 => g[i] > g[i - 1] + 2
    OBVIOUS
  <2>1. i \in 0..n /\ i - 1 \in 0..n /\ (i > 1 => i - 1 \in 1..n)
    BY <1>1
  <2> HIDE DEF n
  <2> QED
    BY <2>1, OrdinaryZone DEF n
<1>3. \A i, j \in 1..n : i < j => g[i] < g[j] /\ l[i] < l[j]
  BY TransitionsRise
<1>4. \A x \in Int, k \in 0..n : ((\A i \in 1..k : g[i] <= x) /\ (\A i \in (k + 1)..n : g[i] > x))
         => /\ ToLocalTime(data, x).time = x + o[k]
            /\ ToLocalTime(data, x).isDst = s[k]
  <2> SUFFICES ASSUME NEW x \in Int, NEW k \in 0..n, \A i \in 1..k : g[i] <= x,
                      \A i \in (k + 1)..n : g[i] > x
               PROVE  /\ ToLocalTime(data, x).time = x + o[k]
                      /\ ToLocalTime(data, x).isDst = s[k]
    OBVIOUS
  <2>1. \A i \in 1..n : g[i] \in Int /\ g[i] = Compared(data.transitions[i], TRUE)
    BY <1>1 DEF Compared
  <2>2. FindLocaltime(data, x, TRUE) = TypeAfter(data, k)
    <3> HIDE DEF g
    <3> QED
      BY <1>3, <2>1, Found
  <2> QED
    BY <2>2 DEF ToLocalTime
<1>5. \A x \in Int, k \in 0..n : ((\A i \in 1..k : l[i] <= x) /\ (\A i \in (k + 1)..n : l[i] > x))
         => FindLocaltime(data, x, FALSE).gmtOffset = o[k]
  <2> SUFFICES ASSUME NEW x \in Int, NEW k \in 0..n, \A i \in 1..k : l[i] <= x,
                      \A i \in (k + 1)..n : l[i] > x
               PROVE  FindLocaltime(data, x, FALSE).gmtOffset = o[k]
    OBVIOUS
  <2>1. \A i \in 1..n : l[i] \in Int /\ l[i] = Compared(data.transitions[i], FALSE)
    BY <1>1 DEF Compared
  <2>2. FindLocaltime(data, x, FALSE) = TypeAfter(data, k)
    <3> HIDE DEF l
    <3> QED
      BY <1>3, <2>1, Found
  <2> QED
    BY <2>2
<1> HIDE DEF n, g, l, o, s
<1>6. PICK k \in 0..n : (\A i \in 1..k : g[i] <= t) /\ (\A i \in (k + 1)..n : g[i] > t)
  BY <1>1, <1>3, PlaceOf
<1>7. PICK ok \in Int : ok = o[k]
  BY <1>1, <1>6
<1>8. ToLocalTime(data, t).time = t + ok /\ ToLocalTime(data, t).isDst = s[k] /\ t + ok \in Int
  BY <1>4, <1>6, <1>7
<1> DEFINE back(offset, hack) == (t + ok) - hack - offset
<1>9. ASSUME NEW offset, offset = FindLocaltime(data, t + ok, FALSE).gmtOffset
      PROVE  FromLocalTime(data, ToLocalTime(data, t))
                = back(offset, Hack(data, t + ok, s[k], offset))
  BY <1>8, <1>9, Zenon DEF FromLocalTime
\* The transitions up to the k-th are behind the local time, too.
<1>10. \A i \in 1..k : l[i] <= t + ok
  <2> SUFFICES ASSUME NEW i \in 1..k PROVE l[i] <= t + ok
    OBVIOUS
  <2>1. k \in 1..n /\ i \in 1..n /\ k \in Nat
    BY <1>1, <1>6
  <2>2. l[k] = g[k] + ok /\ g[k] <= t /\ g[k] \in Int
    BY <1>1, <1>6, <1>7, <2>1
  <2>3. i = k \/ l[i] < l[k]
    BY <1>3, <2>1
  <2> QED
    BY <1>1, <2>1, <2>2, <2>3
\* The hour that occurs twice, in its first occurrence, is the one before a
\* transition that ends daylight saving.
<1>11. CASE k < n /\ ~s[k + 1] /\ g[k + 1] = t + 1
  <2>1. k + 1 \in 0..n /\ k + 1 \in 1..n /\ (k + 1) - 1 = k
    BY <1>1, <1>6, <1>11
  <2>2. /\ s[k] /\ o[k + 1] = ok - 1
    <3>1. s[k + 1] # s[k] /\ o[k + 1] - ok = -1
      BY <1>2, <1>7, <1>11, <2>1, Zenon
    <3>2. s[k] \in BOOLEAN /\ s[k + 1] = FALSE
      BY <1>1, <1>11, <2>1, Zenon
    <3>3. \A x \in Int : x - ok = -1 => x = ok - 1
      OBVIOUS
    <3>4. o[k + 1] \in Int
      BY <1>1, <2>1, Zenon
    <3> QED
      BY <3>1, <3>2, <3>3, <3>4, Zenon
  <2>3. l[k + 1] = t + ok
    <3>1. l[k + 1] = (t + 1) + (ok - 1)
      BY <1>1, <1>11, <2>1, <2>2, Zenon
    <3>2. (t + 1) + (ok - 1) = t + ok
      OBVIOUS
    <3> QED
      BY <3>1, <3>2, Zenon
  <2>4. \A i \in 1..(k + 1) : l[i] <= t + ok
    BY <1>6, <1>10, <2>3
  <2>5. \A i \in (k + 2)..n : l[i] > t + ok /\ g[i] > t + 1
    BY <1>1, <1>3, <1>6, <1>11, <2>1, <2>3
  <2>6. FindLocaltime(data, t + ok, FALSE).gmtOffset = ok - 1
    <3>1. (k + 1) + 1 = k + 2
      BY <1>6
    <3> QED
      BY <1>5, <1>8, <2>1, <2>2, <2>4, <2>5, <3>1
  <2>7. /\ ToLocalTime(data, t + 1).time = t + ok
        /\ ToLocalTime(data, t + 1).isDst = FALSE
    <3>1. (k + 1) + 1 = k + 2 /\ t + 1 \in Int /\ (t + 1) + (ok - 1) = t + ok
      BY <1>6
    <3>2. \A i \in 1..(k + 1) : g[i] <= t + 1
      <4> SUFFICES ASSUME NEW i \in 1..(k + 1) PROVE g[i] <= t + 1
        OBVIOUS
      <4>1. i = k + 1 => g[i] <= t + 1
        BY SMT, <1>11
      <4>2. i # k + 1 => i \in 1..k /\ i \in 1..n
        BY SMT, <1>1, <1>6, <2>1
      <4>3. i # k + 1 => g[i] <= t /\ g[i] \in Int
        BY <1>1, <1>6, <4>2, Zenon
      <4> QED
        BY SMT, <4>1, <4>3
    <3>3. \A i \in ((k + 1) + 1)..n : g[i] > t + 1
      BY <2>5, <3>1
    <3>4. /\ ToLocalTime(data, t + 1).time = (t + 1) + o[k + 1]
          /\ ToLocalTime(data, t + 1).isDst = s[k + 1]
      BY <1>4, <2>1, <3>1, <3>2, <3>3, Zenon
    <3>5. s[k + 1] = FALSE
      BY <1>1, <1>11, <2>1, Zenon
    <3> QED
      BY <2>2, <3>1, <3>4, <3>5, Zenon
  <2>8. Hack(data, t + ok, s[k], ok - 1) = 1
    <3>1. (t + ok) - (ok - 1) = t + 1
      OBVIOUS
    <3> QED
      BY <2>2, <2>7, <3>1 DEF Hack
  <2>9. FromLocalTime(data, ToLocalTime(data, t)) = (t + ok) - 1 - (ok - 1)
    BY <1>9, <2>6, <2>8, Zenon
  <2>10. (t + ok) - 1 - (ok - 1) = t
    OBVIOUS
  <2> QED
    BY <2>9, <2>10, Zenon
<1>12. CASE ~(k < n /\ ~s[k + 1] /\ g[k + 1] = t + 1)
  <2>1. \A i \in (k + 1)..n : l[i] > t + ok
    <3> SUFFICES ASSUME NEW i \in (k + 1)..n PROVE l[i] > t + ok
      OBVIOUS
    <3>1. k < n /\ k + 1 \in 1..n /\ k + 1 \in 0..n /\ k + 1 \in (k + 1)..n /\ (k + 1) - 1 = k
      <4>1. n \in Nat /\ k \in Nat /\ k <= n
        BY <1>1, <1>6
      <4> QED
        BY <4>1
    <3>2. PICK a \in Int, b \in Int : a = g[k + 1] /\ b = o[k + 1] /\ l[k + 1] = a + b /\ a > t
      BY <1>1, <1>6, <3>1
    <3>3. b - ok = IF s[k + 1] THEN 1 ELSE -1
      BY <1>2, <1>7, <3>1, <3>2
    <3>4. l[k + 1] > t + ok
      <4>1. s[k + 1] \/ a # t + 1
        BY <1>12, <3>1, <3>2, Zenon
      <4>2. (b - ok = 1 \/ (b - ok = -1 /\ a # t + 1)) => a + b > t + ok
        BY <3>2
      <4> QED
        BY <3>2, <3>3, <4>1, <4>2, Zenon
    <3>5. i \in 1..n /\ (i = k + 1 \/ l[k + 1] < l[i])
      BY <1>1, <1>3, <1>6, <3>1
    <3> QED
      BY <1>1, <3>1, <3>4, <3>5
  <2>2. FindLocaltime(data, t + ok, FALSE).gmtOffset = ok
    BY <1>5, <1>6, <1>7, <1>8, <1>10, <2>1
  <2>3. Hack(data, t + ok, s[k], ok) = 0
    <3>1. (t + ok) - ok = t
      OBVIOUS
    <3> QED
      BY <1>8, <3>1, Zenon DEF Hack
  <2>4. FromLocalTime(data, ToLocalTime(data, t)) = (t + ok) - 0 - ok
    BY <1>9, <2>2, <2>3, Zenon
  <2>5. (t + ok) - 0 - ok = t
    OBVIOUS
  <2> QED
    BY <2>4, <2>5, Zenon
<1> QED
  BY <1>11, <1>12

-----------------------------------------------------------------------------
(* The file that is read.                                                   *)

LEMMA NothingRead == ZoneData(NoData)
  BY EmptySeq DEF NoData, ZoneData

\* The types that the file holds: all of them, or as many as are whole
LEMMA TypesRead ==
    ASSUME NEW n \in Nat, NEW from \in Nat, NEW typecnt \in Nat, n >= from
    PROVE  \E m \in 0..typecnt : n >= from + 2 * m /\ (m = typecnt \/ ~(n >= from + 2 * (m + 1)))
<1>1. CASE n >= from + 2 * typecnt
  BY <1>1
<1>2. CASE ~(n >= from + 2 * typecnt)
  <2>1. PICK d \in Nat : d = n - from
    OBVIOUS
  <2>2. PICK q \in Nat, r \in 0..1 : d = 2 * q + r
    <3>1. d = 2 * (d \div 2) + (d % 2) /\ d \div 2 \in Nat /\ d % 2 \in 0..1
      OBVIOUS
    <3> QED
      BY <3>1
  <2>3. q \in 0..typecnt /\ n >= from + 2 * q /\ ~(n >= from + 2 * (q + 1))
    BY <1>2, <2>1, <2>2
  <2> QED
    BY <2>3
<1> QED
  BY <1>1, <1>2

LEMMA SequenceFrom ==
    ASSUME NEW T, NEW m \in Nat, NEW s \in [1..m -> T]
    PROVE  s \in Seq(T) /\ Len(s) = m
<1>1. s \in Seq(T)
  BY SeqDef
<1> QED
  BY <1>1, LenProperties

(* A zone file, perhaps cut short behind its counts                         *)
PartOfFile(file) ==
    /\ file \in Seq(Int) /\ Len(file) >= 2 /\ file[1] \in Nat /\ file[2] \in Nat
    /\ \A i \in 1..file[1] : 2 + file[1] + i <= Len(file)
          => file[2 + file[1] + i] \in 0..(file[2] - 1)

LEMMA CutShort ==
    ASSUME NEW f, ZoneFile(f), NEW n \in 2..Len(f)
    PROVE  PartOfFile(SubSeq(f, 1, n))
<1>1. f \in Seq(Int) /\ Len(f) \in Nat
  BY LenProperties DEF ZoneFile
<1>2. n \in Nat /\ n >= 2 /\ n <= Len(f)
  BY <1>1
<1>3. PICK file : file = SubSeq(f, 1, n)
  OBVIOUS
<1>4. file \in Seq(Int) /\ Len(file) = n /\ \A i \in 1..n : file[i] = f[i]
  BY <1>1, <1>2, <1>3
<1>5. PICK tc \in Nat, yc \in Nat : tc = f[1] /\ yc = f[2]
  BY DEF ZoneFile
<1>6. file[1] = tc /\ file[2] = yc
  BY <1>2, <1>4, <1>5
<1>7. \A i \in 1..tc : f[2 + tc + i] \in 0..(yc - 1)
  BY <1>5 DEF ZoneFile
<1>8. ASSUME NEW i \in 1..tc, 2 + tc + i <= n PROVE file[2 + tc + i] \in 0..(yc - 1)
  <2>1. 2 + tc + i \in 1..n
    BY <1>2, <1>8
  <2> QED
    BY <1>4, <1>7, <2>1, Zenon
<1> QED
  BY <1>2, <1>3, <1>4, <1>6, <1>8 DEF PartOfFile

\* What readTimeZoneFile() makes of the types and of the transitions
TypesIn(file, from, m) ==
    [i \in 1..m |-> [gmtOffset |-> file[from + 2 * i - 1], isDst |-> file[from + 2 * i] = 1]]

TransitionsIn(file, count, localtimes) ==
    [i \in 1..count |-> [gmttime |-> file[2 + i], localtimeIdx |-> file[2 + count + i] + 1,
         localtime |-> file[2 + i] + localtimes[file[2 + count + i] + 1].gmtOffset]]

LEMMA TypesInFile ==
    ASSUME NEW file \in Seq(Int), NEW from \in Nat, NEW m \in Nat, Len(file) >= from + 2 * m
    PROVE  /\ TypesIn(file, from, m) \in Seq([gmtOffset : Int, isDst : BOOLEAN])
           /\ Len(TypesIn(file, from, m)) = m
<1>1. ASSUME NEW i \in 1..m PROVE file[from + 2 * i - 1] \in Int
  <2>1. PICK n \in Nat : n = Len(file)
    BY LenProperties
  <2>2. from + 2 * i - 1 \in 1..n
    BY <2>1
  <2> QED
    BY <2>1, <2>2, ElementOfSeq
<1>2. TypesIn(file, from, m) \in [1..m -> [gmtOffset : Int, isDst : BOOLEAN]]
  BY <1>1 DEF TypesIn
<1> QED
  BY <1>2, SequenceFrom

FitTypes(trans, types, n, y) ==
    /\ trans \in Seq([gmttime : Int, localtime : Int, localtimeIdx : 1..y])
    /\ Len(trans) = n
    /\ \A i \in 1..n : trans[i].localtime
          = trans[i].gmttime + types[trans[i].localtimeIdx].gmtOffset

LEMMA TransitionsInFile ==
    ASSUME NEW file \in Seq(Int), NEW n \in Nat, NEW y \in Nat, Len(file) >= 2 + 2 * n,
           \A i \in 1..n : file[2 + n + i] \in 0..(y - 1),
           NEW types \in Seq([gmtOffset : Int, isDst : BOOLEAN]), Len(types) = y,
           NEW trans, trans = TransitionsIn(file, n, types)
    PROVE  FitTypes(trans, types, n, y)
<1>1. ASSUME NEW i \in 1..n
      PROVE  /\ trans[i] \in [gmttime : Int, localtime : Int, localtimeIdx : 1..y]
             /\ trans[i].localtime = trans[i].gmttime + types[trans[i].localtimeIdx].gmtOffset
  <2>1. PICK x \in Int : x = file[2 + i]
    <3>1. PICK m \in Nat : m = Len(file)
      BY LenProperties
    <3>2. 2 + i \in 1..m
      BY <3>1
    <3> QED
      BY <3>1, <3>2, ElementOfSeq
  <2>2. PICK j \in 0..(y - 1) : j = file[2 + n + i]
    OBVIOUS
  <2>3. j + 1 \in 1..y
    OBVIOUS
  <2>4. PICK o \in Int : o = types[j + 1].gmtOffset
    <3>1. types[j + 1] \in [gmtOffset : Int, isDst : BOOLEAN]
      BY <2>3, ElementOfSeq, Zenon
    <3> QED
      BY <3>1, Zenon
  <2>5. trans[i] = [gmttime |-> x, localtimeIdx |-> j + 1, localtime |-> x + o]
    BY <2>1, <2>2, <2>4, Zenon DEF TransitionsIn
  <2> QED
    BY <2>3, <2>4, <2>5
<1>2. trans \in [1..n -> [gmttime : Int, localtime : Int, localtimeIdx : 1..y]]
  <2>1. trans = [i \in 1..n |-> trans[i]]
    BY Zenon DEF TransitionsIn
  <2> QED
    BY <1>1, <2>1, Zenon
<1> QED
  BY <1>1, <1>2, SequenceFrom DEF FitTypes

\* What is read from a file, cut short or not, refers only to types that were
\* read as well.
LEMMA ReadsData ==
    ASSUME NEW file, PartOfFile(file)
    PROVE  ZoneData(ReadTimeZoneFile(file))
<1>1. PICK n \in Nat, tc \in Nat, yc \in Nat : n = Len(file) /\ tc = file[1] /\ yc = file[2]
  BY LenProperties DEF PartOfFile
<1>2. PICK from \in Nat : from = 2 + 2 * tc
  OBVIOUS
<1> DEFINE Whole(m) == n >= from + 2 * m
           types == CHOOSE m \in 0..yc : Whole(m) /\ (m = yc \/ ~Whole(m + 1))
           localtimes == TypesIn(file, from, types)
<1>3. ReadTimeZoneFile(file)
        = CASE n < from -> NoData
            [] n >= from /\ ~Whole(yc) -> [NoData EXCEPT !.localtimes = localtimes]
            [] OTHER -> [localtimes |-> localtimes,
                         transitions |-> TransitionsIn(file, tc, localtimes)]
  BY <1>1, <1>2, Zenon DEF ReadTimeZoneFile, TypesIn, TransitionsIn
<1>4. file \in Seq(Int)
  BY DEF PartOfFile
<1>5. CASE n < from
  BY <1>3, <1>5, NothingRead
<1>6. CASE ~(n < from)
  <2>1. \E m \in 0..yc : Whole(m) /\ (m = yc \/ ~Whole(m + 1))
    <3>1. n >= from
      BY <1>6
    <3> QED
      BY <3>1, TypesRead
  <2>2. types \in 0..yc /\ Whole(types) /\ (types = yc \/ ~Whole(types + 1))
    BY <2>1, Zenon
  <2>3. PICK y \in Nat : y = types
    BY <2>2
  <2> HIDE DEF types
  <2>4. y \in 0..yc /\ n >= from + 2 * y /\ (y = yc \/ ~(n >= from + 2 * (y + 1)))
    BY <2>2, <2>3
  <2>5. localtimes \in Seq([gmtOffset : Int, isDst : BOOLEAN]) /\ Len(localtimes) = y
    BY <1>1, <1>4, <2>3, <2>4, TypesInFile
  <2> HIDE DEF localtimes
  <2>6. CASE ~Whole(yc)
    <3>1. n >= from
      BY <1>6
    <3> HIDE DEF Whole
    <3>2. ReadTimeZoneFile(file) = [NoData EXCEPT !.localtimes = localtimes]
      BY <1>3, <1>6, <2>6, <3>1
    <3> QED
      BY <2>5, <3>2, EmptySeq DEF NoData, ZoneData
  <2>7. CASE Whole(yc)
    <3>1. y = yc
      BY <2>4, <2>7
    <3>2. \A i \in 1..tc : file[2 + tc + i] \in 0..(y - 1)
      <4> SUFFICES ASSUME NEW i \in 1..tc PROVE file[2 + tc + i] \in 0..(y - 1)
        OBVIOUS
      <4>1. 2 + tc + i <= n
        BY <1>2, <1>6
      <4> QED
        BY <1>1, <3>1, <4>1 DEF PartOfFile
    <3>3. Len(file) >= 2 + 2 * tc
      BY <1>1, <1>2, <1>6
    <3>4. PICK trans : trans = TransitionsIn(file, tc, localtimes)
      OBVIOUS
    <3>5. FitTypes(trans, localtimes, tc, y)
      BY <1>4, <2>5, <3>2, <3>3, <3>4, TransitionsInFile, Zenon
    <3> HIDE DEF Whole
    <3>6. ReadTimeZoneFile(file) = [localtimes |-> localtimes, transitions |-> trans]
      BY <1>3, <1>6, <2>7, <3>4
    <3>7. PICK data : data = ReadTimeZoneFile(file)
      OBVIOUS
    <3>8. data.localtimes = localtimes /\ data.transitions = trans
      BY <3>6, <3>7
    <3> QED
      BY <2>5, <3>5, <3>7, <3>8, Zenon DEF ZoneData, FitTypes
  <2> QED
    BY <2>6, <2>7
<1> QED
  BY <1>5, <1>6

ZoneInv == ZoneData(zone) /\ zoneTime \in Int /\ ZoneData(ReadTimeZoneFile(zoneFile))

\* For every file that the zone compiler wrote, cut short anywhere, and every
\* time, what was read is consistent and an ordinary zone gives the time back.
THEOREM LocalTimesDoReturn == ZoneSpec => []LocalTimesReturn
<1>1. ZoneInit => ZoneInv
  <2> SUFFICES ASSUME ZoneInit PROVE ZoneInv
    OBVIOUS
  <2>1. PICK f \in ZoneFiles : \E n \in 2..Len(f) : zoneFile = SubSeq(f, 1, n)
    BY DEF ZoneInit
  <2>2. ZoneFile(f) /\ zoneTime \in Int
    BY ZoneAssumption DEF ZoneInit
  <2>3. ZoneData(ReadTimeZoneFile(zoneFile))
    BY <2>1, <2>2, CutShort, ReadsData
  <2> QED
    BY <2>2, <2>3, NothingRead DEF ZoneInit, ZoneInv
<1>2. ZoneInv /\ [ReadZone]_zoneVars => ZoneInv'
  BY DEF ZoneInv, ReadZone, zoneVars
<1>3. ZoneInv => LocalTimesReturn
  <2> SUFFICES ASSUME ZoneInv PROVE LocalTimesReturn
    OBVIOUS
  <2>1. ASSUME NEW i \in DOMAIN zone.transitions
        PROVE  zone.transitions[i].localtimeIdx \in DOMAIN zone.localtimes
    <3>1. PICK types, trans : types = zone.localtimes /\ trans = zone.transitions
      OBVIOUS
    <3>2. /\ types \in Seq([gmtOffset : Int, isDst : BOOLEAN])
          /\ trans \in Seq([gmttime : Int, localtime : Int, localtimeIdx : 1..Len(types)])
      BY <3>1 DEF ZoneInv, ZoneData
    <3>3. DOMAIN types = 1..Len(types) /\ i \in 1..Len(trans)
      BY <3>1, <3>2, LenProperties
    <3>4. trans[i] \in [gmttime : Int, localtime : Int, localtimeIdx : 1..Len(types)]
      BY <3>2, <3>3, ElementOfSeq, Zenon
    <3>5. trans[i].localtimeIdx \in 1..Len(types)
      BY <3>4, Zenon
    <3> QED
      BY <3>1, <3>3, <3>5, Zenon
  <2>2. (zone.localtimes # <<>> /\ Ordinary(zone))
           => FromLocalTime(zone, ToLocalTime(zone, zoneTime)) = zoneTime
    BY ThereAndBack DEF ZoneInv
  <2> QED
    BY <2>1, <2>2 DEF LocalTimesReturn
<1> QED
  BY <1>1, <1>2, <1>3, PTL DEF ZoneSpec

-----------------------------------------------------------------------------
(* Date: DatesMatchCalendar for every day on.  A year that begins in March  *)
(* has its leap day at its end, and both conversions count in such years.   *)

\* Days of a March year before its M-th month, from 0 for March
DaysBefore(M) == (153 * M + 2) \div 5

\* Days before the March year Y
DaysUpTo(Y) == Y * 365 + Y \div 4 - Y \div 100 + Y \div 400

LEMMA MonthTable ==
    /\ DaysBefore(0) = 0 /\ DaysBefore(1) = 31 /\ DaysBefore(2) = 61 /\ DaysBefore(3) = 92
    /\ DaysBefore(4) = 122 /\ DaysBefore(5) = 153 /\ DaysBefore(6) = 184 /\ DaysBefore(7) = 214
    /\ DaysBefore(8) = 245 /\ DaysBefore(9) = 275 /\ DaysBefore(10) = 306 /\ DaysBefore(11) = 337
  BY SMT DEF DaysBefore

\* A March year by centuries and by spans of four years
YearIs(Y, B, C, D, R, Q, S) ==
    /\ Y \in Nat /\ B \in Nat /\ C \in Nat /\ D \in Nat /\ R \in Nat /\ Q \in Nat /\ S \in Nat
    /\ Y = 100 * B + R /\ B = 4 * C + D /\ R = 4 * Q + S
    /\ R <= 99 /\ D <= 3 /\ S <= 3

HasParts(Y) == \E B, C, D, R, Q, S : YearIs(Y, B, C, D, R, Q, S)

LEMMA YearParts ==
  ASSUME NEW Y \in Nat
  PROVE  HasParts(Y)
<1>1. PICK B \in Nat, R \in Nat : Y = 100 * B + R /\ R < 100
  <2>1. Y = 100 * (Y \div 100) + (Y % 100) /\ Y \div 100 \in Nat /\ (Y % 100) \in Nat /\ (Y % 100) < 100
    BY SMT
  <2> QED
    BY SMT, <2>1
<1>2. PICK C \in Nat, D \in Nat : B = 4 * C + D /\ D < 4
  <2>1. B = 4 * (B \div 4) + (B % 4) /\ B \div 4 \in Nat /\ (B % 4) \in Nat /\ (B % 4) < 4
    BY SMT
  <2> QED
    BY SMT, <2>1
<1>3. PICK Q \in Nat, S \in Nat : R = 4 * Q + S /\ S < 4
  <2>1. R = 4 * (R \div 4) + (R % 4) /\ R \div 4 \in Nat /\ (R % 4) \in Nat /\ (R % 4) < 4
    BY SMT
  <2> QED
    BY SMT, <2>1
<1>4. YearIs(Y, B, C, D, R, Q, S)
  BY SMT, <1>1, <1>2, <1>3 DEF YearIs
<1> QED
  BY SMT, <1>4 DEF HasParts

LEMMA DaysUpToParts ==
    ASSUME NEW Y, NEW B, NEW C, NEW D, NEW R, NEW Q, NEW S, YearIs(Y, B, C, D, R, Q, S)
    PROVE  DaysUpTo(Y) = 36524 * B + C + 365 * R + Q
<1>0. /\ Y \in Nat /\ B \in Nat /\ C \in Nat /\ D \in Nat /\ R \in Nat /\ Q \in Nat /\ S \in Nat
      /\ Y = 100 * B + R /\ B = 4 * C + D /\ R = 4 * Q + S
      /\ R <= 99 /\ D <= 3 /\ S <= 3
  BY SMT DEF YearIs
<1>1. Y \div 100 = B
  BY SMT, <1>0
<1>2. Y \div 400 = C
  BY SMT, <1>0
<1>3. Y \div 4 = 25 * B + Q
  BY SMT, <1>0
<1>4. DaysUpTo(Y) = Y * 365 + (25 * B + Q) - B + C
  BY SMT, <1>1, <1>2, <1>3 DEF DaysUpTo
<1> QED
  BY SMT, <1>0, <1>4

LEMMA DaysUpToNat ==
    ASSUME NEW Y \in Nat
    PROVE  DaysUpTo(Y) \in Nat
<1>1. HasParts(Y)
  BY YearParts
<1>2. PICK B, C, D, R, Q, S : YearIs(Y, B, C, D, R, Q, S)
  BY <1>1 DEF HasParts
<1>3. DaysUpTo(Y) = 36524 * B + C + 365 * R + Q
  BY SMT, <1>2, DaysUpToParts
<1> QED
  BY SMT, <1>2, <1>3 DEF YearIs

\* Whether the year y in which the March year z ends is a leap year
LEMMA LeapParts ==
    ASSUME NEW y \in Nat, NEW z \in Nat, z = y + 4799,
           NEW B, NEW C, NEW D, NEW R, NEW Q, NEW S, YearIs(z, B, C, D, R, Q, S)
    PROVE  IsLeap(y) <=> S = 3 /\ (R # 99 \/ D = 3)
<1>0. /\ B \in Nat /\ C \in Nat /\ D \in Nat /\ R \in Nat /\ Q \in Nat /\ S \in Nat
      /\ y + 4799 = 100 * B + R /\ B = 4 * C + D /\ R = 4 * Q + S
      /\ R <= 99 /\ D <= 3 /\ S <= 3
  BY SMT DEF YearIs
<1>1. y % 4 = 0 <=> S = 3
  BY SMT, <1>0
<1>2. y % 100 = 0 <=> R = 99
  BY SMT, <1>0
<1>3. R = 99 => (y % 400 = 0 <=> D = 3)
  BY SMT, <1>0
<1>4. y % 400 = 0 => y % 100 = 0
  BY SMT
<1> QED
  BY SMT, <1>1, <1>2, <1>3, <1>4 DEF IsLeap

\* A March year has 366 days when the year it ends in is a leap year.
LEMMA YearLength ==
    ASSUME NEW y \in Nat, NEW z \in Nat, z = y + 4799, NEW w \in Nat, w = y + 4800
    PROVE  DaysUpTo(w) = DaysUpTo(z) + IF IsLeap(y) THEN 366 ELSE 365
<1>1. HasParts(z) /\ HasParts(w)
  BY SMT, YearParts
<1>2. PICK B, C, D, R, Q, S : YearIs(z, B, C, D, R, Q, S)
  BY SMT, <1>1 DEF HasParts
<1>3. PICK B2, C2, D2, R2, Q2, S2 : YearIs(w, B2, C2, D2, R2, Q2, S2)
  BY SMT, <1>1 DEF HasParts
<1>4. DaysUpTo(z) = 36524 * B + C + 365 * R + Q
  BY SMT, <1>2, DaysUpToParts
<1>5. DaysUpTo(w) = 36524 * B2 + C2 + 365 * R2 + Q2
  BY SMT, <1>3, DaysUpToParts
<1>6. IsLeap(y) <=> S = 3 /\ (R # 99 \/ D = 3)
  BY SMT, <1>2, LeapParts
<1>7. /\ B \in Nat /\ C \in Nat /\ D \in Nat /\ R \in Nat /\ Q \in Nat /\ S \in Nat
      /\ B2 \in Nat /\ C2 \in Nat /\ D2 \in Nat /\ R2 \in Nat /\ Q2 \in Nat /\ S2 \in Nat
      /\ y + 4799 = 100 * B + R /\ B = 4 * C + D /\ R = 4 * Q + S
      /\ R <= 99 /\ D <= 3 /\ S <= 3
      /\ y + 4800 = 100 * B2 + R2 /\ B2 = 4 * C2 + D2 /\ R2 = 4 * Q2 + S2
      /\ R2 <= 99 /\ D2 <= 3 /\ S2 <= 3
  BY SMT, <1>2, <1>3 DEF YearIs
<1>8. CASE R = 99
  <2>1. R2 = 0 /\ B2 = B + 1 /\ Q2 = 0 /\ S = 3 /\ Q = 24
    BY SMT, <1>7, <1>8
  <2>2. IF D = 3 THEN C2 = C + 1 ELSE C2 = C
    BY SMT, <1>7, <2>1
  <2> QED
    BY SMT, <1>4, <1>5, <1>6, <1>7, <1>8, <2>1, <2>2
<1>9. CASE R # 99
  <2>1. R2 = R + 1 /\ B2 = B /\ C2 = C
    BY SMT, <1>7, <1>9
  <2>2. IF S = 3 THEN Q2 = Q + 1 ELSE Q2 = Q
    BY SMT, <1>7, <2>1
  <2> QED
    BY SMT, <1>4, <1>5, <1>6, <1>7, <1>9, <2>1, <2>2
<1> QED
  BY SMT, <1>8, <1>9

LEMMA DaysBeforeNat ==
    ASSUME NEW M \in Nat, M <= 11
    PROVE  DaysBefore(M) \in Nat /\ DaysBefore(M) <= 337
  BY SMT DEF DaysBefore

\* The March year and its month that a month of a year is
MarchOf(y, m, M, Y) ==
    /\ y \in Nat /\ m \in Nat /\ M \in Nat /\ Y \in Nat /\ 1 <= m /\ m <= 12 /\ M <= 11
    /\ m <= 2 => M = m + 9 /\ Y = y + 4799
    /\ m > 2 => M = m - 3 /\ Y = y + 4800

InMarchYear(y, m) == \E M, Y : MarchOf(y, m, M, Y)

LEMMA MarchExists ==
    ASSUME NEW y \in Nat, NEW m \in Nat, 1 <= m, m <= 12
    PROVE  InMarchYear(y, m)
<1>1. m <= 2 => MarchOf(y, m, m + 9, y + 4799)
  BY SMT DEF MarchOf
<1>2. m > 2 => MarchOf(y, m, m - 3, y + 4800)
  BY SMT DEF MarchOf
<1> QED
  BY SMT, <1>1, <1>2 DEF InMarchYear

\* getJulianDayNumber() counts March years.
JulianOf(d, M, Y) == d + DaysBefore(M) + DaysUpTo(Y) - 32045

LEMMA JulianIs ==
    ASSUME NEW y, NEW m, NEW M, NEW Y, NEW d, MarchOf(y, m, M, Y)
    PROVE  GetJulianDayNumber(y, m, d)
              = d + (153 * M + 2) \div 5 + Y * 365 + Y \div 4 - Y \div 100 + Y \div 400 - 32045
<1>0. /\ y \in Nat /\ m \in Nat /\ M \in Nat /\ Y \in Nat /\ 1 <= m /\ m <= 12
      /\ m <= 2 => M = m + 9 /\ Y = y + 4799
      /\ m > 2 => M = m - 3 /\ Y = y + 4800
  BY SMT DEF MarchOf
<1>1. PICK a \in Nat : a = (14 - m) \div 12
  BY SMT, <1>0
<1>2. M = m + 12 * a - 3 /\ Y = y + 4800 - a
  <2>1. m <= 2 => a = 1
    BY SMT, <1>0, <1>1
  <2>2. m > 2 => a = 0
    BY SMT, <1>0, <1>1
  <2> QED
    BY SMT, <1>0, <2>1, <2>2
<1> QED
  BY SMT, <1>1, <1>2 DEF GetJulianDayNumber

LEMMA JulianSum ==
    ASSUME NEW y, NEW m, NEW M, NEW Y, NEW d \in Int, MarchOf(y, m, M, Y)
    PROVE  GetJulianDayNumber(y, m, d) = JulianOf(d, M, Y)
<1>1. M \in Nat /\ Y \in Nat
  BY SMT DEF MarchOf
<1>2. GetJulianDayNumber(y, m, d)
        = d + (153 * M + 2) \div 5 + Y * 365 + Y \div 4 - Y \div 100 + Y \div 400 - 32045
  BY SMT, JulianIs
<1> QED
  BY SMT, <1>1, <1>2 DEF JulianOf, DaysBefore, DaysUpTo

LEMMA LengthOfMonth ==
    ASSUME NEW y \in Nat, NEW m \in Nat, 1 <= m, m <= 12
    PROVE  MonthLength(y, m) \in Nat /\ MonthLength(y, m) >= 28 /\ MonthLength(y, m) <= 31
  BY SMT DEF MonthLength

\* The day after the last of a month is the first of the next.
LEMMA NextMonth ==
    ASSUME NEW y \in Nat, NEW m \in Nat, 1 <= m, m < 12
    PROVE  GetJulianDayNumber(y, m + 1, 1) = GetJulianDayNumber(y, m, MonthLength(y, m)) + 1
<1>1. PICK m2 \in Nat, z \in Nat, w \in Nat : m2 = m + 1 /\ z = y + 4799 /\ w = y + 4800
  BY SMT
<1>2. DaysUpTo(z) \in Nat /\ DaysUpTo(w) \in Nat
  BY SMT, DaysUpToNat
<1>3. DaysUpTo(w) = DaysUpTo(z) + IF IsLeap(y) THEN 366 ELSE 365
  BY SMT, <1>1, YearLength
<1>4. PICK k \in Nat : k = MonthLength(y, m)
  BY SMT, LengthOfMonth
<1>5. InMarchYear(y, m) /\ InMarchYear(y, m2)
  BY SMT, <1>1, MarchExists
<1>6. PICK M, Y : MarchOf(y, m, M, Y)
  BY SMT, <1>5 DEF InMarchYear
<1>7. PICK M2, Y2 : MarchOf(y, m2, M2, Y2)
  BY SMT, <1>5 DEF InMarchYear
<1>8. /\ GetJulianDayNumber(y, m, k) = JulianOf(k, M, Y)
      /\ GetJulianDayNumber(y, m2, 1) = JulianOf(1, M2, Y2)
  BY SMT, <1>6, <1>7, JulianSum
<1>9. JulianOf(1, M2, Y2) = JulianOf(k, M, Y) + 1
  <2>1. CASE m = 1
    <3>1. M = 10 /\ M2 = 11 /\ Y = z /\ Y2 = z
      BY SMT, <1>1, <1>6, <1>7, <2>1 DEF MarchOf
    <3>2. k = 31
      BY SMT, <1>4, <2>1 DEF MonthLength
    <3> QED
      BY SMT, <1>2, <3>1, <3>2, MonthTable DEF JulianOf
  <2>2. CASE m = 2
    <3>1. M = 11 /\ M2 = 0 /\ Y = z /\ Y2 = w
      BY SMT, <1>1, <1>6, <1>7, <2>2 DEF MarchOf
    <3>2. k = IF IsLeap(y) THEN 29 ELSE 28
      BY SMT, <1>4, <2>2 DEF MonthLength
    <3> QED
      BY SMT, <1>2, <1>3, <3>1, <3>2, MonthTable DEF JulianOf
  <2>3. CASE m > 2
    <3>1. M = m - 3 /\ M2 = m - 2 /\ Y = w /\ Y2 = w
      BY SMT, <1>1, <1>6, <1>7, <2>3 DEF MarchOf
    <3>2. k = IF m \in {4, 6, 9, 11} THEN 30 ELSE 31
      BY SMT, <1>4, <2>3 DEF MonthLength
    <3>3. DaysBefore(M2) = DaysBefore(M) + k /\ DaysBefore(M) \in Nat
      <4>1. m \in {3, 4, 5, 6, 7, 8, 9, 10, 11}
        BY SMT, <2>3
      <4> QED
        BY SMT, <3>1, <3>2, <4>1, MonthTable
    <3> QED
      BY SMT, <1>2, <3>1, <3>3 DEF JulianOf
  <2> QED
    BY SMT, <2>1, <2>2, <2>3
<1> QED
  BY SMT, <1>1, <1>4, <1>8, <1>9

LEMMA NextYear ==
    ASSUME NEW y \in Nat
    PROVE  GetJulianDayNumber(y + 1, 1, 1) = GetJulianDayNumber(y, 12, 31) + 1
<1>1. PICK y2 \in Nat, w \in Nat : y2 = y + 1 /\ w = y + 4800
  BY SMT
<1>2. DaysUpTo(w) \in Nat
  BY SMT, DaysUpToNat
<1>3. MarchOf(y, 12, 9, w) /\ MarchOf(y2, 1, 10, w)
  BY SMT, <1>1 DEF MarchOf
<1>4. /\ GetJulianDayNumber(y, 12, 31) = JulianOf(31, 9, w)
      /\ GetJulianDayNumber(y2, 1, 1) = JulianOf(1, 10, w)
  BY SMT, <1>3, JulianSum
<1>5. JulianOf(1, 10, w) = JulianOf(31, 9, w) + 1
  BY SMT, <1>2, MonthTable DEF JulianOf
<1> QED
  BY SMT, <1>1, <1>4, <1>5

LEMMA SameMonth ==
    ASSUME NEW y \in Nat, NEW m \in Nat, 1 <= m, m <= 12, NEW d \in Int
    PROVE  /\ GetJulianDayNumber(y, m, d) \in Int
           /\ GetJulianDayNumber(y, m, d + 1) = GetJulianDayNumber(y, m, d) + 1
<1>1. InMarchYear(y, m)
  BY SMT, MarchExists
<1>2. PICK M, Y : MarchOf(y, m, M, Y)
  BY SMT, <1>1 DEF InMarchYear
<1>3. PICK d2 \in Int : d2 = d + 1
  BY SMT
<1>4. GetJulianDayNumber(y, m, d) = JulianOf(d, M, Y) /\ GetJulianDayNumber(y, m, d2) = JulianOf(d2, M, Y)
  BY SMT, <1>2, JulianSum
<1>5. M \in Nat /\ M <= 11 /\ Y \in Nat
  BY SMT, <1>2 DEF MarchOf
<1>6. DaysBefore(M) \in Nat /\ DaysUpTo(Y) \in Nat
  BY SMT, <1>5, DaysBeforeNat, DaysUpToNat
<1> QED
  BY SMT, <1>3, <1>4, <1>6 DEF JulianOf

-----------------------------------------------------------------------------
(* The way back.                                                            *)

\* Steps of getYearMonthDay()
Century(a) == (4 * a + 3) \div 146097
InCentury(a, b) == a - (b * 146097) \div 4
YearInCentury(c) == (4 * c + 3) \div 1461
InYear(c, d) == c - (1461 * d) \div 4
MonthInYear(e) == (5 * e + 2) \div 153

\* The day e of a March year, counted from 0, is the day k of its month M.
DayInMonth(e, M, k) ==
    /\ M \in Nat /\ M <= 11 /\ k \in Nat /\ k <= 30 /\ (M = 11 => k <= 28)
    /\ M \in {1, 3, 6, 8} => k <= 29
    /\ e \in Nat /\ e = k + DaysBefore(M)

\* It determines the month.
LEMMA MonthOfDay ==
    ASSUME NEW M, NEW k, NEW e, DayInMonth(e, M, k)
    PROVE  MonthInYear(e) = M /\ e <= 365 /\ (e = 365 => M = 11 /\ k = 28)
<1>1. CASE M \in {0, 1, 2, 3}
  BY SMT, <1>1, MonthTable DEF MonthInYear, DayInMonth
<1>2. CASE M \in {4, 5, 6, 7}
  BY SMT, <1>2, MonthTable DEF MonthInYear, DayInMonth
<1>3. CASE M \in {8, 9, 10, 11}
  BY SMT, <1>3, MonthTable DEF MonthInYear, DayInMonth
<1> QED
  BY SMT, <1>1, <1>2, <1>3 DEF DayInMonth

\* The day e of a March year: only a leap day is the 366th.
DayIs(e, D, R, S) == e \in Nat /\ e <= 365 /\ (e = 365 => S = 3 /\ (R # 99 \/ D = 3))

LEMMA RestOfCentury ==
    ASSUME NEW R \in Int, NEW Q \in Int, NEW S \in Int, NEW D \in Int, NEW e \in Int,
           R >= 0, R <= 99, Q >= 0, S >= 0, S <= 3, D >= 0, D <= 3, e >= 0, e <= 365,
           R = 4 * Q + S, e = 365 => S = 3 /\ (R # 99 \/ D = 3)
    PROVE  1461 * R + 4 * e + 3 - S - D >= 0 /\ 1461 * R + 4 * e + 3 - S - D < 146097
  BY SMT

LEMMA CenturyOf ==
    ASSUME NEW B \in Nat, NEW r \in Nat, r < 146097
    PROVE  (146097 * B + r) \div 146097 = B
  BY SMT

LEMMA YearOf ==
    ASSUME NEW R \in Nat, NEW r \in Nat, r < 1461
    PROVE  (1461 * R + r) \div 1461 = R
  BY SMT

\* The steps find the century, the year in it and the day in that.
LEMMA CountBack ==
    ASSUME NEW Y, NEW B, NEW C, NEW D, NEW R, NEW Q, NEW S, YearIs(Y, B, C, D, R, Q, S),
           NEW e, DayIs(e, D, R, S), NEW c, c = 365 * R + Q + e,
           NEW a, a = 36524 * B + C + c
    PROVE  Century(a) = B /\ InCentury(a, B) = c /\ YearInCentury(c) = R /\ InYear(c, R) = e
<1>0. /\ B \in Nat /\ C \in Nat /\ D \in Nat /\ R \in Nat /\ Q \in Nat /\ S \in Nat
      /\ B = 4 * C + D /\ R = 4 * Q + S /\ R <= 99 /\ D <= 3 /\ S <= 3
  BY SMT DEF YearIs
<1>1. e \in Nat /\ e <= 365 /\ (e = 365 => S = 3 /\ (R # 99 \/ D = 3))
  BY SMT DEF DayIs
<1>2. Century(a) = B
  <2>1. PICK r \in Nat : r = 1461 * R + 4 * e + 3 - S - D /\ r < 146097
    BY SMT, <1>0, <1>1, RestOfCentury
  <2>2. 4 * a + 3 = 146097 * B + r
    BY SMT, <1>0, <1>1, <2>1
  <2>3. (146097 * B + r) \div 146097 = B
    BY SMT, <1>0, <2>1, CenturyOf
  <2> QED
    BY SMT, <2>2, <2>3 DEF Century
<1>3. InCentury(a, B) = c
  <2>1. B * 146097 = 4 * (36524 * B + C) + D
    BY SMT, <1>0
  <2>2. (B * 146097) \div 4 = 36524 * B + C
    BY SMT, <1>0, <2>1
  <2> QED
    BY SMT, <1>0, <1>1, <2>2 DEF InCentury
<1>4. YearInCentury(c) = R
  <2>1. PICK r \in Nat : r = 4 * e + 3 - S /\ r < 1461
    <3>1. e = 365 => S = 3
      BY SMT, <1>1
    <3> QED
      BY SMT, <1>0, <1>1, <3>1
  <2>2. 4 * c + 3 = 1461 * R + r
    BY SMT, <1>0, <1>1, <2>1
  <2>3. (1461 * R + r) \div 1461 = R
    BY SMT, <1>0, <2>1, YearOf
  <2> QED
    BY SMT, <2>2, <2>3 DEF YearInCentury
<1>5. InYear(c, R) = e
  <2>1. 1461 * R = 4 * (365 * R + Q) + S
    BY SMT, <1>0
  <2>2. (1461 * R) \div 4 = 365 * R + Q
    BY SMT, <1>0, <2>1
  <2> QED
    BY SMT, <1>0, <1>1, <2>2 DEF InYear
<1> QED
  BY SMT, <1>2, <1>3, <1>4, <1>5

LEMMA DateFrom ==
    ASSUME NEW n, NEW a, NEW b, NEW c, NEW d, NEW e, NEW m,
           n + 32044 = a, Century(a) = b, InCentury(a, b) = c,
           YearInCentury(c) = d, InYear(c, d) = e, MonthInYear(e) = m
    PROVE  GetYearMonthDay(n) = <<b * 100 + d - 4800 + m \div 10, m + 3 - 12 * (m \div 10),
                                  e - DaysBefore(m) + 1>>
  BY SMT DEF GetYearMonthDay, Century, InCentury, YearInCentury, InYear, MonthInYear, DaysBefore

\* A day that exists
ValidDate(y, m, d) ==
    /\ y \in Nat /\ m \in Nat /\ d \in Nat /\ 1 <= m /\ m <= 12
    /\ 1 <= d /\ d <= MonthLength(y, m)

\* getYearMonthDay() finds the year, the month and the day again.
LEMMA DateReturns ==
    ASSUME NEW y, NEW m, NEW d, ValidDate(y, m, d)
    PROVE  GetYearMonthDay(GetJulianDayNumber(y, m, d)) = <<y, m, d>>
<1>1. /\ y \in Nat /\ m \in Nat /\ d \in Nat /\ 1 <= m /\ m <= 12
      /\ 1 <= d /\ d <= MonthLength(y, m)
  BY SMT DEF ValidDate
<1>2. PICK M, Y : MarchOf(y, m, M, Y)
  <2>1. InMarchYear(y, m)
    BY SMT, <1>1, MarchExists
  <2> QED
    BY SMT, <2>1 DEF InMarchYear
<1>3. /\ M \in Nat /\ Y \in Nat /\ M <= 11
      /\ m <= 2 => M = m + 9 /\ Y = y + 4799
      /\ m > 2 => M = m - 3 /\ Y = y + 4800
  BY SMT, <1>2 DEF MarchOf
<1>4. PICK n \in Int : n = GetJulianDayNumber(y, m, d)
  BY SMT, <1>1, SameMonth
<1>5. DaysBefore(M) \in Nat /\ DaysUpTo(Y) \in Nat
  BY SMT, <1>3, DaysBeforeNat, DaysUpToNat
<1>6. PICK k \in Nat, e \in Nat : k = d - 1 /\ e = k + DaysBefore(M)
  BY SMT, <1>1, <1>5
<1>7. k <= 30 /\ (M = 11 => k <= 28) /\ (M \in {1, 3, 6, 8} => k <= 29)
  <2>1. MonthLength(y, m) <= 31 /\ MonthLength(y, m) \in Nat
    BY SMT, <1>1, LengthOfMonth
  <2>2. m = 2 => MonthLength(y, m) = IF IsLeap(y) THEN 29 ELSE 28
    BY SMT DEF MonthLength
  <2>3. m \in {4, 6, 9, 11} => MonthLength(y, m) = 30
    BY SMT, <1>1 DEF MonthLength
  <2>4. M = 11 => m = 2
    BY SMT, <1>1, <1>3
  <2>5. M \in {1, 3, 6, 8} => m \in {4, 6, 9, 11}
    BY SMT, <1>1, <1>3
  <2> QED
    BY SMT, <1>1, <1>6, <2>1, <2>2, <2>3, <2>4, <2>5
<1>8. MonthInYear(e) = M /\ e <= 365 /\ (e = 365 => M = 11 /\ k = 28)
  <2>1. DayInMonth(e, M, k)
    BY SMT, <1>3, <1>6, <1>7 DEF DayInMonth
  <2> QED
    BY SMT, <2>1, MonthOfDay
<1>9. PICK B, C, D, R, Q, S : YearIs(Y, B, C, D, R, Q, S)
  <2>1. HasParts(Y)
    BY SMT, <1>3, YearParts
  <2> QED
    BY SMT, <2>1 DEF HasParts
<1>10. DayIs(e, D, R, S)
  <2>1. CASE e = 365
    <3>1. m = 2 /\ Y = y + 4799 /\ d = 29
      BY SMT, <1>1, <1>3, <1>6, <1>8, <2>1
    <3>2. IsLeap(y)
      BY SMT, <1>1, <3>1 DEF MonthLength
    <3>3. S = 3 /\ (R # 99 \/ D = 3)
      BY SMT, <1>1, <1>3, <1>9, <3>1, <3>2, LeapParts
    <3> QED
      BY SMT, <1>8, <3>3 DEF DayIs
  <2> QED
    BY SMT, <1>8, <2>1 DEF DayIs
<1>11. /\ B \in Nat /\ C \in Nat /\ R \in Nat /\ Q \in Nat /\ Y = 100 * B + R
  BY SMT, <1>9 DEF YearIs
<1>12. PICK c \in Nat, a \in Nat : c = 365 * R + Q + e /\ a = 36524 * B + C + c
  BY SMT, <1>11
<1>13. Century(a) = B /\ InCentury(a, B) = c /\ YearInCentury(c) = R /\ InYear(c, R) = e
  BY SMT, <1>9, <1>10, <1>12, CountBack
<1>14. n + 32044 = a
  <2>1. n = JulianOf(d, M, Y)
    BY SMT, <1>1, <1>2, <1>4, JulianSum
  <2>2. DaysUpTo(Y) = 36524 * B + C + 365 * R + Q
    BY SMT, <1>9, DaysUpToParts
  <2> QED
    BY SMT, <1>1, <1>5, <1>6, <1>11, <1>12, <2>1, <2>2 DEF JulianOf
<1>15. GetYearMonthDay(n) = <<B * 100 + R - 4800 + M \div 10, M + 3 - 12 * (M \div 10),
                             e - DaysBefore(M) + 1>>
  BY SMT, <1>8, <1>13, <1>14, DateFrom
<1>16. B * 100 + R - 4800 + M \div 10 = y
  BY SMT, <1>1, <1>3, <1>11
<1>17. M + 3 - 12 * (M \div 10) = m
  BY SMT, <1>1, <1>3
<1>18. e - DaysBefore(M) + 1 = d
  BY SMT, <1>1, <1>5, <1>6
<1>19. GetYearMonthDay(n) = <<y, m, d>>
  BY SMT, <1>15, <1>16, <1>17, <1>18
<1> QED
  BY SMT, <1>4, <1>19

-----------------------------------------------------------------------------
(* toUtcTime() and fromUtcTime()                                            *)

\* A moment is a day, before 1970 as well, and a second of that day.
MomentIs(t, D, s) == D \in Int /\ s \in Nat /\ s < 86400 /\ t \in Int /\ t = D * 86400 + s

LEMMA RoundedDown ==
    ASSUME NEW t, NEW D, NEW s, MomentIs(t, D, s)
    PROVE  LET neg == CRem(t, 86400) < 0
           IN  /\ CRem(t, 86400) + (IF neg THEN 86400 ELSE 0) = s
               /\ CDiv(t, 86400) - (IF neg THEN 1 ELSE 0) = D
<1>0. D \in Int /\ s \in Nat /\ s < 86400 /\ t \in Int /\ t = D * 86400 + s
  BY SMT DEF MomentIs
<1>1. CASE D >= 0
  <2>1. t >= 0 /\ t % 86400 = s /\ t \div 86400 = D
    BY SMT, <1>0, <1>1
  <2> QED
    BY SMT, <1>0, <2>1 DEF CRem, CDiv
<1>2. CASE D < 0 /\ s = 0
  <2>1. t < 0 /\ (-t) % 86400 = 0 /\ (-t) \div 86400 = -D
    BY SMT, <1>0, <1>2
  <2> QED
    BY SMT, <1>0, <1>2, <2>1 DEF CRem, CDiv
<1>3. CASE D < 0 /\ s > 0
  <2>1. t < 0 /\ (-t) % 86400 = 86400 - s /\ (-t) \div 86400 = -D - 1
    BY SMT, <1>0, <1>3
  <2> QED
    BY SMT, <1>0, <1>3, <2>1 DEF CRem, CDiv
<1> QED
  BY SMT, <1>0, <1>1, <1>2, <1>3

LEMMA TimeOfDay ==
    ASSUME NEW s \in Nat
    PROVE  ((s \div 60) \div 60) * 3600 + ((s \div 60) % 60) * 60 + (s % 60) = s
  BY SMT

\* The fields for a second of a day
UtcOf(seconds, days) ==
    LET jdn == days + JulianDayOf1970
        ymd == GetYearMonthDay(jdn)
    IN  [date |-> ymd, wday |-> WeekDay(jdn), yday |-> jdn - GetJulianDayNumber(ymd[1], 1, 1),
         time |-> <<(seconds \div 60) \div 60, (seconds \div 60) % 60, seconds % 60>>]

\* The second s of the day with number n
SecondOf(t, n, s) ==
    /\ n \in Int /\ s \in Nat /\ s < SecondsPerDay /\ JulianDayOf1970 \in Int
    /\ t = (n - JulianDayOf1970) * SecondsPerDay + s

LEMMA UtcReturns ==
    ASSUME NEW n, NEW s, NEW t, SecondOf(t, n, s)
    PROVE  ToUtcTime(t) =
             [date |-> GetYearMonthDay(n), wday |-> WeekDay(n),
              yday |-> n - GetJulianDayNumber(GetYearMonthDay(n)[1], 1, 1),
              time |-> <<(s \div 60) \div 60, (s \div 60) % 60, s % 60>>]
<1>0. /\ n \in Int /\ s \in Nat /\ s < SecondsPerDay /\ JulianDayOf1970 \in Int
      /\ t = (n - JulianDayOf1970) * SecondsPerDay + s
  BY SMT DEF SecondOf
<1>1. PICK J \in Int, D \in Int : J = JulianDayOf1970 /\ D = n - J
  BY SMT, <1>0
<1>2. SecondsPerDay = 86400
  BY SMT DEF SecondsPerDay
<1>3. MomentIs(t, D, s)
  BY SMT, <1>0, <1>1, <1>2 DEF MomentIs
<1>4. LET neg == CRem(t, 86400) < 0
      IN  /\ CRem(t, 86400) + (IF neg THEN 86400 ELSE 0) = s
          /\ CDiv(t, 86400) - (IF neg THEN 1 ELSE 0) = D
  BY SMT, <1>3, RoundedDown
<1>5. D + J = n
  BY SMT, <1>0, <1>1
<1>6. ToUtcTime(t) = UtcOf(CRem(t, SecondsPerDay)
                             + (IF CRem(t, SecondsPerDay) < 0 THEN SecondsPerDay ELSE 0),
                           CDiv(t, SecondsPerDay)
                             - (IF CRem(t, SecondsPerDay) < 0 THEN 1 ELSE 0))
  BY SMT DEF ToUtcTime, UtcOf
<1>7. ToUtcTime(t) = UtcOf(s, D)
  BY SMT, <1>2, <1>4, <1>6
<1> QED
  BY SMT, <1>1, <1>5, <1>7 DEF UtcOf

LEMMA FromUtcReturns ==
    ASSUME NEW y, NEW m, NEW d, NEW n \in Int, n = GetJulianDayNumber(y, m, d), NEW tm,
           NEW s \in Nat, tm.date = <<y, m, d>>, JulianDayOf1970 \in Int,
           tm.time = <<(s \div 60) \div 60, (s \div 60) % 60, s % 60>>
    PROVE  FromUtcTime(tm) = (n - JulianDayOf1970) * SecondsPerDay + s
<1>1. PICK h \in Int, l \in Int, r \in Int :
         h = (s \div 60) \div 60 /\ l = (s \div 60) % 60 /\ r = s % 60
  BY SMT
<1>2. h * 3600 + l * 60 + r = s
  BY SMT, <1>1, TimeOfDay
<1>3. PICK k \in Int : k = (n - JulianDayOf1970) * SecondsPerDay
  BY SMT DEF SecondsPerDay
<1>4. FromUtcTime(tm) = k + h * 3600 + l * 60 + r
  BY SMT, <1>1, <1>3 DEF FromUtcTime
<1>5. FromUtcTime(tm) = k + s
  BY SMT, <1>2, <1>4
<1> QED
  BY SMT, <1>3, <1>5

-----------------------------------------------------------------------------
\* The inductive invariant: the calendar shows a day that exists, and the Julian
\* day number is that day's.
CalendarOf(y, m, d, n) ==
    [date |-> <<y, m, d>>, wday |-> WeekDay(n), yday |-> n - GetJulianDayNumber(y, 1, 1)]

DateInv ==
    \E y, m, d : /\ ValidDate(y, m, d)
                 /\ julian = GetJulianDayNumber(y, m, d)
                 /\ calendar = CalendarOf(y, m, d, julian)

LEMMA NextDate ==
    ASSUME NEW y, NEW m, NEW d, ValidDate(y, m, d), NEW n, n = GetJulianDayNumber(y, m, d),
           calendar = CalendarOf(y, m, d, n), julian = n, NextDay
    PROVE  DateInv'
<1>1. /\ y \in Nat /\ m \in Nat /\ d \in Nat /\ 1 <= m /\ m <= 12
      /\ 1 <= d /\ d <= MonthLength(y, m)
  BY SMT DEF ValidDate
<1>2. n \in Int /\ GetJulianDayNumber(y, 1, 1) \in Int
  BY SMT, <1>1, SameMonth
<1>3. MonthLength(y, m) \in Nat /\ MonthLength(y, m) >= 28
  BY SMT, <1>1, LengthOfMonth
<1>4. calendar.date[1] = y /\ calendar.date[2] = m /\ calendar.date[3] = d
  BY SMT DEF CalendarOf
<1>5. calendar.wday = WeekDay(n) /\ calendar.yday = n - GetJulianDayNumber(y, 1, 1)
  BY SMT DEF CalendarOf
<1>6. (calendar.wday + 1) % 7 = WeekDay(n + 1)
  BY SMT, <1>2, <1>5 DEF WeekDay
<1>7. julian' = n + 1
  BY SMT DEF NextDay
<1>8. CASE d < MonthLength(y, m)
  <2>1. ValidDate(y, m, d + 1)
    BY SMT, <1>1, <1>3, <1>8 DEF ValidDate
  <2>2. n + 1 = GetJulianDayNumber(y, m, d + 1)
    BY SMT, <1>1, SameMonth
  <2>3. calendar' = [date |-> <<y, m, d + 1>>, wday |-> WeekDay(n + 1),
                     yday |-> (n - GetJulianDayNumber(y, 1, 1)) + 1]
    <3>1. PICK d2 \in Nat : d2 = d + 1
      BY SMT, <1>1
    <3>2. (CASE d < MonthLength(y, m) -> <<y, m, d2>>
             [] d = MonthLength(y, m) /\ m < 12 -> <<y, m + 1, 1>>
             [] OTHER -> <<y + 1, 1, 1>>) = <<y, m, d2>>
      BY SMT, <1>1, <1>3, <1>8
    <3> QED
      BY SMT, <1>4, <1>5, <1>6, <3>1, <3>2 DEF NextDay
  <2>4. (n - GetJulianDayNumber(y, 1, 1)) + 1 = (n + 1) - GetJulianDayNumber(y, 1, 1)
    BY SMT, <1>2
  <2>5. calendar' = CalendarOf(y, m, d + 1, n + 1)
    BY SMT, <2>3, <2>4 DEF CalendarOf
  <2> QED
    BY SMT, <1>7, <2>1, <2>2, <2>5 DEF DateInv
<1>9. CASE d = MonthLength(y, m) /\ m < 12
  <2>1. ValidDate(y, m + 1, 1)
    <3>1. PICK m2 \in Nat : m2 = m + 1
      BY SMT, <1>1
    <3>2. MonthLength(y, m2) \in Nat /\ MonthLength(y, m2) >= 28
      BY SMT, <1>1, <1>9, <3>1, LengthOfMonth
    <3> QED
      BY SMT, <1>1, <1>9, <3>1, <3>2 DEF ValidDate
  <2>2. n + 1 = GetJulianDayNumber(y, m + 1, 1)
    BY SMT, <1>1, <1>9, NextMonth
  <2>3. calendar' = [date |-> <<y, m + 1, 1>>, wday |-> WeekDay(n + 1),
                     yday |-> (n - GetJulianDayNumber(y, 1, 1)) + 1]
    <3>1. ~(d < MonthLength(y, m))
      BY SMT, <1>1, <1>3, <1>9
    <3> QED
      BY SMT, <1>4, <1>5, <1>6, <1>9, <3>1 DEF NextDay
  <2>4. (n - GetJulianDayNumber(y, 1, 1)) + 1 = (n + 1) - GetJulianDayNumber(y, 1, 1)
    BY SMT, <1>2
  <2>5. calendar' = CalendarOf(y, m + 1, 1, n + 1)
    BY SMT, <2>3, <2>4 DEF CalendarOf
  <2> QED
    BY SMT, <1>7, <2>1, <2>2, <2>5 DEF DateInv
<1>10. CASE d = MonthLength(y, m) /\ m = 12
  <2>1. ValidDate(y + 1, 1, 1) /\ d = 31
    BY SMT, <1>1, <1>10 DEF ValidDate, MonthLength
  <2>2. n + 1 = GetJulianDayNumber(y + 1, 1, 1)
    BY SMT, <1>1, <1>10, <2>1, NextYear
  <2>3. calendar' = [date |-> <<y + 1, 1, 1>>, wday |-> WeekDay(n + 1), yday |-> 0]
    <3>1. ~(d < MonthLength(y, m)) /\ ~(d = MonthLength(y, m) /\ m < 12) /\ y + 1 # y
      BY SMT, <1>1, <1>3, <1>10
    <3> QED
      BY SMT, <1>4, <1>5, <1>6, <1>10, <3>1 DEF NextDay
  <2>4. (n + 1) - GetJulianDayNumber(y + 1, 1, 1) = 0
    BY SMT, <1>2, <2>2
  <2>5. calendar' = CalendarOf(y + 1, 1, 1, n + 1)
    BY SMT, <2>3, <2>4 DEF CalendarOf
  <2> QED
    BY SMT, <1>7, <2>1, <2>2, <2>5 DEF DateInv
<1> QED
  BY SMT, <1>1, <1>3, <1>8, <1>9, <1>10

LEMMA MatchesCalendar == DateInv => DatesMatchCalendar
<1> SUFFICES ASSUME DateInv PROVE DatesMatchCalendar
  OBVIOUS
<1>1. PICK y, m, d : /\ ValidDate(y, m, d)
                     /\ julian = GetJulianDayNumber(y, m, d)
                     /\ calendar = CalendarOf(y, m, d, julian)
  BY SMT DEF DateInv
<1>2. GetYearMonthDay(julian) = <<y, m, d>>
  BY SMT, <1>1, DateReturns
<1>3. calendar.date = <<y, m, d>>
  BY SMT, <1>1 DEF CalendarOf
<1>4. julian \in Int /\ JulianDayOf1970 \in Int
  BY SMT, <1>1, SameMonth DEF ValidDate, JulianDayOf1970
<1>5. ASSUME NEW s \in UtcSeconds,
             NEW t, t = (julian - JulianDayOf1970) * SecondsPerDay + s, NEW tm, tm = ToUtcTime(t)
      PROVE  /\ [date |-> tm.date, wday |-> tm.wday, yday |-> tm.yday] = calendar
             /\ FromUtcTime(tm) = t
  <2>1. SecondsPerDay = 86400 /\ s \in Nat /\ s < 86400
    BY SMT, <1>5 DEF SecondsPerDay, UtcSeconds
  <2>2. t \in Int
    BY SMT, <1>4, <1>5, <2>1
  <2>3. tm = [date |-> GetYearMonthDay(julian), wday |-> WeekDay(julian),
              yday |-> julian - GetJulianDayNumber(GetYearMonthDay(julian)[1], 1, 1),
              time |-> <<(s \div 60) \div 60, (s \div 60) % 60, s % 60>>]
    <3>1. SecondOf(t, julian, s)
      BY SMT, <1>4, <1>5, <2>1 DEF SecondOf
    <3> QED
      BY SMT, <1>5, <3>1, UtcReturns
  <2>4. /\ tm.date = <<y, m, d>> /\ tm.wday = WeekDay(julian)
        /\ tm.yday = julian - GetJulianDayNumber(y, 1, 1)
        /\ tm.time = <<(s \div 60) \div 60, (s \div 60) % 60, s % 60>>
    BY SMT, <1>2, <2>3
  <2>5. [date |-> tm.date, wday |-> tm.wday, yday |-> tm.yday] = calendar
    BY SMT, <1>1, <2>4 DEF CalendarOf
  <2>6. FromUtcTime(tm) = t
    BY SMT, <1>1, <1>4, <1>5, <2>1, <2>4, FromUtcReturns
  <2> QED
    BY SMT, <2>5, <2>6
<1>6. ASSUME NEW s \in UtcSeconds
      PROVE  UtcTimeReturns(s)
  BY SMT, <1>5 DEF UtcTimeReturns
<1>7. /\ GetYearMonthDay(julian) = calendar.date
      /\ GetJulianDayNumber(calendar.date[1], calendar.date[2], calendar.date[3]) = julian
  BY SMT, <1>1, <1>2, <1>3
<1> QED
  BY Zenon, <1>6, <1>7 DEF DatesMatchCalendar

LEMMA DateInitInv == DateInit => DateInv
<1> SUFFICES ASSUME DateInit PROVE DateInv
  OBVIOUS
<1>1. PICK y \in Nat, m \in Nat, d \in Nat :
         FirstDate = <<y, m, d>> /\ 1 <= m /\ m <= 12 /\ 1 <= d /\ d <= MonthLength(y, m)
  <2>0. /\ FirstDate[1] \in 1900..2500 /\ FirstDate[2] \in 1..12 /\ FirstDate[3] \in 1..31
        /\ FirstDate = <<FirstDate[1], FirstDate[2], FirstDate[3]>>
    BY SMT, DateAssumption
  <2>1. PICK y \in Nat, m \in Nat, d \in Nat :
           y = FirstDate[1] /\ m = FirstDate[2] /\ d = FirstDate[3]
    BY SMT, <2>0
  <2>2. FirstDate = <<y, m, d>> /\ 1 <= m /\ m <= 12 /\ 1 <= d
    BY SMT, <2>0, <2>1
  <2>3. d <= MonthLength(y, m)
    BY SMT, <2>1, DateAssumption
  <2> QED
    BY SMT, <2>2, <2>3
<1>2. ValidDate(y, m, d)
  BY SMT, <1>1 DEF ValidDate
<1>3. /\ julian = GetJulianDayNumber(y, m, d)
      /\ calendar = CalendarOf(y, m, d, julian)
  BY SMT, <1>1 DEF DateInit, CalendarOf
<1> QED
  BY SMT, <1>2, <1>3 DEF DateInv

\* DatesMatchCalendar: from any first day on, day by day, getJulianDayNumber() and
\* getYearMonthDay() agree with a calendar counted by month lengths, and toUtcTime()
\* and fromUtcTime() take a moment of that day apart and put it together again.
THEOREM DatesDoMatch == DateSpec => []DatesMatchCalendar
<1>1. DateInit => DateInv
  BY DateInitInv
<1>2. DateInv /\ [NextDay]_dateVars => DateInv'
  <2> SUFFICES ASSUME DateInv, [NextDay]_dateVars PROVE DateInv'
    OBVIOUS
  <2>1. CASE NextDay
    <3>1. PICK y, m, d : /\ ValidDate(y, m, d)
                         /\ julian = GetJulianDayNumber(y, m, d)
                         /\ calendar = CalendarOf(y, m, d, julian)
      BY DEF DateInv
    <3> QED
      BY <2>1, <3>1, NextDate
  <2>2. CASE UNCHANGED dateVars
    BY <2>2 DEF dateVars, DateInv
  <2> QED
    BY <2>1, <2>2
<1>3. DateInv => DatesMatchCalendar
  BY MatchesCalendar
<1> QED
  BY <1>1, <1>2, <1>3, PTL DEF DateSpec

-----------------------------------------------------------------------------
(* Base64: DecodeInvertsEncode for all strings and every length of a line.  *)
(* A group of four characters gives back its bytes; the groups follow each  *)
(* other, and so do the lines, so that decoding goes through growing        *)
(* prefixes of the string.                                                  *)

\* The same with one hypothesis each
IsPiece(a, m, n) == a \in Seq(Nat) /\ m \in Nat /\ n \in Nat /\ m <= n /\ n <= Len(a)

LEMMA PieceIs ==
    ASSUME NEW a, NEW m, NEW n, IsPiece(a, m, n)
    PROVE  /\ Piece(a, m, n) \in Seq(Nat) /\ Len(Piece(a, m, n)) = n - m
           /\ \A i \in 1..(n - m) : Piece(a, m, n)[i] = a[m + i]
  BY PieceProperties, Zenon DEF IsPiece

LEMMA PiecesFollow ==
    ASSUME NEW a, NEW k, NEW m, NEW n, IsPiece(a, k, m), IsPiece(a, m, n)
    PROVE  Piece(a, k, m) \o Piece(a, m, n) = Piece(a, k, n)
  BY PiecesJoin, Zenon DEF IsPiece

Byte == 0..255

LEMMA BytesAreNumbers ==
    ASSUME NEW s \in Seq(Byte)
    PROVE  s \in Seq(Nat) /\ Len(s) \in Nat /\ \A i \in 1..Len(s) : s[i] \in Byte
<1>1. Len(s) \in Nat /\ \A i \in 1..Len(s) : s[i] \in Byte
  BY LenProperties, ElementOfSeq, Zenon
<1>2. s \in [1..Len(s) -> Byte]
  BY LenProperties, Zenon
<1>3. Byte \subseteq Nat
  BY SMT DEF Byte
<1>4. s \in [1..Len(s) -> Nat]
  BY <1>2, <1>3, Zenon
<1> QED
  BY <1>1, <1>4, SequenceFrom, Zenon

LEMMA CharReturns ==
    ASSUME NEW i \in Nat, i <= 63, NEW url \in BOOLEAN
    PROVE  /\ PosOfChar(Char(i, url)) = i /\ Char(i, url) \in Nat
           /\ Char(i, url) \notin {Equal, Dot, Newline}
           /\ url => Char(i, url) \notin {62, 63}
           /\ ~url => Char(i, url) \notin {Dash, Underscore}
  BY SMT DEF Char, PosOfChar, Equal, Dot, Dash, Underscore, Newline

LEMMA TrailingIs ==
    ASSUME NEW url \in BOOLEAN
    PROVE  /\ Trailing(url) \in {Equal, Dot} /\ Trailing(url) \in Nat
           /\ Trailing(url) # Newline
           /\ url => Trailing(url) \notin {62, 63, Equal}
           /\ ~url => Trailing(url) \notin {Dash, Underscore, Dot}
  BY SMT DEF Trailing, Equal, Dot, Dash, Underscore, Newline

\* Three bytes as four numbers below 64, and back
LEMMA BytesReturn ==
    ASSUME NEW a \in Nat, NEW b \in Nat, NEW c \in Nat, a <= 255, b <= 255, c <= 255,
           NEW p \in Nat, p = a \div 4, NEW q \in Nat, q = (a % 4) * 16 + b \div 16,
           NEW r \in Nat, r = (b % 16) * 4 + c \div 64, NEW s \in Nat, s = c % 64
    PROVE  /\ p <= 63 /\ q <= 63 /\ r <= 63 /\ s <= 63
           /\ (p * 4 + q \div 16) % 256 = a
           /\ ((q % 16) * 16 + r \div 4) % 256 = b
           /\ ((r % 4) * 64 + s) % 256 = c
<1>1. p <= 63 /\ q <= 63 /\ r <= 63 /\ s <= 63
  BY SMT
<1>2. (p * 4 + q \div 16) % 256 = a
  BY SMT
<1>3. ((q % 16) * 16 + r \div 4) % 256 = b
  BY SMT
<1>4. ((r % 4) * 64 + s) % 256 = c
  BY SMT
<1> QED
  BY <1>1, <1>2, <1>3, <1>4

\* The characters of the group behind the first p of n bytes
GroupIs(x1, x2, x3, x4, a, b, c, p, n, url) ==
    /\ x1 = Char(a \div 4, url)
    /\ x2 = Char((a % 4) * 16 + b \div 16, url)
    /\ x3 = IF p + 1 < n THEN Char((b % 16) * 4 + c \div 64, url) ELSE Trailing(url)
    /\ x4 = IF p + 2 < n THEN Char(c % 64, url) ELSE Trailing(url)

\* They stand in t at pos.
GroupAt(t, pos, a, b, c, p, n, url) ==
    /\ pos \in Nat /\ a \in Byte /\ b \in Byte /\ c \in Byte /\ p \in Nat /\ n \in Nat
    /\ url \in BOOLEAN
    /\ GroupIs(t[pos + 1], t[pos + 2], t[pos + 3], t[pos + 4], a, b, c, p, n, url)

\* Its bytes
GroupBytes(a, b, c, p, n) == IF p + 2 < n THEN <<a, b, c>> ELSE IF p + 1 < n THEN <<a, b>> ELSE <<a>>

LEMMA GroupDecoded ==
    ASSUME NEW t, NEW pos, NEW a, NEW b, NEW c, NEW k, NEW n, NEW url,
           GroupAt(t, pos, a, b, c, k, n, url)
    PROVE  DecodeGroup(t, pos) = GroupBytes(a, b, c, k, n)
<1>0. /\ pos \in Nat /\ a \in Byte /\ b \in Byte /\ c \in Byte /\ k \in Nat /\ n \in Nat
      /\ url \in BOOLEAN
      /\ GroupIs(t[pos + 1], t[pos + 2], t[pos + 3], t[pos + 4], a, b, c, k, n, url)
  BY DEF GroupAt
<1>1. PICK p \in Nat, q \in Nat, r \in Nat, s \in Nat :
         /\ p = a \div 4 /\ q = (a % 4) * 16 + b \div 16
         /\ r = (b % 16) * 4 + c \div 64 /\ s = c % 64
  BY SMT, <1>0 DEF Byte
<1>2. /\ p <= 63 /\ q <= 63 /\ r <= 63 /\ s <= 63
      /\ (p * 4 + q \div 16) % 256 = a
      /\ ((q % 16) * 16 + r \div 4) % 256 = b
      /\ ((r % 4) * 64 + s) % 256 = c
  <2>1. a \in Nat /\ b \in Nat /\ c \in Nat /\ a <= 255 /\ b <= 255 /\ c <= 255
    BY SMT, <1>0 DEF Byte
  <2> QED
    BY SMT, <1>1, <2>1, BytesReturn
<1>3. /\ t[pos + 0 + 1] = Char(p, url) /\ t[pos + 1 + 1] = Char(q, url)
      /\ t[pos + 2 + 1] = IF k + 1 < n THEN Char(r, url) ELSE Trailing(url)
      /\ t[pos + 3 + 1] = IF k + 2 < n THEN Char(s, url) ELSE Trailing(url)
  <2>1. pos + 0 + 1 = pos + 1 /\ pos + 1 + 1 = pos + 2 /\ pos + 2 + 1 = pos + 3 /\ pos + 3 + 1 = pos + 4
    BY SMT, <1>0
  <2> QED
    BY SMT, <1>0, <1>1, <2>1 DEF GroupIs
<1>4. /\ PosOfChar(Char(p, url)) = p /\ PosOfChar(Char(q, url)) = q
      /\ PosOfChar(Char(r, url)) = r /\ PosOfChar(Char(s, url)) = s
      /\ Char(r, url) \notin {Equal, Dot} /\ Char(s, url) \notin {Equal, Dot}
  BY SMT, <1>0, <1>2, CharReturns
<1>5. Trailing(url) \in {Equal, Dot}
  BY <1>0, TrailingIs, Zenon
<1>6. CASE k + 2 < n
  <2>1. DecodeGroup(t, pos) = <<(p * 4 + q \div 16) % 256, ((q % 16) * 16 + r \div 4) % 256,
                                ((r % 4) * 64 + s) % 256>>
    BY SMT, <1>3, <1>4, <1>0, <1>6 DEF DecodeGroup
  <2> QED
    BY SMT, <1>2, <1>0, <1>6, <2>1 DEF GroupBytes
<1>7. CASE k + 1 < n /\ ~(k + 2 < n)
  <2>1. DecodeGroup(t, pos) = <<(p * 4 + q \div 16) % 256, ((q % 16) * 16 + r \div 4) % 256>>
    BY SMT, <1>3, <1>4, <1>5, <1>0, <1>7 DEF DecodeGroup
  <2> QED
    BY SMT, <1>2, <1>0, <1>7, <2>1 DEF GroupBytes
<1>8. CASE ~(k + 1 < n)
  <2>1. DecodeGroup(t, pos) = <<(p * 4 + q \div 16) % 256>>
    BY SMT, <1>3, <1>4, <1>5, <1>0, <1>8 DEF DecodeGroup
  <2> QED
    BY SMT, <1>2, <1>0, <1>8, <2>1 DEF GroupBytes
<1> QED
  BY SMT, <1>0, <1>6, <1>7, <1>8

\* The group of s behind its first p bytes
BytesBehind(s, p, n, url) ==
    /\ n \in Nat /\ n = Len(s) /\ \A i \in 1..n : s[i] \in Byte
    /\ p \in Nat /\ p < n /\ url \in BOOLEAN

GroupOf(s, p, n, url, a, b, c) ==
    /\ a \in Byte /\ b \in Byte /\ c \in Byte /\ a = s[p + 1]
    /\ p + 1 < n => b = s[p + 2]
    /\ p + 2 < n => c = s[p + 3]
    /\ GroupIs(EncodeGroup(s, p, url)[1], EncodeGroup(s, p, url)[2],
               EncodeGroup(s, p, url)[3], EncodeGroup(s, p, url)[4], a, b, c, p, n, url)

HasGroup(s, p, n, url) == \E a, b, c : GroupOf(s, p, n, url, a, b, c)

LEMMA GroupEncoded ==
    ASSUME NEW s, NEW p, NEW n, NEW url, BytesBehind(s, p, n, url)
    PROVE  HasGroup(s, p, n, url)
<1>0. /\ n \in Nat /\ n = Len(s) /\ \A i \in 1..n : s[i] \in Byte
      /\ p \in Nat /\ p < n /\ url \in BOOLEAN
  BY DEF BytesBehind
<1> DEFINE b == IF p + 1 < n THEN s[p + 2] ELSE 0
           c == IF p + 2 < n THEN s[p + 3] ELSE 0
<1>1. b \in Byte /\ c \in Byte
  <2>1. (p + 1 < n => p + 2 \in 1..n) /\ (p + 2 < n => p + 3 \in 1..n) /\ 0 \in Byte
    BY SMT, <1>0 DEF Byte
  <2> QED
    BY <1>0, <2>1, Zenon
<1>2. /\ p + 0 < n /\ p + 0 + 1 = p + 1 /\ p + 1 + 1 = p + 2 /\ p + 2 + 1 = p + 3
  BY SMT, <1>0
<1>3. EncodeGroup(s, p, url) =
        <<Char(s[p + 1] \div 4, url),
          Char((s[p + 1] % 4) * 16 + b \div 16, url),
          IF p + 1 < n THEN Char((b % 16) * 4 + c \div 64, url) ELSE Trailing(url),
          IF p + 2 < n THEN Char(c % 64, url) ELSE Trailing(url)>>
  BY SMT, <1>0, <1>2 DEF EncodeGroup
<1> HIDE DEF b, c
<1>4. GroupIs(EncodeGroup(s, p, url)[1], EncodeGroup(s, p, url)[2],
              EncodeGroup(s, p, url)[3], EncodeGroup(s, p, url)[4],
              s[p + 1], b, c, p, n, url)
  BY SMT, <1>3 DEF GroupIs
<1>5. (p + 1 < n => b = s[p + 2]) /\ (p + 2 < n => c = s[p + 3])
  BY DEF b, c
<1>6. s[p + 1] \in Byte
  <2>1. p + 1 \in 1..n
    BY SMT, <1>0
  <2> QED
    BY <1>0, <2>1, Zenon
<1>7. GroupOf(s, p, n, url, s[p + 1], b, c)
  BY <1>1, <1>4, <1>5, <1>6, Zenon DEF GroupOf
<1> QED
  BY <1>7, Zenon DEF HasGroup

GroupEnd(p, n) == IF p + 3 <= n THEN p + 3 ELSE n

\* The characters of t behind pos are those of the group behind the first p bytes.
CodedAt(t, pos, s, p, n, m, url) ==
    /\ s \in Seq(Byte) /\ BytesBehind(s, p, n, url) /\ pos \in Nat /\ m = GroupEnd(p, n)
    /\ \A k \in 1..4 : t[pos + k] = EncodeGroup(s, p, url)[k]

LEMMA GroupReturns ==
    ASSUME NEW t, NEW pos, NEW s, NEW p, NEW n, NEW m, NEW url, CodedAt(t, pos, s, p, n, m, url)
    PROVE  DecodeGroup(t, pos) = Piece(s, p, m)
<1>0. /\ s \in Seq(Byte) /\ BytesBehind(s, p, n, url) /\ pos \in Nat
      /\ \A k \in 1..4 : t[pos + k] = EncodeGroup(s, p, url)[k]
  BY Zenon DEF CodedAt
<1>1. n \in Nat /\ n = Len(s) /\ p \in Nat /\ p < n /\ url \in BOOLEAN /\ s \in Seq(Nat)
  BY <1>0, BytesAreNumbers, Zenon DEF BytesBehind
<1>2. HasGroup(s, p, n, url)
  BY SMT, <1>0, GroupEncoded
<1>3. PICK a, b, c : GroupOf(s, p, n, url, a, b, c)
  BY <1>2, Zenon DEF HasGroup
<1>b. /\ a \in Byte /\ b \in Byte /\ c \in Byte /\ a = s[p + 1]
      /\ p + 1 < n => b = s[p + 2]
      /\ p + 2 < n => c = s[p + 3]
  BY <1>3, Zenon DEF GroupOf
<1>4. GroupAt(t, pos, a, b, c, p, n, url)
  <2>1. 1 \in 1..4 /\ 2 \in 1..4 /\ 3 \in 1..4 /\ 4 \in 1..4
    BY SMT
  <2>2. /\ t[pos + 1] = EncodeGroup(s, p, url)[1] /\ t[pos + 2] = EncodeGroup(s, p, url)[2]
        /\ t[pos + 3] = EncodeGroup(s, p, url)[3] /\ t[pos + 4] = EncodeGroup(s, p, url)[4]
    BY <1>0, <2>1, Zenon
  <2>3. GroupIs(EncodeGroup(s, p, url)[1], EncodeGroup(s, p, url)[2],
                EncodeGroup(s, p, url)[3], EncodeGroup(s, p, url)[4], a, b, c, p, n, url)
    BY <1>3, Zenon DEF GroupOf
  <2> QED
    BY <1>0, <1>1, <1>b, <2>2, <2>3, Zenon DEF GroupAt
<1>5. m \in Nat /\ m = (IF p + 3 <= n THEN p + 3 ELSE n) /\ p <= m /\ m <= n
  <2>1. m = GroupEnd(p, n)
    BY Zenon DEF CodedAt
  <2> QED
    BY SMT, <1>1, <2>1 DEF GroupEnd
<1>6. /\ Piece(s, p, m) \in Seq(Nat) /\ Len(Piece(s, p, m)) = m - p
      /\ \A i \in 1..(m - p) : Piece(s, p, m)[i] = s[p + i]
  <2>1. IsPiece(s, p, m)
    BY <1>1, <1>5 DEF IsPiece
  <2> QED
    BY SMT, <2>1, PieceIs
<1>7. PICK d : d = IF p + 2 < n THEN <<a, b, c>> ELSE IF p + 1 < n THEN <<a, b>> ELSE <<a>>
  OBVIOUS
<1>8. DecodeGroup(t, pos) = d
  <2>1. DecodeGroup(t, pos) = GroupBytes(a, b, c, p, n)
    BY SMT, <1>4, GroupDecoded
  <2> QED
    BY <1>7, <2>1, Zenon DEF GroupBytes
<1>9. d \in Seq(Nat) /\ Len(d) = m - p /\ \A i \in 1..(m - p) : d[i] = s[p + i]
  <2>0. a \in Nat /\ b \in Nat /\ c \in Nat
    BY SMT, <1>b DEF Byte
  <2>1. CASE p + 2 < n
    <3>1. d = <<a, b, c>> /\ m = p + 3 /\ m - p = 3
      BY SMT, <1>1, <1>5, <1>7, <2>1
    <3>2. d[1] = s[p + 1] /\ d[2] = s[p + 2] /\ d[3] = s[p + 3]
      BY SMT, <1>1, <1>b, <2>1, <3>1
    <3>3. <<a, b, c>> \in Seq(Nat) /\ Len(<<a, b, c>>) = 3
      BY SMT, <2>0
    <3>4. \A i \in 1..3 : i = 1 \/ i = 2 \/ i = 3
      BY SMT
    <3> QED
      BY <3>1, <3>2, <3>3, <3>4, Zenon
  <2>2. CASE p + 2 = n
    <3>1. d = <<a, b>> /\ m - p = 2
      BY SMT, <1>1, <1>5, <1>7, <2>2
    <3>2. d[1] = s[p + 1] /\ d[2] = s[p + 2]
      BY SMT, <1>1, <1>b, <2>2, <3>1
    <3>3. <<a, b>> \in Seq(Nat) /\ Len(<<a, b>>) = 2
      BY SMT, <2>0
    <3>4. \A i \in 1..2 : i = 1 \/ i = 2
      BY SMT
    <3> QED
      BY <3>1, <3>2, <3>3, <3>4, Zenon
  <2>3. CASE p + 1 = n
    <3>1. d = <<a>> /\ m - p = 1
      BY SMT, <1>1, <1>5, <1>7, <2>3
    <3>2. d[1] = s[p + 1]
      BY SMT, <1>b, <3>1
    <3>3. <<a>> \in Seq(Nat) /\ Len(<<a>>) = 1
      BY SMT, <2>0
    <3>4. \A i \in 1..1 : i = 1
      BY SMT
    <3> QED
      BY <3>1, <3>2, <3>3, <3>4, Zenon
  <2>4. p + 2 < n \/ p + 2 = n \/ p + 1 = n
    BY SMT, <1>1
  <2> QED
    BY <2>1, <2>2, <2>3, <2>4, Zenon
<1>10. \A i \in 1..Len(d) : d[i] = Piece(s, p, m)[i]
  BY <1>6, <1>9, Zenon
<1>11. d = Piece(s, p, m)
  <2>1. d \in Seq(Nat) /\ Piece(s, p, m) \in Seq(Nat) /\ Len(d) = Len(Piece(s, p, m))
    BY <1>6, <1>9, Zenon
  <2> QED
    BY <1>10, <2>1, SeqEqual, Zenon
<1> QED
  BY <1>8, <1>11, Zenon

\* What an encoding is made of
Alphabet(url) ==
    {c \in Nat : /\ c # Newline
                 /\ url => c \notin {62, 63, Equal}
                 /\ ~url => c \notin {Dash, Underscore, Dot}}

LEMMA GroupChars ==
    ASSUME NEW s, NEW p, NEW n, NEW url, BytesBehind(s, p, n, url), NEW k \in 1..4
    PROVE  EncodeGroup(s, p, url)[k] \in Alphabet(url)
<1>1. HasGroup(s, p, n, url)
  BY SMT, GroupEncoded
<1>2. PICK a, b, c : GroupOf(s, p, n, url, a, b, c)
  BY <1>1, Zenon DEF HasGroup
<1>3. a \in Byte /\ b \in Byte /\ c \in Byte /\ url \in BOOLEAN
  BY <1>2, Zenon DEF GroupOf, BytesBehind
<1>4. PICK v1 \in Nat, v2 \in Nat, v3 \in Nat, v4 \in Nat :
         /\ v1 = a \div 4 /\ v2 = (a % 4) * 16 + b \div 16
         /\ v3 = (b % 16) * 4 + c \div 64 /\ v4 = c % 64
         /\ v1 <= 63 /\ v2 <= 63 /\ v3 <= 63 /\ v4 <= 63
  BY SMT, <1>3 DEF Byte
<1>5. \A v \in Nat : v <= 63 => Char(v, url) \in Alphabet(url)
  BY SMT, <1>3, CharReturns DEF Alphabet
<1>6. Trailing(url) \in Alphabet(url)
  BY SMT, <1>3, TrailingIs DEF Alphabet
<1>7. /\ EncodeGroup(s, p, url)[1] = Char(v1, url)
      /\ EncodeGroup(s, p, url)[2] = Char(v2, url)
      /\ EncodeGroup(s, p, url)[3] = IF p + 1 < n THEN Char(v3, url) ELSE Trailing(url)
      /\ EncodeGroup(s, p, url)[4] = IF p + 2 < n THEN Char(v4, url) ELSE Trailing(url)
  BY <1>2, <1>4, Zenon DEF GroupIs, GroupOf
<1>8. k = 1 \/ k = 2 \/ k = 3 \/ k = 4
  BY SMT
<1> QED
  BY <1>4, <1>5, <1>6, <1>7, <1>8, Zenon

\* t is the encoding of s, in G groups.
InGroups(t, G, s, url) ==
    /\ 3 * G >= Len(s) /\ \A g \in Nat : g < G => 3 * g < Len(s)
    /\ t \in Seq(Alphabet(url)) /\ Len(t) = 4 * G
    /\ \A g \in Nat : g < G => \A k \in 1..4 : t[4 * g + k] = EncodeGroup(s, 3 * g, url)[k]

LEMMA Encoded ==
    ASSUME NEW s \in Seq(Byte), NEW url \in BOOLEAN
    PROVE  \E G \in Nat : InGroups(Encode64(s, url), G, s, url)
<1>0. PICK n \in Nat : n = Len(s)
  BY BytesAreNumbers
<1>1. PICK G \in Nat : G = (n + 2) \div 3
  BY SMT
<1>2. 3 * G >= n /\ \A g \in Nat : g < G => 3 * g < n
  BY SMT, <1>1
<1> DEFINE e == Encode64(s, url)
<1>3. e = [i \in 1..(G * 4) |-> EncodeGroup(s, 3 * ((i - 1) \div 4), url)[((i - 1) % 4) + 1]]
  BY <1>0, <1>1, Zenon DEF Encode64
<1>4. ASSUME NEW i \in 1..(G * 4) PROVE e[i] \in Alphabet(url)
  <2>1. PICK p \in Nat, k \in 1..4 : p = 3 * ((i - 1) \div 4) /\ k = ((i - 1) % 4) + 1 /\ p < n
    BY SMT, <1>1
  <2>2. e[i] = EncodeGroup(s, p, url)[k]
    BY <1>3, <2>1, Zenon
  <2> HIDE DEF e
  <2> QED
    <3>1. BytesBehind(s, p, n, url)
      BY <1>0, <2>1, BytesAreNumbers, Zenon DEF BytesBehind
    <3> QED
      BY SMT, <2>1, <2>2, <3>1, GroupChars
<1>5. ASSUME NEW g \in Nat, g < G, NEW k \in 1..4
      PROVE  e[4 * g + k] = EncodeGroup(s, 3 * g, url)[k]
  <2>1. PICK i \in 1..(G * 4) : i = 4 * g + k
    BY SMT, <1>5
  <2>2. 3 * ((i - 1) \div 4) = 3 * g /\ ((i - 1) % 4) + 1 = k
    BY SMT, <2>1
  <2>3. e[i] = EncodeGroup(s, 3 * ((i - 1) \div 4), url)[((i - 1) % 4) + 1]
    BY <1>3, Zenon
  <2> HIDE DEF e
  <2> QED
    BY <2>1, <2>2, <2>3, Zenon
<1>6. G * 4 \in Nat /\ G * 4 = 4 * G
  BY SMT
<1>7. e \in [1..(G * 4) -> Alphabet(url)]
  BY <1>3, <1>4, Zenon
<1> HIDE DEF e
<1>8. e \in Seq(Alphabet(url)) /\ Len(e) = 4 * G
  BY <1>6, <1>7, SequenceFrom, Zenon
<1> QED
  BY <1>0, <1>2, <1>5, <1>8, Zenon DEF e, InGroups

-----------------------------------------------------------------------------
\* Two recursions that agree at 0 and in every turn
LEMMA SameThroughout ==
    ASSUME NEW n \in Nat, NEW f, NEW w, f[0] = w[0],
           \A j \in Nat : j < n /\ f[j] = w[j] => f[j + 1] = w[j + 1]
    PROVE  f[n] = w[n]
<1> DEFINE Same == {j \in Nat : j <= n => f[j] = w[j]}
<1>1. 0 \in Same
  OBVIOUS
<1>2. ASSUME NEW j \in Nat, j \in Same PROVE j + 1 \in Same
  <2>1. j + 1 <= n => j < n /\ j <= n
    BY SMT
  <2>2. j + 1 \in Nat
    BY SMT
  <2> QED
    BY <1>2, <2>1, <2>2, Zenon
<1>3. Nat \subseteq Same
  <2> HIDE DEF Same
  <2> QED
    BY <1>1, <1>2, Induction, Zenon
<1>4. n <= n
  BY SMT
<1> QED
  BY <1>3, <1>4, Zenon

LEMMA WholePiece ==
    ASSUME NEW a \in Seq(Nat)
    PROVE  Piece(a, 0, Len(a)) = a /\ Piece(a, 0, 0) = <<>>
<1>1. PICK n \in Nat : n = Len(a) /\ n <= Len(a) /\ 0 <= n /\ n - 0 = n
  BY SMT, LenProperties
<1>2. /\ Piece(a, 0, n) \in Seq(Nat) /\ Len(Piece(a, 0, n)) = n
      /\ \A i \in 1..n : Piece(a, 0, n)[i] = a[0 + i]
  <2>1. /\ Piece(a, 0, n) \in Seq(Nat) /\ Len(Piece(a, 0, n)) = n - 0
        /\ \A i \in 1..(n - 0) : Piece(a, 0, n)[i] = a[0 + i]
    BY <1>1, PieceProperties, ZenonT(30)
  <2> QED
    BY <1>1, <2>1, Zenon
<1>3. \A i \in 1..n : Piece(a, 0, n)[i] = a[i]
  BY SMT, <1>2
<1>4. Piece(a, 0, n) = a
  BY <1>1, <1>2, <1>3, SeqEqual, Zenon
<1>5. Piece(a, 0, 0) = <<>>
  BY SubSeqEmpty DEF Piece
<1> QED
  BY <1>1, <1>4, <1>5

DecodeTurn(t, f, j) == IF j = 0 THEN <<>> ELSE f[j - 1] \o DecodeGroup(t, 4 * (j - 1))

LEMMA DecodeReturns ==
    ASSUME NEW s \in Seq(Byte), NEW url \in BOOLEAN
    PROVE  Decode64(Encode64(s, url)) = s
<1>1. PICK n \in Nat : n = Len(s)
  BY LenProperties
<1>3. PICK t : t = Encode64(s, url)
  OBVIOUS
<1>a. PICK G \in Nat : InGroups(t, G, s, url)
  BY <1>3, Encoded, Zenon
<1>2. /\ 3 * G >= n /\ \A g \in Nat : g < G => 3 * g < n
      /\ Len(t) = 4 * G
      /\ \A g \in Nat : g < G => \A k \in 1..4 : t[4 * g + k] = EncodeGroup(s, 3 * g, url)[k]
  BY <1>1, <1>a, Zenon DEF InGroups
<1>4. Len(t) \div 4 = G
  BY SMT, <1>2
<1>5. s \in Seq(Nat)
  BY BytesAreNumbers
<1> DEFINE Cut(j) == IF 3 * j <= n THEN 3 * j ELSE n
           w == [j \in 0..G |-> Piece(s, 0, Cut(j))]
\* A turn goes from one prefix to the next.
<1>6. ASSUME NEW j \in Nat, j < G
      PROVE  Piece(s, 0, Cut(j)) \o DecodeGroup(t, 4 * j) = Piece(s, 0, Cut(j + 1))
  <2>1. PICK p \in Nat, m \in Nat, q \in Nat :
           /\ p = 3 * j /\ q = 4 * j /\ p < n /\ p = Cut(j)
           /\ m = Cut(j + 1) /\ m = GroupEnd(p, n) /\ p <= m /\ m <= n /\ 0 <= p
    BY SMT, <1>2, <1>6 DEF GroupEnd
  <2> HIDE DEF Cut
  <2>2. \A k \in 1..4 : t[q + k] = EncodeGroup(s, p, url)[k]
    BY <1>2, <1>3, <1>6, <2>1, Zenon
  <2>3. DecodeGroup(t, q) = Piece(s, p, m)
    <3>1. BytesBehind(s, p, n, url)
      BY <1>1, <2>1, BytesAreNumbers, Zenon DEF BytesBehind
    <3>2. CodedAt(t, q, s, p, n, m, url)
      BY <2>1, <2>2, <3>1, Zenon DEF CodedAt
    <3> QED
      BY SMT, <3>2, GroupReturns
  <2>4. Piece(s, 0, p) \o Piece(s, p, m) = Piece(s, 0, m)
    <3>1. IsPiece(s, 0, p) /\ IsPiece(s, p, m)
      BY SMT, <1>1, <1>5, <2>1 DEF IsPiece
    <3> QED
      BY SMT, <3>1, PiecesFollow
  <2> QED
    BY <2>1, <2>3, <2>4, Zenon
<1>7. Piece(s, 0, Cut(0)) = <<>> /\ Piece(s, 0, Cut(G)) = s
  <2>1. Cut(0) = 0 /\ Cut(G) = n
    BY SMT, <1>2
  <2> HIDE DEF Cut
  <2> QED
    BY <1>1, <1>5, <2>1, WholePiece, Zenon
<1> HIDE DEF Cut
<1>8. w = [j \in 0..G |-> DecodeTurn(t, w, j)]
  <2>1. ASSUME NEW j \in 0..G PROVE w[j] = DecodeTurn(t, w, j)
    <3>1. CASE j = 0
      BY <1>7, <3>1 DEF DecodeTurn
    <3>2. CASE j # 0
      <4>1. PICK i \in Nat : i = j - 1 /\ i < G /\ i \in 0..G /\ j = i + 1
        BY SMT, <3>2
      <4>2. w[i] = Piece(s, 0, Cut(i)) /\ w[j] = Piece(s, 0, Cut(j))
        BY <4>1, Zenon
      <4> HIDE DEF w
      <4>3. DecodeTurn(t, w, j) = w[i] \o DecodeGroup(t, 4 * i)
        BY <3>2, <4>1, Zenon DEF DecodeTurn
      <4> QED
        BY <1>6, <4>1, <4>2, <4>3, Zenon
    <3> QED
      BY <3>1, <3>2
  <2> QED
    BY <2>1, Zenon
<1>9. w[0] = <<>> /\ w[G] = s
  BY SMT, <1>7
<1>10. \A j \in Nat : j < G => w[j + 1] = w[j] \o DecodeGroup(t, 4 * j)
  <2> SUFFICES ASSUME NEW j \in Nat, j < G PROVE w[j + 1] = w[j] \o DecodeGroup(t, 4 * j)
    OBVIOUS
  <2>1. j \in 0..G /\ j + 1 \in 0..G
    BY SMT
  <2> QED
    BY <1>6, <2>1, Zenon
<1> HIDE DEF w
<1> DEFINE f == CHOOSE h : h = [j \in 0..G |-> DecodeTurn(t, h, j)]
<1>11. f = [j \in 0..G |-> DecodeTurn(t, f, j)]
  BY <1>8, Zenon
<1>12. Decode64(t) = f[G]
  BY <1>4, Zenon DEF Decode64, DecodeTurn
<1> HIDE DEF f
<1>13. f[0] = <<>> /\ \A j \in Nat : j < G => f[j + 1] = f[j] \o DecodeGroup(t, 4 * j)
  <2>1. 0 \in 0..G
    BY SMT
  <2>2. f[0] = <<>>
    BY <1>11, <2>1 DEF DecodeTurn
  <2>3. ASSUME NEW j \in Nat, j < G PROVE f[j + 1] = f[j] \o DecodeGroup(t, 4 * j)
    <3>1. j + 1 \in 0..G /\ j + 1 # 0 /\ (j + 1) - 1 = j
      BY SMT, <2>3
    <3>2. f[j + 1] = DecodeTurn(t, f, j + 1)
      BY <1>11, <3>1, Zenon
    <3> QED
      BY <3>1, <3>2, Zenon DEF DecodeTurn
  <2> QED
    BY <2>2, <2>3, Zenon
<1>14. f[G] = w[G]
  <2>1. f[0] = w[0] /\ \A j \in Nat : j < G /\ f[j] = w[j] => f[j + 1] = w[j + 1]
    BY <1>9, <1>10, <1>13, Zenon
  <2> QED
    BY <2>1, SameThroughout, Zenon
<1> QED
  BY <1>3, <1>9, <1>12, <1>14

-----------------------------------------------------------------------------
(* Line breaks: among the first i characters of the broken text are Kept(i) *)
(* of the text.                                                             *)

LEMMA ProductsOrdered ==
    ASSUME NEW d \in Nat, NEW a \in Int, NEW b \in Int, a <= b
    PROVE  d * a <= d * b
  OBVIOUS

\* The quotient q and the remainder r of a by d
Divided(a, d, q, r) ==
    /\ a \in Int /\ d \in Nat /\ d > 0 /\ q \in Int /\ r \in Nat
    /\ r < d /\ a = d * q + r

Divisible(a, d) == a \in Int /\ d \in Nat /\ d > 0

LEMMA Division ==
    ASSUME NEW a, NEW d, Divisible(a, d)
    PROVE  Divided(a, d, a \div d, a % d)
  BY SMT DEF Divisible, Divided

LEMMA QuotientUnique ==
    ASSUME NEW a, NEW d, NEW q, NEW r, NEW p, NEW s, Divided(a, d, q, r), Divided(a, d, p, s)
    PROVE  q = p /\ r = s
<1>1. /\ a \in Int /\ d \in Nat /\ d > 0 /\ q \in Int /\ r \in Nat /\ p \in Int /\ s \in Nat
      /\ r < d /\ a = d * q + r /\ s < d /\ a = d * p + s
  BY DEF Divided
<1>2. CASE p < q
  <2>1. d * (p + 1) <= d * q
    BY <1>1, <1>2, ProductsOrdered
  <2>2. d * (p + 1) = d * p + d
    BY <1>1
  <2> QED
    BY <1>1, <2>1, <2>2
<1>3. CASE q < p
  <2>1. d * (q + 1) <= d * p
    BY <1>1, <1>3, ProductsOrdered
  <2>2. d * (q + 1) = d * q + d
    BY <1>1
  <2> QED
    BY <1>1, <2>1, <2>2
<1>4. CASE q = p
  <2>1. PICK z \in Int : z = d * q
    BY <1>1
  <2> QED
    BY SMT, <1>1, <1>4, <2>1
<1> QED
  BY <1>1, <1>2, <1>3, <1>4

LEMMA Quotient ==
    ASSUME NEW a, NEW d, NEW q, NEW r, Divided(a, d, q, r)
    PROVE  a \div d = q /\ a % d = r
<1>1. Divided(a, d, a \div d, a % d)
  BY SMT, Division DEF Divided, Divisible
<1> QED
  BY SMT, <1>1, QuotientUnique


Kept(i, L) == i - i \div (L + 1)

Place(i, L) == i \in Nat /\ L \in Nat /\ L > 0

LEMMA KeptStep ==
    ASSUME NEW i, NEW L, Place(i, L)
    PROVE  /\ Kept(0, L) = 0 /\ Kept(i, L) \in Nat
           /\ (i + 1) % (L + 1) = 0 => Kept(i + 1, L) = Kept(i, L)
           /\ (i + 1) % (L + 1) # 0 => Kept(i + 1, L) = Kept(i, L) + 1
<1>0. i \in Nat /\ L \in Nat /\ L > 0
  BY DEF Place
<1>1. PICK K \in Nat, j \in Nat : K = L + 1 /\ K > 1 /\ j = i + 1
  BY SMT, <1>0
<1>2. PICK u, s : u = i \div K /\ Divided(i, K, u, s)
  <2>1. Divisible(i, K)
    BY SMT, <1>0, <1>1 DEF Divisible
  <2> QED
    BY <2>1, Division, Zenon
<1>3. u \in Int /\ s \in Nat /\ s < K /\ i = K * u + s
  BY <1>2 DEF Divided
<1>4. 0 \div K = 0
  <2>1. Divided(0, K, 0, 0)
    BY SMT, <1>1 DEF Divided
  <2> QED
    BY SMT, <2>1, Quotient
<1>5. PICK z \in Int : z = K * u /\ K * (u + 1) = z + K
  BY SMT, <1>3
<1>10. Kept(i, L) \in Nat
  <2>1. CASE u <= 0
    BY SMT, <1>0, <1>1, <1>2, <1>3, <2>1 DEF Kept
  <2>2. CASE u > 0
    <3>1. u * 1 <= u * K
      BY SMT, <1>1, <1>3, <2>2, ProductsOrdered
    <3>2. u * 1 = u /\ u * K = z
      BY SMT, <1>1, <1>3, <1>5
    <3> QED
      BY SMT, <1>0, <1>1, <1>2, <1>3, <1>5, <3>1, <3>2 DEF Kept
  <2> QED
    BY SMT, <1>3, <2>1, <2>2
<1>6. CASE s + 1 = K
  <2>1. Divided(j, K, u + 1, 0)
    BY SMT, <1>0, <1>1, <1>3, <1>5, <1>6 DEF Divided
  <2>2. j \div K = u + 1 /\ j % K = 0
    BY SMT, <2>1, Quotient
  <2> QED
    BY SMT, <1>0, <1>1, <1>2, <1>3, <2>2, <1>10, <1>4 DEF Kept
<1>7. CASE s + 1 < K
  <2>1. Divided(j, K, u, s + 1)
    BY SMT, <1>0, <1>1, <1>3, <1>5, <1>7 DEF Divided
  <2>2. j \div K = u /\ j % K = s + 1
    BY SMT, <2>1, Quotient
  <2> QED
    BY SMT, <1>0, <1>1, <1>2, <1>3, <2>2, <1>10, <1>4 DEF Kept
<1> QED
  BY SMT, <1>1, <1>3, <1>6, <1>7

\* The text has m characters and b breaks.
Layout(L, m, b, N) ==
    /\ L \in Nat /\ L > 0 /\ m \in Nat /\ m > 0
    /\ b = (m - 1) \div L /\ N = m + b

LEMMA LayoutEnds ==
    ASSUME NEW L, NEW m, NEW b, NEW N, Layout(L, m, b, N)
    PROVE  b \in Nat /\ N \in Nat /\ Kept(N, L) = m /\ N % (L + 1) # 0
<1>0. /\ L \in Nat /\ L > 0 /\ m \in Nat /\ m > 0
      /\ b = (m - 1) \div L /\ N = m + b
  BY SMT DEF Layout
<1>1. PICK r : Divided(m - 1, L, b, r)
  <2>1. Divisible(m - 1, L)
    BY SMT, <1>0 DEF Divisible
  <2> QED
    BY <1>0, <2>1, Division, Zenon
<1>2. b \in Int /\ r \in Nat /\ r < L /\ m - 1 = L * b + r
  BY <1>1 DEF Divided
<1>3. PICK z \in Int : z = L * b /\ (L + 1) * b = z + b
  BY SMT, <1>0, <1>2
<1>4. b >= 0
  <2>1. CASE b < 0
    <3>1. L * b <= L * (-1)
      BY SMT, <1>0, <1>2, <2>1, ProductsOrdered
    <3>2. L * (-1) = -L
      BY SMT, <1>0
    <3> QED
      BY SMT, <1>0, <1>2, <1>3, <3>1, <3>2
  <2> QED
    BY SMT, <1>2, <2>1
<1>5. Divided(N, L + 1, b, r + 1)
  BY SMT, <1>0, <1>2, <1>3, <1>4 DEF Divided
<1>6. N \div (L + 1) = b /\ N % (L + 1) = r + 1
  BY SMT, <1>5, Quotient
<1> QED
  BY SMT, <1>0, <1>2, <1>4, <1>6 DEF Kept

\* No more characters than the text has
LEMMA KeptBounded ==
    ASSUME NEW L \in Nat, L > 0, NEW N \in Nat
    PROVE  \A i \in Nat : i <= N => Kept(i, L) <= Kept(N, L)
<1> DEFINE Up == {d \in Nat : d <= N => Kept(N - d, L) <= Kept(N, L)}
<1>1. \A i \in Nat : Kept(i, L) \in Nat
  BY SMT, KeptStep DEF Place
<1>2. 0 \in Up
  <2>1. N - 0 = N
    BY SMT
  <2> QED
    BY SMT, <1>1, <2>1
<1>3. ASSUME NEW d \in Nat, d \in Up PROVE d + 1 \in Up
  <2> SUFFICES ASSUME d + 1 <= N PROVE Kept(N - (d + 1), L) <= Kept(N, L)
    BY SMT
  <2>1. PICK i \in Nat : i = N - (d + 1) /\ i + 1 = N - d /\ d <= N
    BY SMT
  <2>2. Kept(i + 1, L) <= Kept(N, L)
    BY <1>3, <2>1
  <2>3. Kept(i, L) <= Kept(i + 1, L)
    <3>1. Place(i, L)
      BY DEF Place
    <3> QED
      BY SMT, <1>1, <3>1, KeptStep
  <2>4. i + 1 \in Nat
    BY SMT
  <2>5. Kept(i, L) <= Kept(N, L)
    BY SMT, <1>1, <2>2, <2>3, <2>4
  <2> QED
    BY <2>1, <2>5
<1>4. Nat \subseteq Up
  <2> HIDE DEF Up
  <2> QED
    BY <1>2, <1>3, Induction, Zenon
<1> QED
  <2> SUFFICES ASSUME NEW i \in Nat, i <= N PROVE Kept(i, L) <= Kept(N, L)
    OBVIOUS
  <2>1. PICK d \in Nat : d = N - i /\ d <= N /\ N - d = i
    BY SMT
  <2> QED
    BY <1>4, <2>1, Zenon

\* lines has N characters: those of the text and a break at each multiple of L + 1.
Broken(lines, text, L, N) ==
    /\ text \in Seq(Nat) /\ L \in Nat /\ L > 0 /\ N \in Nat
    /\ Len(lines) = N /\ (N = 0 => lines = <<>>) /\ Kept(N, L) = Len(text)
    /\ N # 0 => N % (L + 1) # 0
    /\ \A i \in 1..N : i % (L + 1) = 0 => lines[i] = Newline
    /\ \A i \in 1..N : i % (L + 1) # 0 => lines[i] = text[Kept(i, L)]
    /\ \A i \in 1..Len(text) : text[i] # Newline

Text(text, L) ==
    text \in Seq(Nat) /\ L \in Nat /\ L > 0 /\ \A i \in 1..Len(text) : text[i] # Newline

LEMMA LinesAre ==
    ASSUME NEW text, NEW L, Text(text, L)
    PROVE  \E N \in Nat : Broken(InsertLinebreaks(text, L), text, L, N)
<1>0. text \in Seq(Nat) /\ L \in Nat /\ L > 0 /\ \A i \in 1..Len(text) : text[i] # Newline
  BY DEF Text
<1>1. PICK m \in Nat : m = Len(text) /\ (m = 0 <=> text = <<>>)
  BY <1>0, LenProperties, EmptySeq
<1> DEFINE b == IF text = <<>> THEN 0 ELSE (Len(text) - 1) \div L
           N == Len(text) + b
<1>2. b \in Nat /\ N \in Nat /\ Kept(N, L) = m /\ (N # 0 => N % (L + 1) # 0)
  <2>1. CASE text = <<>>
    <3>1. N = 0
      BY SMT, <1>1, <2>1
    <3>2. Place(0, L)
      BY <1>0 DEF Place
    <3>3. Kept(0, L) = 0
      BY SMT, <3>2, KeptStep
    <3> QED
      BY <1>1, <2>1, <3>1, <3>3
  <2>2. CASE text # <<>>
    <3>1. Layout(L, m, b, N)
      BY SMT, <1>0, <1>1, <2>2 DEF Layout
    <3> HIDE DEF b, N
    <3> QED
      BY SMT, <3>1, LayoutEnds
  <2> QED
    BY <2>1, <2>2
<1> DEFINE lines == InsertLinebreaks(text, L)
<1>3. lines = [i \in 1..N |-> IF i % (L + 1) = 0 THEN Newline ELSE text[i - i \div (L + 1)]]
  BY Zenon DEF InsertLinebreaks
<1> HIDE DEF b, N, lines
<1>4. Len(lines) = N
  BY SMT, <1>2, <1>3
<1>7. N = 0 => lines = <<>>
  <2> SUFFICES ASSUME N = 0 PROVE lines = <<>>
    OBVIOUS
  <2>1. 1..N = {}
    BY SMT
  <2>2. lines \in [1..N -> Nat]
    BY <1>3, <2>1, Zenon
  <2>3. lines \in Seq(Nat)
    BY <1>2, <2>2, SequenceFrom, Zenon
  <2> QED
    BY <1>4, <2>3, EmptySeq
<1>5. /\ \A i \in 1..N : i % (L + 1) = 0 => lines[i] = Newline
      /\ \A i \in 1..N : i % (L + 1) # 0 => lines[i] = text[Kept(i, L)]
  BY <1>3, Zenon DEF Kept
<1>6. Broken(lines, text, L, N)
  BY <1>0, <1>1, <1>2, <1>4, <1>5, <1>7, Zenon DEF Broken
<1> QED
  BY <1>2, <1>6, Zenon DEF lines

LEMMA OneMore ==
    ASSUME NEW a, NEW k, a \in Seq(Nat), k \in Nat, k < Len(a)
    PROVE  Append(Piece(a, 0, k), a[k + 1]) = Piece(a, 0, k + 1)
<1>1. PICK n \in Nat : n = k + 1 /\ n <= Len(a) /\ k <= n /\ n - k = 1 /\ 0 <= k
  BY SMT, LenProperties
<1>2. IsPiece(a, 0, k) /\ IsPiece(a, k, n)
  BY SMT, <1>1 DEF IsPiece
<1>3. Piece(a, 0, k) \o Piece(a, k, n) = Piece(a, 0, n)
  BY SMT, <1>2, PiecesFollow
<1>4. PICK p, q : p = Piece(a, 0, k) /\ q = Piece(a, k, n)
  OBVIOUS
<1>5. p \in Seq(Nat) /\ q \in Seq(Nat) /\ Len(q) = 1 /\ q[1] = a[k + 1]
  <2>1. p \in Seq(Nat)
    BY SMT, <1>2, <1>4, PieceIs
  <2>2. /\ q \in Seq(Nat) /\ Len(q) = n - k
        /\ \A i \in 1..(n - k) : q[i] = a[k + i]
    <3>1. /\ Piece(a, k, n) \in Seq(Nat) /\ Len(Piece(a, k, n)) = n - k
          /\ \A i \in 1..(n - k) : Piece(a, k, n)[i] = a[k + i]
      BY <1>1, PieceProperties, Zenon
    <3> QED
      BY <1>4, <3>1, Zenon
  <2>3. 1 \in 1..(n - k)
    BY SMT, <1>1
  <2> QED
    BY <1>1, <2>1, <2>2, <2>3, Zenon
<1>6. p \o q = Append(p, q[1])
  <2>1. PICK e \in Nat : e = q[1]
    BY SMT, <1>5
  <2>2. q = <<e>>
    <3>1. <<e>> \in Seq(Nat) /\ Len(<<e>>) = 1 /\ <<e>>[1] = e
      BY SMT, <2>1
    <3>2. \A i \in 1..1 : q[i] = <<e>>[i]
      <4>1. \A i \in 1..1 : i = 1
        BY SMT
      <4> QED
        BY <2>1, <3>1, <4>1, Zenon
    <3> QED
      BY <1>5, <3>1, <3>2, SeqEqual, Zenon
  <2> QED
    BY <1>5, <2>1, <2>2, AppendIsConcat
<1> QED
  BY <1>1, <1>3, <1>4, <1>5, <1>6, Zenon

BreakTurn(lines, f, j) ==
    IF j = 0 THEN <<>>
    ELSE IF lines[j] = Newline THEN f[j - 1] ELSE Append(f[j - 1], lines[j])

LEMMA BreaksErased ==
    ASSUME NEW lines, NEW text, NEW L, NEW N, Broken(lines, text, L, N)
    PROVE  EraseLinebreaks(lines) = text
<1>1. /\ text \in Seq(Nat) /\ L \in Nat /\ L > 0 /\ N \in Nat
      /\ Len(lines) = N /\ Kept(N, L) = Len(text)
      /\ \A i \in 1..N : i % (L + 1) = 0 => lines[i] = Newline
      /\ \A i \in 1..N : i % (L + 1) # 0 => lines[i] = text[Kept(i, L)]
      /\ \A i \in 1..Len(text) : text[i] # Newline
  BY DEF Broken
<1> DEFINE w == [i \in 0..N |-> Piece(text, 0, Kept(i, L))]
\* A turn goes from one prefix of the text to the next.
<1>2. ASSUME NEW i \in Nat, i < N
      PROVE  (IF lines[i + 1] = Newline THEN Piece(text, 0, Kept(i, L))
              ELSE Append(Piece(text, 0, Kept(i, L)), lines[i + 1])) = Piece(text, 0, Kept(i + 1, L))
  <2>1. PICK j \in Nat : j = i + 1 /\ j \in 1..N /\ j <= N
    BY SMT, <1>1, <1>2
  <2>2. Place(i, L) /\ Place(j, L)
    BY <1>1 DEF Place
  <2>3. PICK k \in Nat, m \in Nat : k = Kept(i, L) /\ m = Kept(j, L) /\ m <= Len(text)
    BY SMT, <1>1, <2>1, <2>2, KeptStep, KeptBounded
  <2>4. CASE j % (L + 1) = 0
    <3>1. k = m
      BY SMT, <2>1, <2>2, <2>3, <2>4, KeptStep
    <3> QED
      BY <1>1, <2>1, <2>3, <2>4, <3>1, Zenon
  <2>5. CASE j % (L + 1) # 0
    <3>1. m = k + 1 /\ k < Len(text) /\ m \in 1..Len(text)
      <4>1. m = k + 1
        BY SMT, <2>1, <2>2, <2>3, <2>5, KeptStep
      <4>2. Len(text) \in Nat
        BY <1>1, LenProperties
      <4> QED
        BY SMT, <2>3, <4>1, <4>2
    <3>2. lines[j] = text[m] /\ lines[j] # Newline
      BY <1>1, <2>1, <2>3, <2>5, <3>1, Zenon
    <3>3. Append(Piece(text, 0, k), text[k + 1]) = Piece(text, 0, k + 1)
      BY <1>1, <3>1, OneMore, Zenon
    <3> QED
      BY <2>1, <2>3, <3>1, <3>2, <3>3, Zenon
  <2> QED
    BY <2>4, <2>5
<1>3. Piece(text, 0, Kept(0, L)) = <<>> /\ Piece(text, 0, Kept(N, L)) = text
  <2>1. Place(0, L)
    BY <1>1 DEF Place
  <2>2. Kept(0, L) = 0
    BY SMT, <2>1, KeptStep
  <2> QED
    BY <1>1, <2>2, WholePiece, Zenon
<1>4. w = [j \in 0..N |-> BreakTurn(lines, w, j)]
  <2>1. ASSUME NEW j \in 0..N PROVE w[j] = BreakTurn(lines, w, j)
    <3>1. CASE j = 0
      BY <1>3, <3>1 DEF BreakTurn
    <3>2. CASE j # 0
      <4>1. PICK i \in Nat : i = j - 1 /\ i < N /\ i \in 0..N /\ j = i + 1
        BY SMT, <1>1, <3>2
      <4>2. w[i] = Piece(text, 0, Kept(i, L)) /\ w[j] = Piece(text, 0, Kept(j, L))
        BY <4>1, Zenon
      <4> HIDE DEF w
      <4>3. BreakTurn(lines, w, j) = IF lines[j] = Newline THEN w[i] ELSE Append(w[i], lines[j])
        BY <3>2, <4>1, Zenon DEF BreakTurn
      <4> QED
        BY <1>2, <4>1, <4>2, <4>3, Zenon
    <3> QED
      BY <3>1, <3>2
  <2> QED
    BY <2>1, Zenon
<1>5. w[0] = <<>> /\ w[N] = text
  BY SMT, <1>1, <1>3
<1> HIDE DEF w
<1> DEFINE f == CHOOSE h : h = [j \in 0..N |-> BreakTurn(lines, h, j)]
<1>6. f = [j \in 0..N |-> BreakTurn(lines, f, j)]
  BY <1>4, Zenon
<1>7. EraseLinebreaks(lines) = f[N]
  BY <1>1, Zenon DEF EraseLinebreaks, BreakTurn
<1> HIDE DEF f
<1>8. f[0] = w[0]
  <2>1. 0 \in 0..N
    BY SMT, <1>1
  <2> QED
    BY <1>5, <1>6, <2>1 DEF BreakTurn
<1>9. ASSUME NEW j \in Nat, j < N, f[j] = w[j] PROVE f[j + 1] = w[j + 1]
  <2>1. j + 1 \in 0..N /\ j + 1 # 0 /\ (j + 1) - 1 = j
    BY SMT, <1>1, <1>9
  <2>2. f[j + 1] = BreakTurn(lines, f, j + 1) /\ w[j + 1] = BreakTurn(lines, w, j + 1)
    BY <1>4, <1>6, <2>1, Zenon
  <2> QED
    BY <1>9, <2>1, <2>2, Zenon DEF BreakTurn
<1>10. f[N] = w[N]
  BY <1>1, <1>8, <1>9, SameThroughout, Zenon
<1> QED
  BY <1>5, <1>7, <1>10

\* The next break, or the end, is at most L + 1 further and not adjacent.
LineFits(lines, L, N, i) ==
    /\ i + 1 # N + 1 /\ lines[i + 1] # Newline
    /\ \E j \in 1..(L + 1) : i + j <= N + 1 /\ (i + j = N + 1 \/ lines[i + j] = Newline)

LEMMA LinesFit ==
    ASSUME NEW lines, NEW text, NEW L, NEW N, Broken(lines, text, L, N), N # 0,
           NEW i, i \in 0..N, i = 0 \/ lines[i] = Newline
    PROVE  LineFits(lines, L, N, i)
<1> SUFFICES /\ i + 1 # N + 1 /\ lines[i + 1] # Newline
             /\ \E j \in 1..(L + 1) : i + j <= N + 1 /\ (i + j = N + 1 \/ lines[i + j] = Newline)
  BY Zenon DEF LineFits
<1>1. /\ text \in Seq(Nat) /\ L \in Nat /\ L > 0 /\ N \in Nat
      /\ N % (L + 1) # 0 /\ Kept(N, L) = Len(text)
      /\ \A k \in 1..N : k % (L + 1) = 0 => lines[k] = Newline
      /\ \A k \in 1..N : k % (L + 1) # 0 => lines[k] = text[Kept(k, L)]
      /\ \A k \in 1..Len(text) : text[k] # Newline
  BY DEF Broken
\* A break is where it was put.
<1>2. ASSUME NEW k \in 1..N, k % (L + 1) # 0 PROVE lines[k] # Newline
  <2>1. PICK h \in Nat : k = h + 1 /\ k \in Nat /\ k <= N
    BY SMT, <1>1
  <2>2. Place(h, L) /\ Place(k, L)
    BY <1>1, <2>1 DEF Place
  <2>3. Kept(k, L) = Kept(h, L) + 1 /\ Kept(h, L) \in Nat
    BY SMT, <1>2, <2>1, <2>2, KeptStep
  <2>4. Kept(k, L) <= Len(text)
    BY SMT, <1>1, <2>1, KeptBounded
  <2>5. Kept(k, L) \in 1..Len(text)
    BY SMT, <1>1, <2>3, <2>4, LenProperties
  <2> QED
    BY <1>1, <1>2, <2>5, Zenon
<1>3. PICK K \in Nat, n \in Nat : K = L + 1 /\ K > 1 /\ n = i /\ n <= N
  BY SMT, <1>1
<1>4. i % K = 0
  <2>1. CASE i = 0
    <3>1. Divided(0, K, 0, 0)
      BY SMT, <1>3 DEF Divided
    <3> QED
      BY SMT, <2>1, <3>1, Quotient
  <2>2. CASE i # 0
    <3>1. i \in 1..N
      BY SMT, <1>1, <2>2
    <3> QED
      BY <1>2, <1>3, <2>2, <3>1, Zenon
  <2> QED
    BY <2>1, <2>2
<1>5. PICK q : Divided(i, K, q, 0)
  <2>1. Divisible(i, K)
    BY SMT, <1>3 DEF Divisible
  <2> QED
    BY <1>4, <2>1, Division, Zenon
<1>6. PICK z \in Int : q \in Int /\ z = K * q /\ i = z /\ K * (q + 1) = z + K
  BY SMT, <1>3, <1>5 DEF Divided
<1>7. Divided(i + 1, K, q, 1) /\ Divided(i + K, K, q + 1, 0)
  <2>1. /\ i + 1 \in Int /\ i + K \in Int /\ K > 0 /\ q \in Int /\ q + 1 \in Int
        /\ 1 < K /\ 1 \in Nat /\ 0 \in Nat /\ 0 < K
    <3>1. i \in Int /\ q \in Int /\ K \in Nat /\ K > 1
      BY <1>3, <1>6, Zenon
    <3> QED
      BY SMT, <3>1
  <2>2. i + 1 = K * q + 1
    BY <1>6, Zenon
  <2>3. i + K = K * (q + 1) + 0
    BY SMT, <1>3, <1>6
  <2> QED
    BY <2>1, <2>2, <2>3, Zenon DEF Divided
<1>8. (i + 1) % K = 1 /\ (i + K) % K = 0
  BY SMT, <1>7, Quotient
<1>9. i < N
  BY SMT, <1>1, <1>3, <1>4
<1>10. i + 1 \in 1..N
  BY SMT, <1>1, <1>3, <1>9
<1>11. i + 1 # N + 1 /\ lines[i + 1] # Newline
  <2>1. i + 1 # N + 1 /\ (i + 1) % (L + 1) # 0
    BY SMT, <1>1, <1>3, <1>8, <1>9
  <2> QED
    BY <1>2, <1>10, <2>1, Zenon
<1>12. CASE i + K <= N
  <2>1. K \in 1..(L + 1) /\ i + K <= N + 1 /\ i + K \in 1..N
    BY SMT, <1>1, <1>3, <1>12
  <2>2. lines[i + K] = Newline
    BY <1>1, <1>3, <1>8, <2>1, Zenon
  <2> QED
    BY <1>11, <2>1, <2>2, Zenon
<1>13. CASE i + K > N
  <2>1. PICK j \in Nat : j = N + 1 - i
    BY SMT, <1>1, <1>3
  <2>2. j \in 1..(L + 1) /\ i + j = N + 1 /\ i + j <= N + 1
    BY SMT, <1>1, <1>3, <1>13, <2>1
  <2> QED
    BY <1>11, <2>2, Zenon
<1> QED
  BY SMT, <1>1, <1>3, <1>12, <1>13

\* DecodeInvertsEncode: for strings of any length, line lengths and both alphabets
\* decode() gives back what base64_encode() was given, also through line breaks;
\* the inductive invariant is only that plain is a string of bytes.
THEOREM DecodingReturns == Base64Spec => []DecodeInvertsEncode
<1> DEFINE Inv == plain \in Seq(Byte)
<1>1. Base64Init => Inv
  BY DEF Base64Init
<1>2. Inv /\ [AddByte]_plain => Inv'
  <2> SUFFICES ASSUME Inv, [AddByte]_plain PROVE plain' \in Seq(Byte)
    OBVIOUS
  <2>1. CASE AddByte
    <3>1. PICK b \in Bytes : plain' = Append(plain, b)
      BY <2>1 DEF AddByte
    <3>2. b \in Byte
      BY Base64Assumption, <3>1 DEF Byte
    <3> QED
      BY <3>1, <3>2, AppendProperties
  <2>2. CASE UNCHANGED plain
    BY <2>2
  <2> QED
    BY <2>1, <2>2
<1>3. Inv => DecodeInvertsEncode
  <2> SUFFICES ASSUME plain \in Seq(Byte) PROVE DecodeInvertsEncode
    OBVIOUS
  <2> DEFINE text == Encode64(plain, FALSE)
             url == Encode64(plain, TRUE)
             lines == InsertLinebreaks(text, LineLength)
             isBreak(i) == i \in {0, Len(lines) + 1} \/ lines[i] = Newline
  <2>1. /\ Decode64(text) = plain /\ Decode64(url) = plain
        /\ text \in Seq(Alphabet(FALSE)) /\ url \in Seq(Alphabet(TRUE))
    BY DecodeReturns, Encoded, Zenon DEF InGroups
  <2>8. Text(text, LineLength) => \E N \in Nat : Broken(lines, text, LineLength, N)
    BY LinesAre, Zenon
  <2> HIDE DEF text, url, lines
  <2>4. /\ \A i \in DOMAIN text : text[i] \in Alphabet(FALSE)
        /\ \A i \in DOMAIN url : url[i] \in Alphabet(TRUE)
    BY <2>1, ElementOfSeq, LenProperties
  <2>5. /\ \A i \in DOMAIN text : text[i] \notin {Dash, Underscore, Dot}
        /\ \A i \in DOMAIN url : url[i] \notin {62, 63, Equal}
    BY <2>4, Zenon DEF Alphabet
  <2>6. Text(text, LineLength)
    <3>1. Alphabet(FALSE) \subseteq Nat /\ DOMAIN text = 1..Len(text)
      BY <2>1, LenProperties DEF Alphabet
    <3>2. text \in Seq(Nat)
      BY <2>1, <3>1, SeqMonotonic
    <3>3. \A i \in 1..Len(text) : text[i] # Newline
      BY <2>4, <3>1, Zenon DEF Alphabet
    <3> QED
      BY SMT, <3>2, <3>3, Base64Assumption DEF Text
  <2>7. PICK N \in Nat : Broken(lines, text, LineLength, N)
    BY <2>6, <2>8, Zenon
  <2>9. DecodeLines(lines) = plain
    <3>1. EraseLinebreaks(lines) = text
      BY SMT, <2>7, BreaksErased
    <3> QED
      BY <2>1, <3>1, Zenon DEF DecodeLines
  <2>10. Len(lines) = N /\ (lines # <<>> => N # 0)
    BY <2>7, Zenon DEF Broken
  <2>11. ASSUME NEW i \in 0..Len(lines), isBreak(i) /\ lines # <<>>
         PROVE  /\ ~isBreak(i + 1)
                /\ \E j \in 1..LineLength + 1 : i + j <= Len(lines) + 1 /\ isBreak(i + j)
    <3>1. i \in 0..N /\ N # 0 /\ (i = 0 \/ lines[i] = Newline) /\ i + 1 # 0 /\ i # N + 1
      BY SMT, <2>10, <2>11
    <3>2. /\ i + 1 # N + 1 /\ lines[i + 1] # Newline
          /\ \E j \in 1..(LineLength + 1) : i + j <= N + 1 /\ (i + j = N + 1 \/ lines[i + j] = Newline)
      <4>1. LineFits(lines, LineLength, N, i)
        <5> HIDE DEF isBreak
        <5> QED
          BY SMT, <2>7, <3>1, LinesFit
      <4> QED
        BY <4>1, Zenon DEF LineFits
    <3> QED
      BY <2>10, <3>1, <3>2, Zenon
  <2> HIDE DEF isBreak
  <2> QED
    BY <2>1, <2>5, <2>9, <2>11, Zenon DEF DecodeInvertsEncode, isBreak, lines, text, url
<1> QED
  BY <1>1, <1>2, <1>3, PTL DEF Base64Spec

=============================================================================
