-------------------------- MODULE Protocols_proofs --------------------------
(***************************************************************************)
(* Proofs about the buffer and the protocols built on it.                  *)
(***************************************************************************)
EXTENDS Chat, IdleEcho, SequenceTheorems, FiniteSetTheorems, WellFoundedInduction, TLAPS

-----------------------------------------------------------------------------
(* Induction over the natural numbers, for a set instead of a predicate.    *)

LEMMA Induction ==
    ASSUME NEW S, 0 \in S, \A n \in Nat : n \in S => n + 1 \in S
    PROVE  Nat \subseteq S
<1> SUFFICES ASSUME Nat \ S # {} PROVE FALSE
  OBVIOUS
<1> DEFINE R == {ss \in Nat \X Nat : ss[1] < ss[2]}
           T == Nat \ S
<1>1. IsWellFoundedOn(R, Nat)
  BY NatLessThanWellFounded DEF OpToRel
<1>2. T \subseteq Nat /\ T # {}
  OBVIOUS
<1> HIDE DEF R, T
<1>3. PICK x \in T : \A y \in T : ~(<<y, x>> \in R)
  BY <1>1, <1>2, WFMin
<1>4. x \in Nat /\ x \notin S /\ x # 0
  BY <1>3 DEF T
<1>5. x - 1 \in Nat /\ (x - 1) + 1 = x /\ <<x - 1, x>> \in R
  BY <1>4 DEF R
<1>6. x - 1 \in S
  BY <1>3, <1>5 DEF T
<1> QED
  BY <1>4, <1>5, <1>6

-----------------------------------------------------------------------------
(* Pieces of a sequence.                                                    *)

Piece(a, m, n) == SubSeq(a, m + 1, n)

LEMMA PieceProperties ==
    ASSUME NEW a \in Seq(Nat), NEW m \in Nat, NEW n \in Nat, m <= n, n <= Len(a)
    PROVE  /\ Piece(a, m, n) \in Seq(Nat) /\ Len(Piece(a, m, n)) = n - m
           /\ \A i \in 1..(n - m) : Piece(a, m, n)[i] = a[m + i]
<1>1. Len(a) \in Nat /\ \A i \in 1..Len(a) : a[i] \in Nat
  BY LenProperties, ElementOfSeq
<1>2. m + 1 \in Int /\ n \in Int /\ \A i \in (m + 1)..n : a[i] \in Nat
  BY <1>1
<1>3. /\ SubSeq(a, m + 1, n) \in Seq(Nat)
      /\ Len(SubSeq(a, m + 1, n)) = IF m + 1 <= n THEN n - (m + 1) + 1 ELSE 0
      /\ \A i \in 1..(n - (m + 1) + 1) : SubSeq(a, m + 1, n)[i] = a[(m + 1) + i - 1]
  <2> DEFINE p == m + 1
  <2>1. p \in Int /\ n \in Int /\ \A i \in p..n : a[i] \in Nat
    BY <1>2
  <2> HIDE DEF p
  <2>2. /\ SubSeq(a, p, n) \in Seq(Nat)
        /\ Len(SubSeq(a, p, n)) = IF p <= n THEN n - p + 1 ELSE 0
        /\ \A i \in 1..(n - p + 1) : SubSeq(a, p, n)[i] = a[p + i - 1]
    BY <2>1, SubSeqProperties, SMTT(30)
  <2> QED
    BY <2>2, Zenon DEF p
<1>4. n - (m + 1) + 1 = n - m /\ \A i \in 1..(n - m) : (m + 1) + i - 1 = m + i
  OBVIOUS
<1>5. Len(SubSeq(a, m + 1, n)) = n - m
  BY <1>3
<1> QED
  BY <1>3, <1>4, <1>5 DEF Piece

LEMMA PiecesJoin ==
    ASSUME NEW a \in Seq(Nat), NEW k \in Nat, NEW m \in Nat, NEW n \in Nat,
           k <= m, m <= n, n <= Len(a)
    PROVE  Piece(a, k, m) \o Piece(a, m, n) = Piece(a, k, n)
<1>1. Len(a) \in Nat
  BY LenProperties
<1>2. k + 1 \in 1..(Len(a) + 1) /\ m \in (k + 1 - 1)..Len(a) /\ n \in m..Len(a)
  BY <1>1
<1> QED
  BY <1>2, ConcatAdjacentSubSeq DEF Piece

-----------------------------------------------------------------------------
(* Buffer: BufferKeepsBytes for every size of the vector, of the header and *)
(* of a byte.  What a buffer holds is said byte by byte (Stores), and each  *)
(* operation is shown to change it as the operation on sequences does.      *)

BufferType == [mem : Seq(Nat), read : Nat, write : Nat]

(* The bytes c lie between the indices of b.                                *)
Stores(b, c) ==
    /\ b \in BufferType /\ c \in Seq(Nat) /\ KPrePrePend <= Len(b.mem)
    /\ b.read <= b.write /\ b.write <= Len(b.mem) /\ Len(c) = b.write - b.read
    /\ \A i \in 1..Len(c) : c[i] = b.mem[b.read + i]

\* What every lemma about an operation needs of the buffer it starts from
LEMMA StoresParts ==
    ASSUME NEW b, NEW c, Stores(b, c)
    PROVE  /\ b \in BufferType /\ b.mem \in Seq(Nat) /\ b.read \in Nat /\ b.write \in Nat
           /\ c \in Seq(Nat) /\ Len(b.mem) \in Nat /\ Len(c) \in Nat
           /\ KPrePrePend \in Nat /\ KPrePrePend <= Len(b.mem)
           /\ b.read <= b.write /\ b.write <= Len(b.mem) /\ Len(c) = b.write - b.read
           /\ \A i \in 1..Len(c) : c[i] = b.mem[b.read + i]
  BY LenProperties, BufferAssumption DEF Stores, BufferType

LEMMA ContentsStored == ASSUME NEW b, NEW c, Stores(b, c) PROVE Contents(b) = c
<1>1. /\ b.mem \in Seq(Nat) /\ b.read \in Nat /\ b.write \in Nat /\ c \in Seq(Nat)
      /\ b.read <= b.write /\ b.write <= Len(b.mem) /\ Len(c) = b.write - b.read
      /\ \A i \in 1..Len(c) : c[i] = b.mem[b.read + i]
  BY DEF Stores, BufferType
<1> DEFINE d == Piece(b.mem, b.read, b.write)
<1>2. /\ d \in Seq(Nat) /\ Len(d) = b.write - b.read
      /\ \A i \in 1..(b.write - b.read) : d[i] = b.mem[b.read + i]
  BY <1>1, PieceProperties
<1> HIDE DEF d
<1>3. d = c
  BY <1>1, <1>2, SeqEqual
<1> QED
  BY <1>3 DEF d, Piece, Contents

LEMMA PokeProperties ==
    ASSUME NEW mem \in Seq(Nat), NEW at \in Nat, NEW data \in Seq(Nat),
           at + Len(data) <= Len(mem)
    PROVE  /\ Poke(mem, at, data) \in Seq(Nat) /\ Len(Poke(mem, at, data)) = Len(mem)
           /\ \A i \in 1..Len(mem) : i <= at \/ i > at + Len(data)
                                        => Poke(mem, at, data)[i] = mem[i]
           /\ \A j \in 1..Len(data) : Poke(mem, at, data)[at + j] = data[j]
<1>1. /\ DOMAIN mem = 1..Len(mem) /\ Len(mem) \in Nat
      /\ DOMAIN data = 1..Len(data) /\ Len(data) \in Nat
      /\ \A i \in 1..Len(mem) : mem[i] \in Nat
      /\ \A i \in 1..Len(data) : data[i] \in Nat
  BY LenProperties, ElementOfSeq
<1>2. PICK m \in Nat, n \in Nat : m = Len(mem) /\ n = Len(data)
  BY <1>1
<1> DEFINE p == Poke(mem, at, data)
<1>3. p = [i \in 1..m |-> IF i - at \in 1..n THEN data[i - at] ELSE mem[i]]
  BY <1>1, <1>2 DEF Poke
<1> HIDE DEF p
<1>4. p \in [1..m -> Nat]
  BY <1>1, <1>2, <1>3
<1>5. p \in Seq(Nat) /\ Len(p) = m
  BY <1>4, IsASeq, LenProperties
<1>6. \A i \in 1..m : i <= at \/ i > at + n => p[i] = mem[i]
  BY <1>3
<1>7. ASSUME NEW j \in 1..n PROVE p[at + j] = data[j]
  <2>1. at + j \in 1..m /\ (at + j) - at = j
    BY <1>2
  <2> QED
    BY <1>3, <2>1
<1> QED
  BY <1>2, <1>5, <1>6, <1>7 DEF p

LEMMA ConcatBytes ==
    ASSUME NEW c \in Seq(Nat), NEW d \in Seq(Nat)
    PROVE  /\ c \o d \in Seq(Nat) /\ Len(c) \in Nat /\ Len(d) \in Nat
           /\ Len(c \o d) = Len(c) + Len(d)
           /\ \A i \in 1..(Len(c) + Len(d)) :
                 (c \o d)[i] = IF i <= Len(c) THEN c[i] ELSE d[i - Len(c)]
  BY ConcatProperties, LenProperties

\* Places in a buffer with the indices r and w when n bytes are taken out, and
\* when n bytes are put in front, of which i is one or beyond them
LEMMA PlacesBehind ==
    ASSUME NEW r \in Nat, NEW w \in Nat, NEW k \in Nat, NEW n \in Nat, k = w - r, n < k
    PROVE  /\ r + n \in Nat /\ r + n <= w /\ k - n = w - (r + n)
           /\ \A i \in 1..(k - n) : n + i \in 1..k /\ r + (n + i) = (r + n) + i
  OBVIOUS

LEMMA PlacesInFront ==
    ASSUME NEW r \in Nat, NEW w \in Nat, NEW k \in Nat, NEW n \in Nat, NEW f \in Nat,
           NEW z \in Nat, k = w - r, f + n = r, w <= z, NEW i \in 1..(n + k), ~(i <= n)
    PROVE  /\ i - n \in 1..k /\ r + (i - n) = f + i
           /\ f + i \in 1..z /\ f + i > f + n
  OBVIOUS

\* retrieve()
LEMMA RetrieveTakes ==
    ASSUME NEW b, NEW c, Stores(b, c), NEW n \in Nat, n <= Readable(b)
    PROVE  Stores(Retrieve(b, n), SubSeq(c, n + 1, Len(c)))
<1>1. /\ b \in BufferType /\ b.mem \in Seq(Nat) /\ b.read \in Nat /\ b.write \in Nat
      /\ c \in Seq(Nat) /\ KPrePrePend <= Len(b.mem) /\ Len(b.mem) \in Nat
      /\ b.read <= b.write /\ b.write <= Len(b.mem) /\ Len(c) = b.write - b.read
      /\ \A i \in 1..Len(c) : c[i] = b.mem[b.read + i]
  BY LenProperties DEF Stores, BufferType
<1>2. n <= Len(c) /\ Len(c) \in Nat /\ KPrePrePend \in Nat
  BY <1>1, BufferAssumption DEF Readable
<1> DEFINE d == SubSeq(c, n + 1, Len(c))
<1>3. /\ d \in Seq(Nat) /\ Len(d) = Len(c) - n
      /\ \A i \in 1..(Len(c) - n) : d[i] = c[n + i]
  <2>1. c \in Seq(Nat) /\ Len(c) \in Nat /\ n <= Len(c) /\ Len(c) <= Len(c)
    BY <1>1, <1>2
  <2>2. /\ Piece(c, n, Len(c)) \in Seq(Nat) /\ Len(Piece(c, n, Len(c))) = Len(c) - n
        /\ \A i \in 1..(Len(c) - n) : Piece(c, n, Len(c))[i] = c[n + i]
    BY <2>1, PieceProperties, ZenonT(60)
  <2> QED
    BY <2>2, Zenon DEF Piece
<1> HIDE DEF d
<1>4. CASE n < Readable(b)
  <2> DEFINE more == b.read + n
             e == [b EXCEPT !.read = more]
  <2>1. Retrieve(b, n) = e
    BY <1>4 DEF Retrieve
  <2>2. /\ more \in Nat /\ more <= b.write /\ Len(d) = b.write - more
        /\ \A i \in 1..(Len(c) - n) : n + i \in 1..Len(c) /\ b.read + (n + i) = more + i
    <3>1. n < Len(c)
      BY <1>1, <1>4 DEF Readable
    <3>2. PICK r \in Nat, w \in Nat, k \in Nat : r = b.read /\ w = b.write /\ k = Len(c)
      BY <1>1, <1>2
    <3>3. k = w - r /\ n < k
      BY <1>1, <3>1, <3>2
    <3>4. /\ r + n \in Nat /\ r + n <= w /\ k - n = w - (r + n)
          /\ \A i \in 1..(k - n) : n + i \in 1..k /\ r + (n + i) = (r + n) + i
      BY <3>3, PlacesBehind
    <3> QED
      BY <1>3, <3>2, <3>4
  <2>3. \A i \in 1..Len(d) : d[i] = b.mem[more + i]
    <3> HIDE DEF more
    <3> QED
      BY <1>1, <1>3, <2>2
  <2> HIDE DEF more
  <2>4. e \in BufferType /\ e.mem = b.mem /\ e.read = more /\ e.write = b.write
    BY <1>1, <2>2 DEF BufferType
  <2> HIDE DEF e
  <2>5. Stores(e, d)
    BY <1>1, <1>3, <2>2, <2>3, <2>4 DEF Stores
  <2> QED
    BY <2>1, <2>5 DEF d
<1>5. CASE ~(n < Readable(b))
  <2> DEFINE e == [b EXCEPT !.read = KPrePrePend, !.write = KPrePrePend]
  <2>1. Retrieve(b, n) = e
    BY <1>5 DEF Retrieve, RetrieveAll
  <2>2. e \in BufferType /\ e.mem = b.mem /\ e.read = KPrePrePend /\ e.write = KPrePrePend
    BY <1>1, <1>2 DEF BufferType
  <2> HIDE DEF e
  <2>3. Len(d) = 0 /\ KPrePrePend <= KPrePrePend /\ KPrePrePend - KPrePrePend = 0
    BY <1>1, <1>2, <1>3, <1>5 DEF Readable
  <2>4. \A i \in 1..Len(d) : FALSE
    BY <2>3
  <2>5. Stores(e, d)
    BY <1>1, <1>3, <2>2, <2>3, <2>4 DEF Stores
  <2> QED
    BY <2>1, <2>5 DEF d
<1> QED
  BY <1>4, <1>5

\* prepend()
LEMMA PrependStores ==
    ASSUME NEW b, NEW c, Stores(b, c), NEW data \in Seq(Nat), Len(data) <= b.read
    PROVE  Stores(Prepend(b, data), data \o c)
<1>1. /\ b \in BufferType /\ b.mem \in Seq(Nat) /\ b.read \in Nat /\ b.write \in Nat
      /\ c \in Seq(Nat) /\ KPrePrePend <= Len(b.mem) /\ Len(b.mem) \in Nat
      /\ b.read <= b.write /\ b.write <= Len(b.mem) /\ Len(c) = b.write - b.read
      /\ \A i \in 1..Len(c) : c[i] = b.mem[b.read + i]
  BY LenProperties DEF Stores, BufferType
<1> DEFINE front == b.read - Len(data)
           mem == Poke(b.mem, front, data)
           e == [b EXCEPT !.mem = mem, !.read = front]
           d == data \o c
<1>2. Prepend(b, data) = e
  BY DEF Prepend
<1>3. /\ d \in Seq(Nat) /\ Len(c) \in Nat /\ Len(data) \in Nat
      /\ Len(d) = Len(data) + Len(c)
      /\ \A i \in 1..(Len(data) + Len(c)) :
            d[i] = IF i <= Len(data) THEN data[i] ELSE c[i - Len(data)]
  BY <1>1, ConcatBytes
<1> HIDE DEF d
<1>4. /\ front \in Nat /\ front + Len(data) = b.read /\ front + Len(data) <= Len(b.mem)
      /\ front <= b.write /\ Len(d) = b.write - front
  BY <1>1, <1>3
<1> HIDE DEF front
<1>5. /\ mem \in Seq(Nat) /\ Len(mem) = Len(b.mem)
      /\ \A i \in 1..Len(b.mem) : i <= front \/ i > front + Len(data) => mem[i] = b.mem[i]
      /\ \A j \in 1..Len(data) : mem[front + j] = data[j]
  BY <1>1, <1>4, PokeProperties
<1> HIDE DEF mem
<1>6. e \in BufferType /\ e.mem = mem /\ e.read = front /\ e.write = b.write
  BY <1>1, <1>4, <1>5 DEF BufferType
<1> HIDE DEF e
<1>7. ASSUME NEW i \in 1..Len(d) PROVE d[i] = mem[front + i]
  <2>1. CASE i <= Len(data)
    <3>1. i \in 1..Len(data) /\ i \in 1..(Len(data) + Len(c))
      BY <1>3, <2>1
    <3> QED
      BY <1>3, <1>5, <2>1, <3>1
  <2>2. CASE ~(i <= Len(data))
    <3>1. /\ i \in 1..(Len(data) + Len(c)) /\ i - Len(data) \in 1..Len(c)
          /\ b.read + (i - Len(data)) = front + i
          /\ front + i \in 1..Len(b.mem) /\ front + i > front + Len(data)
      <4>1. PICK r \in Nat, w \in Nat, k \in Nat, z \in Nat, n \in Nat :
               r = b.read /\ w = b.write /\ k = Len(c) /\ z = Len(b.mem) /\ n = Len(data)
        BY <1>1, <1>3
      <4>2. /\ k = w - r /\ front \in Nat /\ front + n = r /\ w <= z /\ i \in 1..(n + k)
            /\ ~(i <= n)
        BY <1>1, <1>3, <1>4, <2>2, <4>1
      <4>3. /\ i - n \in 1..k /\ r + (i - n) = front + i
            /\ front + i \in 1..z /\ front + i > front + n
        BY <4>2, PlacesInFront
      <4> QED
        BY <4>1, <4>2, <4>3
    <3> QED
      BY <1>1, <1>3, <1>5, <2>2, <3>1
  <2> QED
    BY <2>1, <2>2
<1>8. Stores(e, d)
  BY <1>1, <1>3, <1>4, <1>5, <1>6, <1>7 DEF Stores
<1> QED
  BY <1>2, <1>8 DEF d

\* Data goes behind the write index, where there is room for it.
LEMMA WriteStores ==
    ASSUME NEW b, NEW c, Stores(b, c), NEW data \in Seq(Nat), Len(data) <= Writable(b)
    PROVE  Stores([b EXCEPT !.mem = Poke(@, b.write, data), !.write = @ + Len(data)], c \o data)
<1>0. /\ b \in BufferType /\ b.mem \in Seq(Nat) /\ b.read \in Nat /\ b.write \in Nat
      /\ c \in Seq(Nat) /\ Len(b.mem) \in Nat /\ Len(c) \in Nat
      /\ b.read <= b.write /\ Len(c) = b.write - b.read
      /\ \A i \in 1..Len(c) : c[i] = b.mem[b.read + i]
  BY StoresParts
<1>1. PICK r \in Nat, w \in Nat, k \in Nat, z \in Nat, n \in Nat :
         r = b.read /\ w = b.write /\ k = Len(c) /\ z = Len(b.mem) /\ n = Len(data)
  <2>1. Len(data) \in Nat
    BY LenProperties
  <2> QED
    BY <1>0, <2>1
<1>11. k = w - r /\ w + n <= z /\ r <= w
  BY <1>0, <1>1 DEF Writable
<1> DEFINE mem == Poke(b.mem, w, data)
           end == w + n
           e == [b EXCEPT !.mem = mem, !.write = end]
           d == c \o data
<1>2. [b EXCEPT !.mem = Poke(@, b.write, data), !.write = @ + Len(data)] = e
  BY <1>1
<1>3. /\ d \in Seq(Nat) /\ Len(d) = k + n
      /\ \A i \in 1..(k + n) : d[i] = IF i <= k THEN c[i] ELSE data[i - k]
  BY <1>0, <1>1, ConcatBytes
<1> HIDE DEF d
<1>4. /\ mem \in Seq(Nat) /\ Len(mem) = z
      /\ \A i \in 1..z : i <= w \/ i > w + n => mem[i] = b.mem[i]
      /\ \A j \in 1..n : mem[w + j] = data[j]
  <2>1. b.mem \in Seq(Nat) /\ w + Len(data) <= Len(b.mem)
    BY <1>0, <1>1, <1>11
  <2>2. /\ mem \in Seq(Nat) /\ Len(mem) = Len(b.mem)
        /\ \A i \in 1..Len(b.mem) : i <= w \/ i > w + Len(data) => mem[i] = b.mem[i]
        /\ \A j \in 1..Len(data) : mem[w + j] = data[j]
    BY <2>1, PokeProperties, ZenonT(60)
  <2> QED
    BY <1>1, <2>2
<1> HIDE DEF mem
<1>5. end \in Nat /\ end <= z /\ r <= end /\ k + n = end - r
  BY <1>11
<1> HIDE DEF end
<1>6. e \in BufferType /\ e.mem = mem /\ e.read = r /\ e.write = end
  BY <1>0, <1>1, <1>4, <1>5 DEF BufferType
<1> HIDE DEF e
<1>7. ASSUME NEW i \in 1..(k + n) PROVE d[i] = mem[r + i]
  <2>1. CASE i <= k
    <3>1. i \in 1..k /\ r + i \in 1..z /\ r + i <= w
      BY <1>11, <2>1
    <3>2. c[i] = b.mem[r + i]
      BY <1>0, <1>1, <3>1
    <3> QED
      BY <1>3, <1>4, <2>1, <3>1, <3>2
  <2>2. CASE ~(i <= k)
    <3>1. i - k \in 1..n /\ w + (i - k) = r + i
      BY <1>11, <2>2
    <3> QED
      BY <1>3, <1>4, <2>2, <3>1
  <2> QED
    BY <2>1, <2>2
<1>8. Stores(e, d)
  BY <1>1, <1>3, <1>4, <1>5, <1>6, <1>7, StoresParts DEF Stores
<1> QED
  BY <1>2, <1>8 DEF d

\* makeSpace() keeps the bytes and makes the room, grown or not.
LEMMA MakeSpaceStores ==
    ASSUME NEW b, NEW c, Stores(b, c), NEW len \in Nat, KPrePrePend <= b.read
    PROVE  Stores(MakeSpace(b, len), c) /\ len <= Writable(MakeSpace(b, len))
<1>0. /\ b \in BufferType /\ b.mem \in Seq(Nat) /\ b.read \in Nat /\ b.write \in Nat
      /\ c \in Seq(Nat) /\ Len(b.mem) \in Nat /\ Len(c) \in Nat /\ KPrePrePend \in Nat
      /\ b.read <= b.write /\ b.write <= Len(b.mem) /\ Len(c) = b.write - b.read
  BY StoresParts
<1>1. PICK r \in Nat, w \in Nat, k \in Nat, z \in Nat, p \in Nat :
         r = b.read /\ w = b.write /\ k = Len(c) /\ z = Len(b.mem) /\ p = KPrePrePend
  BY <1>0
<1>11. k = w - r /\ r <= w /\ w <= z /\ p <= r
  BY <1>0, <1>1
<1> DEFINE mem == Poke(b.mem, p, c)
           end == p + k
           moved == [b EXCEPT !.mem = mem, !.read = p, !.write = end]
<1>2. Contents(b) = c /\ Readable(b) = k
  BY <1>1, <1>11, ContentsStored DEF Readable
<1>3. end \in Nat /\ end <= z /\ p <= end /\ k = end - p
  BY <1>11
<1>4. /\ mem \in Seq(Nat) /\ Len(mem) = z /\ \A j \in 1..k : mem[p + j] = c[j]
  <2>1. b.mem \in Seq(Nat) /\ c \in Seq(Nat) /\ p + Len(c) <= Len(b.mem)
    BY <1>0, <1>1, <1>3
  <2>2. /\ mem \in Seq(Nat) /\ Len(mem) = Len(b.mem)
        /\ \A i \in 1..Len(b.mem) : i <= p \/ i > p + Len(c) => mem[i] = b.mem[i]
        /\ \A j \in 1..Len(c) : mem[p + j] = c[j]
    BY <2>1, PokeProperties, ZenonT(60)
  <2> QED
    BY <1>1, <2>2
<1>5. MakeSpace(b, len) = IF MustGrow(b, len)
                          THEN [moved EXCEPT !.mem = [i \in 1..(moved.write + len) |->
                                     IF i <= moved.write THEN moved.mem[i] ELSE Garbage]]
                          ELSE moved
  BY <1>1, <1>2 DEF MakeSpace
<1> HIDE DEF mem, end
<1>6. moved \in BufferType /\ moved.mem = mem /\ moved.read = p /\ moved.write = end
  BY <1>0, <1>3, <1>4 DEF BufferType
<1> HIDE DEF moved
<1>7. CASE ~MustGrow(b, len)
  <2>1. ~(z - w + r < len + p)
    BY <1>1, <1>7 DEF MustGrow, Writable
  <2>11. len <= z - end
    BY <1>11, <2>1 DEF end
  <2>2. Stores(moved, c)
    BY <1>1, <1>3, <1>4, <1>6, StoresParts DEF Stores
  <2> QED
    BY <1>4, <1>5, <1>6, <1>7, <2>11, <2>2 DEF Writable
<1>8. CASE MustGrow(b, len)
  <2> DEFINE size == end + len
             grown == [i \in 1..size |-> IF i <= end THEN mem[i] ELSE Garbage]
             e == [moved EXCEPT !.mem = grown]
  <2>1. MakeSpace(b, len) = e
    BY <1>5, <1>6, <1>8
  <2>2. size \in Nat /\ end <= size /\ len <= size - end /\ p <= size
    BY <1>3
  <2> HIDE DEF size
  <2>3. Garbage \in Nat /\ \A i \in 1..z : mem[i] \in Nat
    <3>1. Garbage \in Nat
      BY BufferAssumption DEF Garbage
    <3>2. \A i \in 1..Len(mem) : mem[i] \in Nat
      BY <1>4, ElementOfSeq
    <3> QED
      BY <1>4, <3>1, <3>2
  <2>4. grown \in [1..size -> Nat]
    <3>1. \A i \in 1..size : i <= end => i \in 1..z
      BY <1>1, <1>3, <2>2
    <3> QED
      BY <2>3, <3>1
  <2>5. \A j \in 1..k : grown[p + j] = c[j]
    <3> TAKE j \in 1..k
    <3>1. p + j \in 1..size /\ p + j <= end
      BY <1>1, <1>3, <2>2
    <3> QED
      BY <1>4, <3>1
  <2> HIDE DEF grown
  <2>6. grown \in Seq(Nat) /\ Len(grown) = size
    BY <2>2, <2>4, IsASeq, LenProperties
  <2>7. e \in BufferType /\ e.mem = grown /\ e.read = p /\ e.write = end
    BY <1>6, <2>6 DEF BufferType
  <2> HIDE DEF e
  <2>8. Stores(e, c)
    BY <1>1, <1>3, <2>2, <2>5, <2>6, <2>7, StoresParts DEF Stores
  <2> QED
    BY <2>1, <2>2, <2>6, <2>7, <2>8 DEF Writable
<1> QED
  BY <1>7, <1>8

\* append()
LEMMA AppendStores ==
    ASSUME NEW b, NEW c, Stores(b, c), NEW data \in Seq(Nat),
           ~AssertsInMakeSpace(b, Len(data))
    PROVE  Stores(AppendData(b, data), c \o data)
<1> DEFINE len == Len(data)
           e == EnsureWritable(b, len)
<1>1. len \in Nat
  BY LenProperties
<1>2. Stores(e, c) /\ len <= Writable(e)
  <2>1. Writable(b) \in Int /\ b.read \in Nat /\ KPrePrePend \in Nat
    BY StoresParts DEF Writable
  <2>2. CASE Writable(b) < len
    <3>1. KPrePrePend <= b.read
      BY <2>1, <2>2 DEF AssertsInMakeSpace
    <3> HIDE DEF len
    <3>2. Stores(MakeSpace(b, len), c) /\ len <= Writable(MakeSpace(b, len))
      BY <1>1, <3>1, MakeSpaceStores
    <3> QED
      BY <2>2, <3>2 DEF EnsureWritable
  <2>3. CASE ~(Writable(b) < len)
    BY <1>1, <2>1, <2>3 DEF EnsureWritable
  <2> QED
    BY <2>2, <2>3
<1>3. AppendData(b, data) = [e EXCEPT !.mem = Poke(@, e.write, data), !.write = @ + Len(data)]
  BY DEF AppendData
<1> HIDE DEF e
<1>4. Stores([e EXCEPT !.mem = Poke(@, e.write, data), !.write = @ + Len(data)], c \o data)
  BY <1>2, WriteStores
<1> QED
  BY <1>3, <1>4

\* readFd(): what does not fit comes behind the rest by way of extraBuf.
LEMMA ReadStores ==
    ASSUME NEW b, NEW c, Stores(b, c), NEW data \in Seq(Nat),
           Len(data) > Writable(b) => KPrePrePend <= b.read
    PROVE  Stores(ReadFd(b, data), c \o data)
<1>1. PICK n \in Nat, room \in Nat : n = Len(data) /\ room = Writable(b)
  <2>1. Len(data) \in Nat
    BY LenProperties
  <2>2. Writable(b) \in Nat
    BY StoresParts DEF Writable
  <2> QED
    BY <2>1, <2>2
<1>2. CASE n <= room
  BY <1>1, <1>2, WriteStores DEF ReadFd
<1>3. CASE ~(n <= room)
  <2> DEFINE first == SubSeq(data, 1, room)
             rest == SubSeq(data, room + 1, n)
             full == [b EXCEPT !.mem = Poke(@, b.write, first), !.write = @ + Len(first)]
  <2>1. 0 + 1 = 1 /\ 0 <= room /\ room <= n /\ n <= n /\ room - 0 = room /\ 0 \in Nat
    BY <1>3
  <2>2. /\ first \in Seq(Nat) /\ Len(first) = room
        /\ rest \in Seq(Nat) /\ Len(rest) = n - room
    <3>1. /\ Piece(data, 0, room) \in Seq(Nat) /\ Len(Piece(data, 0, room)) = room - 0
      BY <1>1, <2>1, PieceProperties
    <3>2. /\ Piece(data, room, n) \in Seq(Nat) /\ Len(Piece(data, room, n)) = n - room
      BY <1>1, <2>1, PieceProperties
    <3> QED
      BY <2>1, <3>1, <3>2 DEF Piece
  <2>3. first \o rest = data
    <3>1. Piece(data, 0, room) \o Piece(data, room, n) = Piece(data, 0, n)
      <4>1. n = Len(data) /\ n \in Nat /\ room \in Nat /\ 0 \in Nat /\ 0 <= room /\ room <= n /\ n <= Len(data)
        BY <1>1, <2>1
      <4> QED
        BY <4>1, PiecesJoin, Zenon
    <3>2. Piece(data, 0, n) = data
      <4>1. SubSeq(data, 1, Len(data)) = data
        BY SubSeqFull
      <4> QED
        BY <1>1, <2>1, <4>1, Zenon DEF Piece
    <3> QED
      BY <2>1, <3>1, <3>2 DEF Piece
  <2> HIDE DEF first, rest
  <2>4. Stores(full, c \o first)
    <3>1. Len(first) <= Writable(b)
      BY <1>1, <2>1, <2>2
    <3> QED
      BY <2>2, <3>1, WriteStores
  <2>5. /\ full.mem = Poke(b.mem, b.write, first) /\ full.write = b.write + room
        /\ full.read = b.read
    BY <2>2, StoresParts DEF BufferType
  <2>6. ReadFd(b, data) = AppendData(full, rest)
    <3>1. b.write + Len(first) = Len(b.mem)
      <4>1. b.write \in Nat /\ Len(b.mem) \in Nat
        BY StoresParts
      <4> QED
        BY <1>1, <2>2, <4>1 DEF Writable
    <3> QED
      BY <1>1, <1>3, <3>1 DEF ReadFd, first, rest
  <2> HIDE DEF full
  <2>7. ~AssertsInMakeSpace(full, Len(rest))
    BY <1>1, <1>3, <2>5, StoresParts DEF AssertsInMakeSpace
  <2>8. Stores(AppendData(full, rest), (c \o first) \o rest)
    BY <2>2, <2>4, <2>7, AppendStores
  <2>9. (c \o first) \o rest = c \o data
    <3>1. c \in Seq(Nat)
      BY StoresParts
    <3>2. (c \o first) \o rest = c \o (first \o rest)
      BY <2>2, <3>1, ConcatAssociative, SMTT(30)
    <3> QED
      BY <2>3, <3>2
  <2> QED
    BY <2>6, <2>8, <2>9
<1> QED
  BY <1>2, <1>3

-----------------------------------------------------------------------------
(* Integers in the buffer: what peekInt finds is what prependInt wrote.     *)

LEMMA ProductsOrdered ==
    ASSUME NEW d \in Nat, NEW a \in Int, NEW b \in Int, a <= b
    PROVE  d * a <= d * b
  OBVIOUS

LEMMA Division ==
    ASSUME NEW a \in Int, NEW d \in Nat \ {0}
    PROVE  /\ a \div d \in Int /\ a % d \in 0..(d - 1)
           /\ a = d * (a \div d) + (a % d)
  OBVIOUS

LEMMA QuotientUnique ==
    ASSUME NEW a \in Int, NEW d \in Nat \ {0}, NEW q \in Int, NEW s \in 0..(d - 1),
           a = d * q + s
    PROVE  a \div d = q
<1>1. PICK p \in Int, r \in 0..(d - 1) : p = a \div d /\ a = d * p + r
  BY Division
<1>2. CASE p < q
  <2>1. d * (p + 1) <= d * q
    BY <1>2, ProductsOrdered
  <2>2. d * (p + 1) = d * p + d
    OBVIOUS
  <2> QED
    BY <1>1, <2>1, <2>2
<1>3. CASE q < p
  <2>1. d * (q + 1) <= d * p
    BY <1>3, ProductsOrdered
  <2>2. d * (q + 1) = d * q + d
    OBVIOUS
  <2> QED
    BY <1>1, <2>1, <2>2
<1> QED
  BY <1>1, <1>2, <1>3

\* The recursion of Span defines a function, and only one.
SpanTurn(power, k) == IF k = 0 THEN 1 ELSE Base * power[k - 1]

LEMMA SpanExists == \A n \in Nat : \E f : f = [k \in 0..n |-> SpanTurn(f, k)]
<1> DEFINE Defined == {n \in Nat : \E f : f = [k \in 0..n |-> SpanTurn(f, k)]}
<1>1. 0 \in Defined
  <2> DEFINE f == [k \in 0..0 |-> 1]
  <2>1. f = [k \in 0..0 |-> SpanTurn(f, k)]
    BY DEF SpanTurn
  <2> QED
    BY <2>1
<1>2. ASSUME NEW n \in Nat, n \in Defined PROVE n + 1 \in Defined
  <2>1. PICK f : f = [k \in 0..n |-> SpanTurn(f, k)]
    BY <1>2
  <2> DEFINE g == [k \in 0..(n + 1) |-> IF k = n + 1 THEN SpanTurn(f, k) ELSE f[k]]
  <2>2. ASSUME NEW k \in 0..(n + 1) PROVE g[k] = SpanTurn(g, k)
    <3>1. CASE k = 0
      BY <2>1, <3>1 DEF SpanTurn
    <3>2. CASE k # 0
      <4>1. k - 1 \in 0..n /\ k - 1 \in 0..(n + 1) /\ k - 1 # n + 1 /\ g[k - 1] = f[k - 1]
        BY <3>2
      <4>2. SpanTurn(g, k) = SpanTurn(f, k)
        BY <3>2, <4>1 DEF SpanTurn
      <4>3. k # n + 1 => k \in 0..n /\ f[k] = SpanTurn(f, k)
        BY <2>1
      <4> QED
        BY <4>2, <4>3
    <3> QED
      BY <3>1, <3>2
  <2>3. g = [k \in 0..(n + 1) |-> SpanTurn(g, k)]
    BY <2>2
  <2> HIDE DEF g
  <2> QED
    BY <2>3
<1>3. Nat \subseteq Defined
  <2> HIDE DEF Defined
  <2> QED
    BY <1>1, <1>2, Induction
<1> QED
  BY <1>3

LEMMA SpanUnique ==
    ASSUME NEW n \in Nat, NEW m \in Nat, n <= m,
           NEW f, f = [k \in 0..n |-> SpanTurn(f, k)],
           NEW g, g = [k \in 0..m |-> SpanTurn(g, k)]
    PROVE  f[n] = g[n]
<1> DEFINE Same == {k \in Nat : k <= n => f[k] = g[k]}
<1>1. 0 \in Same
  BY DEF SpanTurn
<1>2. ASSUME NEW k \in Nat, k \in Same PROVE k + 1 \in Same
  <2> SUFFICES ASSUME k + 1 <= n PROVE f[k + 1] = g[k + 1]
    OBVIOUS
  <2>1. f[k] = g[k] /\ k + 1 \in 0..n /\ k + 1 \in 0..m /\ k + 1 # 0 /\ (k + 1) - 1 = k
    BY <1>2
  <2>2. f[k + 1] = Base * f[k] /\ g[k + 1] = Base * g[k]
    BY <2>1 DEF SpanTurn
  <2> QED
    BY <2>1, <2>2
<1>3. Nat \subseteq Same
  <2> HIDE DEF Same
  <2> QED
    BY <1>1, <1>2, Induction
<1> QED
  BY <1>3

LEMMA SpanIs ==
    ASSUME NEW n \in Nat
    PROVE  \E f : f = [k \in 0..n |-> SpanTurn(f, k)] /\ Span(n) = f[n]
<1> DEFINE p == CHOOSE f : f = [k \in 0..n |-> SpanTurn(f, k)]
<1>1. p = [k \in 0..n |-> SpanTurn(p, k)]
  BY SpanExists, Zenon
<1>2. Span(n) = p[n]
  BY Zenon DEF Span, SpanTurn
<1> HIDE DEF p
<1> QED
  BY <1>1, <1>2

LEMMA SpanStep ==
    /\ Span(0) = 1 /\ \A n \in Nat : Span(n + 1) = Base * Span(n)
    /\ \A n \in Nat : Span(n) \in Nat \ {0}
<1>1. Span(0) = 1
  <2>1. PICK f : f = [k \in 0..0 |-> SpanTurn(f, k)] /\ Span(0) = f[0]
    BY SpanIs
  <2> QED
    BY <2>1 DEF SpanTurn
<1>2. ASSUME NEW n \in Nat PROVE Span(n + 1) = Base * Span(n)
  <2>0. n + 1 \in Nat /\ n <= n + 1 /\ n + 1 \in 0..(n + 1) /\ n + 1 # 0 /\ (n + 1) - 1 = n
    OBVIOUS
  <2>1. PICK f : f = [k \in 0..n |-> SpanTurn(f, k)] /\ Span(n) = f[n]
    BY SpanIs
  <2>2. PICK g : g = [k \in 0..(n + 1) |-> SpanTurn(g, k)] /\ Span(n + 1) = g[n + 1]
    BY <2>0, SpanIs
  <2>3. f[n] = g[n]
    BY <2>0, <2>1, <2>2, SpanUnique
  <2>4. g[n + 1] = Base * g[n]
    BY <2>0, <2>2 DEF SpanTurn
  <2> QED
    BY <2>1, <2>2, <2>3, <2>4
<1>3. \A n \in Nat : Span(n) \in Nat \ {0}
  <2> DEFINE Positive == {n \in Nat : Span(n) \in Nat \ {0}}
  <2>1. 0 \in Positive
    BY <1>1
  <2>2. ASSUME NEW n \in Nat, n \in Positive PROVE n + 1 \in Positive
    <3>1. PICK s \in Nat \ {0} : s = Span(n)
      BY <2>2
    <3>2. PICK b \in Nat \ {0} : b = Base
      BY BufferAssumption
    <3>3. b * s \in Nat \ {0}
      OBVIOUS
    <3> QED
      BY <1>2, <3>1, <3>2, <3>3
  <2>3. Nat \subseteq Positive
    <3> HIDE DEF Positive
    <3> QED
      BY <2>1, <2>2, Induction
  <2> QED
    BY <2>3
<1> QED
  BY <1>1, <1>2, <1>3

\* The recursion of IntOf
ValueTurn(bytes, value, i) == IF i = 0 THEN 0 ELSE value[i - 1] * Base + bytes[i]

LEMMA ValueExists ==
    ASSUME NEW bytes
    PROVE  \A n \in Nat : \E f : f = [i \in 0..n |-> ValueTurn(bytes, f, i)]
<1> DEFINE Defined == {n \in Nat : \E f : f = [i \in 0..n |-> ValueTurn(bytes, f, i)]}
<1>1. 0 \in Defined
  <2> DEFINE f == [i \in 0..0 |-> 0]
  <2>1. f = [i \in 0..0 |-> ValueTurn(bytes, f, i)]
    BY DEF ValueTurn
  <2> QED
    BY <2>1
<1>2. ASSUME NEW n \in Nat, n \in Defined PROVE n + 1 \in Defined
  <2>1. PICK f : f = [i \in 0..n |-> ValueTurn(bytes, f, i)]
    BY <1>2
  <2> DEFINE g == [i \in 0..(n + 1) |-> IF i = n + 1 THEN ValueTurn(bytes, f, i) ELSE f[i]]
  <2>2. ASSUME NEW i \in 0..(n + 1) PROVE g[i] = ValueTurn(bytes, g, i)
    <3>1. CASE i = 0
      BY <2>1, <3>1 DEF ValueTurn
    <3>2. CASE i # 0
      <4>1. i - 1 \in 0..n /\ i - 1 \in 0..(n + 1) /\ i - 1 # n + 1 /\ g[i - 1] = f[i - 1]
        BY <3>2
      <4>2. ValueTurn(bytes, g, i) = ValueTurn(bytes, f, i)
        BY <3>2, <4>1 DEF ValueTurn
      <4>3. i # n + 1 => i \in 0..n /\ f[i] = ValueTurn(bytes, f, i)
        BY <2>1
      <4> QED
        BY <4>2, <4>3
    <3> QED
      BY <3>1, <3>2
  <2>3. g = [i \in 0..(n + 1) |-> ValueTurn(bytes, g, i)]
    BY <2>2
  <2> HIDE DEF g
  <2> QED
    BY <2>3
<1>3. Nat \subseteq Defined
  <2> HIDE DEF Defined
  <2> QED
    BY <1>1, <1>2, Induction
<1> QED
  BY <1>3

LEMMA ValueIs ==
    ASSUME NEW bytes, Len(bytes) \in Nat
    PROVE  \E f : /\ f = [i \in 0..Len(bytes) |-> ValueTurn(bytes, f, i)]
                  /\ IntOf(bytes) = IF 2 * f[Len(bytes)] >= Span(Len(bytes))
                                    THEN f[Len(bytes)] - Span(Len(bytes)) ELSE f[Len(bytes)]
<1> DEFINE v == CHOOSE f : f = [i \in 0..Len(bytes) |-> ValueTurn(bytes, f, i)]
<1>1. v = [i \in 0..Len(bytes) |-> ValueTurn(bytes, v, i)]
  BY ValueExists, Zenon
<1>2. IntOf(bytes) = IF 2 * v[Len(bytes)] >= Span(Len(bytes))
                     THEN v[Len(bytes)] - Span(Len(bytes)) ELSE v[Len(bytes)]
  BY Zenon DEF IntOf, ValueTurn
<1> HIDE DEF v
<1> QED
  BY <1>1, <1>2

LEMMA OneTurn ==
    ASSUME NEW v \in Int, NEW d \in Int, NEW e \in Int, NEW q \in Int, NEW s \in Int,
           NEW b \in Int, NEW m \in Int, v = d - q * s, e = b * d + m
    PROVE  v * b + m = e - q * (b * s)
  OBVIOUS

\* The value that n bytes stand for is the integer they were made of, if n bytes
\* can hold it.
LEMMA IntegersReturn ==
    ASSUME NEW n \in Nat, NEW x \in Int, -Span(n) <= 2 * x, 2 * x < Span(n)
    PROVE  BytesOf(x, n) \in Seq(Nat) /\ Len(BytesOf(x, n)) = n /\ IntOf(BytesOf(x, n)) = x
<1>1. PICK p \in Nat \ {0} : p = Span(n)
  BY SpanStep
<1>2. PICK b \in Nat \ {0} : b = Base
  BY BufferAssumption
<1> DEFINE a == x + p
           D(j) == a \div Span(j)
           bytes == BytesOf(x, n)
<1>3. a \in Int
  OBVIOUS
<1> HIDE DEF a
<1>4. ASSUME NEW j \in Nat
      PROVE  /\ D(j) \in Int /\ D(j + 1) \in Int /\ D(j) % b \in 0..(b - 1)
             /\ D(j) = b * D(j + 1) + (D(j) % b)
  <2>1. PICK s \in Nat \ {0} : s = Span(j)
    BY SpanStep
  <2>2. PICK c \in Nat \ {0} : c = Span(j + 1)
    BY SpanStep
  <2>3. c = b * s
    BY <1>2, <2>1, <2>2, SpanStep
  <2>4. PICK d \in Int, r \in 0..(s - 1) : d = a \div s /\ a = s * d + r
    BY <1>3, Division
  <2>5. PICK u \in Int, m \in 0..(b - 1) : m = d % b /\ d = b * u + m
    BY Division
  <2>6. a \div c = u
    <3>1. a = c * u + (s * m + r)
      <4>1. s * (b * u + m) = (b * s) * u + s * m
        OBVIOUS
      <4>2. d = b * u + m /\ a = s * d + r
        BY <2>4, <2>5
      <4>3. a = (b * s) * u + s * m + r
        BY <4>1, <4>2
      <4> QED
        BY <2>3, <4>3
    <3>2. s * m <= s * (b - 1) /\ s * 0 <= s * m
      BY ProductsOrdered
    <3>3. s * m \in Int /\ s * (b - 1) = c - s
      BY <2>3
    <3>4. PICK t \in 0..(c - 1) : t = s * m + r
      BY <3>2, <3>3
    <3> QED
      BY <1>3, <3>1, <3>4, QuotientUnique
  <2> QED
    BY <2>1, <2>2, <2>4, <2>5, <2>6
<1>5. bytes = [i \in 1..n |-> D(n - i) % b]
  BY <1>1, <1>2 DEF BytesOf, a
<1> HIDE DEF D, bytes
<1>6. bytes \in [1..n -> Nat]
  <2>1. \A i \in 1..n : n - i \in Nat
    OBVIOUS
  <2>2. \A i \in 1..n : D(n - i) % b \in Nat
    BY <1>4, <2>1
  <2> QED
    BY <1>5, <2>2
<1>7. bytes \in Seq(Nat) /\ Len(bytes) = n
  BY <1>6, IsASeq, LenProperties
<1>8. PICK v : /\ v = [i \in 0..n |-> ValueTurn(bytes, v, i)]
               /\ IntOf(bytes) = IF 2 * v[n] >= p THEN v[n] - p ELSE v[n]
  BY <1>1, <1>7, ValueIs
<1>9. PICK q \in Int : q = D(n)
  BY <1>4
<1> DEFINE Done == {i \in Nat : i <= n => v[i] = D(n - i) - q * Span(i)}
<1>10. 0 \in Done
  <2>1. v[0] = 0
    BY <1>8 DEF ValueTurn
  <2>2. n - 0 = n /\ q - q * 1 = 0
    OBVIOUS
  <2> QED
    BY <1>9, <2>1, <2>2, SpanStep
<1>11. ASSUME NEW i \in Nat, i \in Done PROVE i + 1 \in Done
  <2> SUFFICES ASSUME i + 1 <= n PROVE v[i + 1] = D(n - (i + 1)) - q * Span(i + 1)
    OBVIOUS
  <2>1. PICK j \in Nat : j = n - (i + 1)
    OBVIOUS
  <2>2. n - i = j + 1 /\ i <= n /\ i + 1 \in 1..n /\ i + 1 \in 0..n /\ i + 1 # 0
        /\ (i + 1) - 1 = i
    BY <2>1
  <2>3. PICK d \in Int, e \in Int, m \in Int, s \in Int :
           /\ d = D(j + 1) /\ e = D(j) /\ m = D(j) % b /\ s = Span(i)
           /\ e = b * d + m
    <3>1. /\ D(j) \in Int /\ D(j + 1) \in Int /\ D(j) % b \in 0..(b - 1)
          /\ D(j) = b * D(j + 1) + (D(j) % b)
      BY <1>4
    <3>2. D(j) % b \in Int
      BY <3>1
    <3>3. Span(i) \in Int
      BY SpanStep
    <3> QED
      BY <3>1, <3>2, <3>3, Zenon
  <2>4. v[i] = d - q * s
    BY <1>11, <2>2, <2>3
  <2>5. bytes[i + 1] = m
    BY <1>5, <2>1, <2>2, <2>3
  <2>6. v[i + 1] = v[i] * b + m
    BY <1>2, <1>8, <2>2, <2>5 DEF ValueTurn
  <2>7. PICK u \in Int : u = v[i]
    BY <2>4
  <2>8. u * b + m = e - q * (b * s)
    BY <2>3, <2>4, <2>7, OneTurn
  <2>9. Span(i + 1) = b * s
    BY <1>2, <2>3, SpanStep
  <2> QED
    BY <2>1, <2>3, <2>6, <2>7, <2>8, <2>9
<1>12. Nat \subseteq Done
  <2> HIDE DEF Done
  <2> QED
    BY <1>10, <1>11, Induction
<1>13. D(0) = a
  <2>1. a \div 1 = a
    BY <1>3
  <2> QED
    BY <2>1, SpanStep DEF D
<1>14. v[n] = a - q * p
  <2>1. n \in Done /\ n - n = 0 /\ n <= n
    BY <1>12
  <2> QED
    BY <1>1, <1>13, <2>1
<1>15. q = a \div p
  BY <1>1, <1>9 DEF D
<1>16. CASE x >= 0
  <2>1. x \in 0..(p - 1) /\ a = p * 1 + x /\ 2 * x < p
    BY <1>1, <1>16 DEF a
  <2>2. q = 1
    BY <1>3, <1>15, <2>1, QuotientUnique
  <2>3. v[n] = x
    BY <1>14, <2>1, <2>2
  <2> QED
    BY <1>7, <1>8, <2>1, <2>3 DEF bytes
<1>17. CASE x < 0
  <2>1. a \in 0..(p - 1) /\ a = p * 0 + a /\ 2 * a >= p /\ a - p = x
    BY <1>1, <1>17 DEF a
  <2>2. q = 0
    BY <1>3, <1>15, <2>1, QuotientUnique
  <2>3. v[n] = a
    BY <1>3, <1>14, <2>2
  <2> QED
    BY <1>7, <1>8, <2>1, <2>3 DEF bytes
<1> QED
  BY <1>16, <1>17

-----------------------------------------------------------------------------

BufferInv ==
    /\ bufferOK => Stores(buffer, content)
    /\ buffer.read >= KPrePrePend => bufferOK

LEMMA FreshBytes ==
    ASSUME content \in Seq(Nat), NEW n \in Nat
    PROVE  Fresh(n) \in Seq(Nat) /\ Len(Fresh(n)) = n
<1>1. PICK b \in Nat \ {0} : b = Base
  BY BufferAssumption
<1>2. content # <<>> => content[Len(content)] \in Nat
  <2>1. CASE content # <<>>
    <3>1. Len(content) \in 1..Len(content)
      BY <2>1, LenProperties, EmptySeq
    <3> QED
      BY <2>1, <3>1, ElementOfSeq
  <2> QED
    BY <2>1
<1>3. Fresh(n) = [i \in 1..n |-> (IF content = <<>> THEN i ELSE content[Len(content)] + i) % b]
  BY <1>1 DEF Fresh
<1>4. ASSUME NEW i \in 1..n
      PROVE  (IF content = <<>> THEN i ELSE content[Len(content)] + i) % b \in Nat
  <2>1. \A y \in Nat : y % b \in Nat
    OBVIOUS
  <2>2. (IF content = <<>> THEN i ELSE content[Len(content)] + i) \in Nat
    BY <1>2
  <2> QED
    BY <2>1, <2>2
<1>5. Fresh(n) \in [1..n -> Nat]
  BY <1>3, <1>4
<1> QED
  BY <1>5, IsASeq, LenProperties

LEMMA AppendBytesStep ==
    ASSUME BufferInv, bufferOK, NEW n \in Nat, AppendBytes(n) PROVE BufferInv'
<1>1. Stores(buffer, content)
  BY DEF BufferInv
<1>2. content \in Seq(Nat) /\ buffer.read \in Nat /\ KPrePrePend \in Nat
  BY <1>1, StoresParts
<1>3. Fresh(n) \in Seq(Nat) /\ Len(Fresh(n)) = n
  BY <1>2, FreshBytes
<1>4. CASE AssertsInMakeSpace(buffer, n)
  <2>1. ~bufferOK' /\ buffer' = buffer
    BY <1>4 DEF AppendBytes
  <2>2. ~(buffer.read >= KPrePrePend)
    BY <1>2, <1>4 DEF AssertsInMakeSpace
  <2> QED
    BY <2>1, <2>2 DEF BufferInv
<1>5. CASE ~AssertsInMakeSpace(buffer, n)
  <2>1. bufferOK' /\ buffer' = AppendData(buffer, Fresh(n)) /\ content' = content \o Fresh(n)
    BY <1>5 DEF AppendBytes
  <2>2. Stores(AppendData(buffer, Fresh(n)), content \o Fresh(n))
    BY <1>1, <1>3, <1>5, AppendStores
  <2> QED
    BY <2>1, <2>2 DEF BufferInv, Stores
<1> QED
  BY <1>4, <1>5

LEMMA ReadFromFdStep ==
    ASSUME BufferInv, bufferOK, NEW n \in Nat, ReadFromFd(n) PROVE BufferInv'
<1>1. Stores(buffer, content)
  BY DEF BufferInv
<1>2. content \in Seq(Nat) /\ buffer.read \in Nat /\ KPrePrePend \in Nat
  BY <1>1, StoresParts
<1>3. Fresh(n) \in Seq(Nat) /\ Len(Fresh(n)) = n
  BY <1>2, FreshBytes
<1>4. CASE n > Writable(buffer) /\ buffer.read < KPrePrePend
  <2>1. ~bufferOK' /\ buffer' = buffer
    BY <1>4 DEF ReadFromFd
  <2>2. ~(buffer.read >= KPrePrePend)
    BY <1>2, <1>4
  <2> QED
    BY <2>1, <2>2 DEF BufferInv
<1>5. CASE ~(n > Writable(buffer) /\ buffer.read < KPrePrePend)
  <2>1. bufferOK' /\ buffer' = ReadFd(buffer, Fresh(n)) /\ content' = content \o Fresh(n)
    BY <1>5 DEF ReadFromFd
  <2>2. n > Writable(buffer) => KPrePrePend <= buffer.read
    BY <1>2, <1>5
  <2>3. Stores(ReadFd(buffer, Fresh(n)), content \o Fresh(n))
    BY <1>1, <1>3, <2>2, ReadStores
  <2> QED
    BY <2>1, <2>3 DEF BufferInv, Stores
<1> QED
  BY <1>4, <1>5

LEMMA RetrieveStep ==
    ASSUME BufferInv, bufferOK, NEW n \in Nat, RetrieveBytes(n) PROVE BufferInv'
<1>1. Stores(buffer, content)
  BY DEF BufferInv
<1>2. /\ n <= Readable(buffer) /\ buffer' = Retrieve(buffer, n) /\ bufferOK'
      /\ content' = SubSeq(content, n + 1, Len(content))
  BY DEF RetrieveBytes
<1>3. Stores(Retrieve(buffer, n), SubSeq(content, n + 1, Len(content)))
  BY <1>1, <1>2, RetrieveTakes
<1> QED
  BY <1>2, <1>3 DEF BufferInv, Stores

LEMMA PrependStep ==
    ASSUME BufferInv, bufferOK, NEW n \in Nat, n >= 1, PrependInt(n) PROVE BufferInv'
<1>1. Stores(buffer, content)
  BY DEF BufferInv
<1>2. PICK x \in {0, 1, -1, Span(n) \div 2 - 1, -(Span(n) \div 2)} :
         /\ buffer' = Prepend(buffer, BytesOf(x, n))
         /\ content' = BytesOf(x, n) \o content
         /\ bufferOK' = (IntOf(SubSeq(Contents(buffer'), 1, n)) = x)
  BY DEF PrependInt
<1>3. n <= buffer.read
  BY DEF PrependInt
<1>4. x \in Int /\ -Span(n) <= 2 * x /\ 2 * x < Span(n)
  <2>1. PICK b \in Nat : b = Base /\ b >= 4
    BY BufferAssumption
  <2>11. PICK s \in Nat \ {0} : s = Span(n - 1)
    <3>1. n - 1 \in Nat
      OBVIOUS
    <3> QED
      BY <3>1, SpanStep
  <2>2. PICK p \in Nat : p = Span(n)
    BY SpanStep
  <2>3. p = b * s
    <3>1. n - 1 \in Nat /\ (n - 1) + 1 = n
      OBVIOUS
    <3> QED
      BY <2>1, <2>11, <2>2, <3>1, SpanStep
  <2>4. p >= 4
    <3>1. b * 1 <= b * s
      BY ProductsOrdered
    <3> QED
      BY <2>1, <2>3, <3>1
  <2>5. PICK h \in Int : h = p \div 2 /\ 2 * h <= p /\ p <= 2 * h + 1
    OBVIOUS
  <2>6. x \in {0, 1, -1, h - 1, -h}
    BY <1>2, <2>2, <2>5
  <2>7. x \in Int /\ -p <= 2 * x /\ 2 * x < p
    BY <2>4, <2>5, <2>6
  <2> QED
    BY <2>2, <2>7
<1> DEFINE data == BytesOf(x, n)
<1>5. data \in Seq(Nat) /\ Len(data) = n /\ IntOf(data) = x
  BY <1>4, IntegersReturn
<1> HIDE DEF data
<1>6. Stores(Prepend(buffer, data), data \o content)
  BY <1>1, <1>3, <1>5, PrependStores
<1>7. Contents(buffer') = data \o content
  BY <1>2, <1>6, ContentsStored DEF data
<1>8. SubSeq(data \o content, 1, n) = data
  <2>1. content \in Seq(Nat)
    BY <1>1, StoresParts
  <2>2. SubSeq(data \o content, 1, Len(data)) = SubSeq(data, 1, Len(data))
    BY <1>5, <2>1, SubSeqOfConcat1
  <2> QED
    BY <1>5, <2>2, SubSeqFull
<1>9. bufferOK'
  BY <1>2, <1>5, <1>7, <1>8
<1> QED
  BY <1>2, <1>6, <1>9 DEF BufferInv, Stores, data

LEMMA NewStores ==
    Stores(NewBuffer, <<>>) /\ NewBuffer.read = KPrePrePend /\ NewBuffer.write = KPrePrePend
<1>1. PICK p \in Nat, z \in Nat : p = KPrePrePend /\ z = KPrePrePend + InitialSize /\ p <= z
  BY BufferAssumption
<1> DEFINE mem == [i \in 1..z |-> Garbage]
<1>2. mem \in [1..z -> Nat]
  BY BufferAssumption DEF Garbage
<1>3. NewBuffer = [mem |-> mem, read |-> p, write |-> p]
  BY <1>1 DEF NewBuffer
<1> HIDE DEF mem
<1>4. mem \in Seq(Nat) /\ Len(mem) = z
  BY <1>2, IsASeq, LenProperties
<1>5. /\ NewBuffer \in BufferType /\ NewBuffer.mem = mem /\ NewBuffer.read = p
      /\ NewBuffer.write = p
  BY <1>3, <1>4 DEF BufferType
<1>6. <<>> \in Seq(Nat) /\ Len(<<>>) = 0 /\ p - p = 0 /\ \A i \in 1..0 : FALSE
  OBVIOUS
<1> QED
  BY <1>1, <1>4, <1>5, <1>6 DEF Stores

LEMMA EmptyStores == BufferInit => BufferInv
  BY NewStores DEF BufferInit, BufferInv

(* For every size of the vector, of the header room and of a byte, and any  *)
(* sequence of append(), readFd(), retrieve() and prependInt(): the         *)
(* readable bytes are those written and not yet retrieved, an integer that  *)
(* was written in front is read back, and makeSpace() asserts only behind a *)
(* header (BufferKeepsBytes).                                               *)
THEOREM BytesAreKept == BufferSpec => []BufferKeepsBytes
<1>1. BufferInit => BufferInv
  BY EmptyStores
<1>2. BufferInv /\ [BufferNext]_bufferVars => BufferInv'
  <2> SUFFICES ASSUME BufferInv, [BufferNext]_bufferVars PROVE BufferInv'
    OBVIOUS
  <2>1. CASE BufferNext
    <3>1. PICK n \in 1..MaxBytes :
             AppendBytes(n) \/ PrependInt(n) \/ RetrieveBytes(n) \/ ReadFromFd(n)
      BY <2>1 DEF BufferNext
    <3>2. n \in Nat /\ n >= 1
      BY BufferAssumption
    <3>3. bufferOK
      BY <2>1 DEF BufferNext
    <3> QED
      BY <3>1, <3>2, <3>3, AppendBytesStep, PrependStep, RetrieveStep, ReadFromFdStep
  <2>2. CASE UNCHANGED bufferVars
    BY <2>2 DEF bufferVars, BufferInv, Stores
  <2> QED
    BY <2>1, <2>2
<1>3. BufferInv => BufferKeepsBytes
  BY ContentsStored, StoresParts DEF BufferInv, BufferKeepsBytes
<1> QED
  BY <1>1, <1>2, <1>3, PTL DEF BufferSpec

-----------------------------------------------------------------------------
(* IdleEcho: IdleClosedInTime for every size of the wheel.  The property    *)
(* speaks of a count of ticks; the invariant says where on the wheel that   *)
(* count puts the last bucket that owns the entry.                          *)

IdleTyped ==
    /\ buckets \in Seq(SUBSET Peers) /\ Len(buckets) <= IdleSeconds
    /\ peer \in [Peers -> {"out", "up", "shut", "closed"}]
    /\ quiet \in [Peers -> 0..IdleSeconds]

(* The last bucket of list that owns p is n ticks old.                      *)
OwnedFor(list, p, n) ==
    /\ n < Len(list)
    /\ p \in list[Len(list) - n]
    /\ \A j \in 1..Len(list) : p \in list[j] => j <= Len(list) - n

IdleInv ==
    /\ IdleTyped
    /\ \A p \in Peers : peer[p] = "up" => OwnedFor(buckets, p, quiet[p])

\* What an insertion into the last bucket changes
LEMMA Inserted ==
    ASSUME NEW p \in Peers, IdleTyped, buckets # <<>>
    PROVE  /\ InsertBack(p) \in Seq(SUBSET Peers)
           /\ Len(InsertBack(p)) = Len(buckets) /\ Len(buckets) \in Nat \ {0}
           /\ \A i \in 1..Len(buckets) :
                 InsertBack(p)[i] = IF i = Len(buckets) THEN buckets[i] \cup {p} ELSE buckets[i]
<1>1. PICK n \in Nat \ {0} : n = Len(buckets) /\ DOMAIN buckets = 1..n
  BY EmptySeq, LenProperties DEF IdleTyped
<1>2. /\ buckets \in [1..n -> SUBSET Peers]
      /\ InsertBack(p) = [i \in 1..n |-> IF i = n THEN buckets[i] \cup {p} ELSE buckets[i]]
  BY <1>1, LenProperties DEF InsertBack, IdleTyped
<1>3. InsertBack(p) \in [1..n -> SUBSET Peers]
  BY <1>2
<1>4. InsertBack(p) \in Seq(SUBSET Peers) /\ Len(InsertBack(p)) = n
  BY <1>3, SeqDef, LenProperties
<1> QED
  BY <1>1, <1>2, <1>4

\* A message or a connection puts the entry into the last bucket, and leaves the
\* entries of the others where they are.
LEMMA InsertKeeps ==
    ASSUME NEW p \in Peers, IdleTyped, buckets # <<>>
    PROVE  /\ OwnedFor(InsertBack(p), p, 0)
           /\ \A q \in Peers \ {p}, n \in Nat :
                 OwnedFor(buckets, q, n) => OwnedFor(InsertBack(p), q, n)
<1> DEFINE list == InsertBack(p)
<1>1. PICK m \in Nat \ {0} : m = Len(buckets)
  BY Inserted
<1>2. Len(list) = m /\ \A i \in 1..m : list[i] = IF i = m THEN buckets[i] \cup {p} ELSE buckets[i]
  BY <1>1, Inserted
<1> HIDE DEF list
<1>3. OwnedFor(list, p, 0)
  BY <1>2 DEF OwnedFor
<1>4. ASSUME NEW q \in Peers \ {p}, NEW n \in Nat, OwnedFor(buckets, q, n)
      PROVE  OwnedFor(list, q, n)
  <2>1. n < m /\ q \in buckets[m - n] /\ \A j \in 1..m : q \in buckets[j] => j <= m - n
    BY <1>1, <1>4 DEF OwnedFor
  <2>2. m - n \in 1..m /\ \A i \in 1..m : q \in list[i] <=> q \in buckets[i]
    BY <1>2, <2>1
  <2> QED
    BY <1>2, <2>1, <2>2 DEF OwnedFor
<1> QED
  BY <1>3, <1>4 DEF list

\* The wheel after a tick: one more bucket, or the first one gone
LEMMA Turned ==
    ASSUME IdleTyped
    PROVE  /\ PushBack({}) \in Seq(SUBSET Peers)
           /\ Len(buckets) < IdleSeconds =>
                 /\ Len(PushBack({})) = Len(buckets) + 1
                 /\ \A i \in 1..Len(buckets) : PushBack({})[i] = buckets[i]
           /\ Len(buckets) = IdleSeconds =>
                 /\ Len(PushBack({})) = Len(buckets)
                 /\ \A i \in 1..(Len(buckets) - 1) : PushBack({})[i] = buckets[i + 1]
           /\ PushBack({})[Len(PushBack({}))] = {}
<1>1. PICK n \in Nat : n = Len(buckets)
  BY LenProperties DEF IdleTyped
<1>2. {} \in SUBSET Peers /\ buckets \in Seq(SUBSET Peers) /\ n <= IdleSeconds
  BY <1>1 DEF IdleTyped
<1>3. CASE n < IdleSeconds
  BY <1>1, <1>2, <1>3, AppendProperties, IdleAssumption DEF PushBack
<1>4. CASE n = IdleSeconds
  <2>1. buckets # <<>> /\ n # 0
    BY <1>1, <1>4, EmptySeq, IdleAssumption
  <2>2. PushBack({}) = Append(Tail(buckets), {})
    BY <1>1, <1>4, IdleAssumption DEF PushBack
  <2>3. /\ Tail(buckets) \in Seq(SUBSET Peers) /\ Len(Tail(buckets)) = n - 1
        /\ \A i \in 1..(n - 1) : Tail(buckets)[i] = buckets[i + 1]
    BY <1>1, <1>2, <2>1, HeadTailProperties
  <2> HIDE DEF PushBack
  <2> QED
    BY <1>1, <1>2, <1>4, <2>1, <2>2, <2>3, AppendProperties
<1> QED
  BY <1>1, <1>2, <1>3, <1>4, IdleAssumption

LEMMA OwnedWhere ==
    ASSUME NEW list \in Seq(SUBSET Peers), NEW p
    PROVE  p \in Owned(list) <=> \E i \in 1..Len(list) : p \in list[i]
<1>1. DOMAIN list = 1..Len(list)
  BY LenProperties
<1> QED
  BY <1>1 DEF Owned

\* A tick moves the last bucket of an entry by one tick, and out of the wheel
\* when it was idleSeconds ticks old.
LEMMA TurnKeeps ==
    ASSUME IdleTyped, NEW p \in Peers, NEW n \in Nat, OwnedFor(buckets, p, n)
    PROVE  /\ n < IdleSeconds /\ p \in Owned(buckets)
           /\ n + 1 < IdleSeconds => p \in Owned(PushBack({})) /\ OwnedFor(PushBack({}), p, n + 1)
           /\ n + 1 = IdleSeconds => p \notin Owned(PushBack({}))
<1> DEFINE list == PushBack({})
<1>0. list \in Seq(SUBSET Peers) /\ buckets \in Seq(SUBSET Peers)
  BY Turned DEF IdleTyped
<1>1. PICK m \in Nat : m = Len(buckets)
  BY LenProperties DEF IdleTyped
<1>2. PICK z \in Nat \ {0} : z = IdleSeconds
  BY IdleAssumption
<1>3. m <= z /\ n < m /\ p \in buckets[m - n] /\ \A j \in 1..m : p \in buckets[j] => j <= m - n
  BY <1>1, <1>2 DEF OwnedFor, IdleTyped
<1>4. PICK k \in Nat : k = Len(list)
  BY <1>0, LenProperties
<1>5. /\ m < z => k = m + 1 /\ \A i \in 1..m : list[i] = buckets[i]
      /\ m = z => k = m /\ \A i \in 1..(m - 1) : list[i] = buckets[i + 1]
      /\ list[k] = {}
  BY <1>1, <1>2, <1>4, Turned
<1> HIDE DEF list
<1>6. p \in Owned(buckets)
  <2>1. m - n \in 1..m
    BY <1>3
  <2> QED
    BY <1>0, <1>1, <1>3, <2>1, OwnedWhere
<1>7. CASE m < z
  <2>1. n + 1 < k /\ k - (n + 1) = m - n /\ m - n \in 1..m /\ m - n \in 1..k
    BY <1>3, <1>5, <1>7
  <2>2. p \in list[k - (n + 1)]
    BY <1>3, <1>5, <1>7, <2>1
  <2>3. ASSUME NEW j \in 1..k, p \in list[j] PROVE j <= k - (n + 1)
    <3>1. j \in 1..m
      BY <1>5, <1>7, <2>3
    <3> QED
      BY <1>3, <1>5, <1>7, <2>1, <2>3, <3>1
  <2>4. OwnedFor(list, p, n + 1)
    BY <1>4, <2>1, <2>2, <2>3 DEF OwnedFor
  <2>5. p \in Owned(list)
    BY <1>0, <1>4, <2>1, <2>2, OwnedWhere
  <2> QED
    BY <1>2, <1>3, <1>6, <1>7, <2>1, <2>4, <2>5 DEF list
<1>8. CASE m = z
  <2>1. ASSUME NEW j \in 1..k, p \in list[j] PROVE j \in 1..(m - 1) /\ j + 1 <= m - n
    <3>1. j \in 1..(m - 1) /\ j + 1 \in 1..m
      BY <1>5, <1>8, <2>1
    <3>2. p \in buckets[j + 1]
      BY <1>5, <1>8, <2>1, <3>1
    <3> QED
      BY <1>3, <3>1, <3>2
  <2>2. CASE n + 1 < z
    <3>1. /\ n + 1 < k /\ k - (n + 1) \in 1..(m - 1) /\ k - (n + 1) \in 1..k
          /\ (k - (n + 1)) + 1 = m - n
      BY <1>3, <1>5, <1>8, <2>2
    <3>2. p \in list[k - (n + 1)]
      BY <1>3, <1>5, <1>8, <3>1
    <3>3. \A j \in 1..k : p \in list[j] => j <= k - (n + 1)
      BY <1>5, <1>8, <2>1
    <3>4. OwnedFor(list, p, n + 1)
      BY <1>4, <3>1, <3>2, <3>3 DEF OwnedFor
    <3>5. p \in Owned(list)
      BY <1>0, <1>4, <3>1, <3>2, OwnedWhere
    <3> QED
      BY <1>2, <1>3, <1>6, <2>2, <3>4, <3>5 DEF list
  <2>3. CASE n + 1 = z
    <3>1. \A j \in 1..k : p \notin list[j]
      BY <1>8, <2>1, <2>3
    <3>2. p \notin Owned(list)
      BY <1>0, <1>4, <3>1, OwnedWhere
    <3> QED
      BY <1>2, <1>3, <1>6, <2>3, <3>2 DEF list
  <2> QED
    BY <1>3, <1>8, <2>2, <2>3
<1> QED
  BY <1>3, <1>7, <1>8

\* What IdleClosedInTime says of one step, for one connection
InTime(p) ==
    (peer[p] = "up" /\ peer'[p] # "closed") => (peer'[p] = "shut" <=> quiet'[p] = IdleSeconds)

LEMMA TickInTime ==
    ASSUME IdleInv, OnTime
    PROVE  IdleInv' /\ \A p \in Peers : InTime(p)
<1>1. IdleTyped /\ buckets' = PushBack({})
  BY DEF IdleInv, OnTime
<1>2. IdleTyped'
  <2>1. buckets' \in Seq(SUBSET Peers) /\ Len(buckets') <= IdleSeconds
    <3>1. PICK n \in Nat : n = Len(buckets)
      BY <1>1, LenProperties DEF IdleTyped
    <3> QED
      BY <1>1, <3>1, Turned, IdleAssumption DEF IdleTyped
  <2>2. peer' \in [Peers -> {"out", "up", "shut", "closed"}]
    BY <1>1, Zenon DEF OnTime, IdleTyped
  <2>3. quiet' \in [Peers -> 0..IdleSeconds]
    <3>1. /\ quiet' = [p \in Peers |-> IF peer[p] = "up" /\ quiet[p] < IdleSeconds
                                       THEN quiet[p] + 1 ELSE quiet[p]]
          /\ quiet \in [Peers -> 0..IdleSeconds]
      BY <1>1, Zenon DEF OnTime, IdleTyped
    <3> QED
      BY <3>1, IdleAssumption
  <2> QED
    BY <2>1, <2>2, <2>3 DEF IdleTyped
<1>3. ASSUME NEW p \in Peers
      PROVE  (peer'[p] = "up" => OwnedFor(buckets', p, quiet'[p])) /\ InTime(p)
  <2>1. CASE peer[p] # "up"
    <3>1. peer'[p] = peer[p]
      BY <2>1, Zenon DEF OnTime
    <3> QED
      BY <2>1, <3>1, Zenon DEF InTime
  <2>2. CASE peer[p] = "up"
    <3>1. PICK n \in Nat : n = quiet[p]
      BY <1>1, IdleAssumption DEF IdleTyped
    <3>2. OwnedFor(buckets, p, n)
      BY <2>2, <3>1 DEF IdleInv
    <3>3. /\ n < IdleSeconds /\ p \in Owned(buckets)
          /\ n + 1 < IdleSeconds => p \in Owned(buckets') /\ OwnedFor(buckets', p, n + 1)
          /\ n + 1 = IdleSeconds => p \notin Owned(buckets')
      BY <1>1, <3>2, TurnKeeps
    <3>4. quiet'[p] = n + 1
      BY <2>2, <3>1, <3>3, Zenon DEF OnTime
    <3>5. /\ p \in Owned(buckets') => peer'[p] = "up"
          /\ p \notin Owned(buckets') => peer'[p] = "shut"
      BY <2>2, <3>3, Zenon DEF OnTime
    <3> QED
      BY <3>3, <3>4, <3>5, IdleAssumption DEF InTime
  <2> QED
    BY <2>1, <2>2
<1> QED
  BY <1>2, <1>3 DEF IdleInv

LEMMA InsertInTime ==
    ASSUME IdleInv, NEW p \in Peers, buckets' = InsertBack(p), buckets # <<>>,
           NEW s \in {"up", "shut"}, peer' = [peer EXCEPT ![p] = s], s # "up" => peer[p] = s,
           quiet' = [quiet EXCEPT ![p] = 0]
    PROVE  IdleInv' /\ \A q \in Peers : InTime(q)
<1>1. IdleTyped /\ IdleSeconds \in Nat \ {0}
  BY IdleAssumption DEF IdleInv
<1>2. IdleTyped'
  BY <1>1, Inserted DEF IdleTyped
<1>3. ASSUME NEW q \in Peers
      PROVE  (peer'[q] = "up" => OwnedFor(buckets', q, quiet'[q])) /\ InTime(q)
  <2>1. PICK n \in Nat : n = quiet[q] /\ (peer[q] = "up" => OwnedFor(buckets, q, n) /\ n < IdleSeconds)
    BY <1>1, LenProperties DEF IdleInv, IdleTyped, OwnedFor
  <2>2. CASE q = p
    BY <1>1, <2>2, InsertKeeps DEF InTime, IdleTyped
  <2>3. CASE q # p
    <3>1. peer'[q] = peer[q] /\ quiet'[q] = n
      BY <1>1, <2>1, <2>3 DEF IdleTyped
    <3> QED
      BY <1>1, <2>1, <2>3, <3>1, InsertKeeps DEF InTime
  <2> QED
    BY <2>2, <2>3
<1> QED
  BY <1>2, <1>3 DEF IdleInv

\* Nothing but the end of connections happens to the wheel or its counts.
LEMMA StillInTime ==
    ASSUME IdleInv, buckets' = buckets,
           peer' \in [Peers -> {"out", "up", "shut", "closed"}],
           quiet' \in [Peers -> 0..IdleSeconds],
           \A p \in Peers : peer[p] = "up" => quiet'[p] = quiet[p],
           \A p \in Peers : peer'[p] = peer[p] \/ peer'[p] = "closed"
    PROVE  IdleInv' /\ \A p \in Peers : InTime(p)
<1>1. IdleTyped /\ IdleTyped'
  BY DEF IdleInv, IdleTyped
<1>2. ASSUME NEW p \in Peers
      PROVE  (peer'[p] = "up" => OwnedFor(buckets', p, quiet'[p])) /\ InTime(p)
  <2>1. peer'[p] = "up" => peer[p] = "up"
    OBVIOUS
  <2>2. peer[p] = "up" => OwnedFor(buckets, p, quiet[p]) /\ quiet[p] < IdleSeconds
    BY <1>1, LenProperties, IdleAssumption DEF IdleInv, IdleTyped, OwnedFor
  <2>3. quiet[p] < IdleSeconds => quiet[p] # IdleSeconds
    BY <1>1, IdleAssumption DEF IdleTyped
  <2> QED
    BY <2>1, <2>2, <2>3 DEF InTime
<1> QED
  BY <1>1, <1>2 DEF IdleInv

\* A connection that is up has its entry in the wheel.
LEMMA UpIsOwned ==
    ASSUME IdleInv, NEW p \in Peers, peer[p] = "up"
    PROVE  p \in Owned(buckets) /\ buckets # <<>>
<1>1. PICK n \in Nat : n = quiet[p]
  BY IdleAssumption DEF IdleInv, IdleTyped
<1>2. OwnedFor(buckets, p, n) /\ IdleTyped
  BY <1>1 DEF IdleInv
<1> QED
  BY <1>2, TurnKeeps DEF OwnedFor

LEMMA IdleStep ==
    ASSUME IdleInv, [IdleNext]_idleVars
    PROVE  IdleInv' /\ \A p \in Peers : InTime(p)
<1>0. /\ peer \in [Peers -> {"out", "up", "shut", "closed"}] /\ quiet \in [Peers -> 0..IdleSeconds]
      /\ 0 \in 0..IdleSeconds
  BY IdleAssumption DEF IdleInv, IdleTyped
<1>1. CASE OnTime
  BY <1>1, TickInTime
<1>2. CASE UNCHANGED idleVars
  BY <1>0, <1>2, StillInTime DEF idleVars
<1>3. ASSUME NEW p \in Peers, OnConnectionUp(p) PROVE IdleInv' /\ \A q \in Peers : InTime(q)
  <2>1. CASE buckets = <<>>
    BY <1>0, <1>3, <2>1, StillInTime DEF OnConnectionUp
  <2>2. CASE buckets # <<>>
    BY <1>3, <2>2, InsertInTime DEF OnConnectionUp
  <2> QED
    BY <2>1, <2>2
<1>4. ASSUME NEW p \in Peers, OnEcho(p) PROVE IdleInv' /\ \A q \in Peers : InTime(q)
  <2>1. /\ peer[p] \in {"up", "shut"} /\ peer' = peer /\ quiet' = [quiet EXCEPT ![p] = 0]
        /\ buckets' = IF p \in Owned(buckets) THEN InsertBack(p) ELSE buckets
    BY <1>4 DEF OnEcho
  <2>2. CASE p \in Owned(buckets)
    <3>1. buckets # <<>>
      BY <2>2 DEF Owned
    <3>2. peer' = [peer EXCEPT ![p] = peer[p]]
      BY <1>0, <2>1
    <3> QED
      BY <2>1, <2>2, <3>1, <3>2, InsertInTime
  <2>3. CASE p \notin Owned(buckets)
    <3>1. peer[p] = "shut" /\ buckets' = buckets
      BY <2>1, <2>3, UpIsOwned
    <3>2. quiet' \in [Peers -> 0..IdleSeconds] /\ \A q \in Peers : peer[q] = "up" => quiet'[q] = quiet[q]
      BY <1>0, <2>1, <3>1
    <3> QED
      BY <1>0, <2>1, <3>1, <3>2, StillInTime
  <2> QED
    BY <2>2, <2>3
<1>5. ASSUME NEW p \in Peers, OnConnectionDown(p) PROVE IdleInv' /\ \A q \in Peers : InTime(q)
  <2>1. peer' = [peer EXCEPT ![p] = "closed"] /\ UNCHANGED <<buckets, quiet>>
    BY <1>5 DEF OnConnectionDown
  <2>2. /\ peer' \in [Peers -> {"out", "up", "shut", "closed"}]
        /\ \A q \in Peers : peer'[q] = peer[q] \/ peer'[q] = "closed"
    BY <1>0, <2>1
  <2> QED
    BY <1>0, <2>1, <2>2, StillInTime
<1> QED
  BY <1>1, <1>2, <1>3, <1>4, <1>5 DEF IdleNext

\* For every number of seconds and any connections, a connection is shut down by
\* the very tick that makes it idle for idleSeconds ticks.
THEOREM IdleAreClosedInTime == IdleSpec => IdleClosedInTime
<1>1. IdleInit => IdleInv
  <2> SUFFICES ASSUME IdleInit PROVE IdleInv
    OBVIOUS
  <2>1. buckets \in Seq(SUBSET Peers) /\ Len(buckets) = 0
    BY EmptySeq DEF IdleInit
  <2> QED
    BY <2>1, IdleAssumption DEF IdleInit, IdleInv, IdleTyped
<1>2. IdleInv /\ [IdleNext]_idleVars => IdleInv'
  BY IdleStep
<1>3. IdleInv /\ [IdleNext]_idleVars
      => [\A p \in Peers : (peer[p] = "up" /\ peer'[p] # "closed")
             => (peer'[p] = "shut" <=> quiet'[p] = IdleSeconds)]_idleVars
  BY IdleStep DEF InTime
<1> QED
  BY <1>1, <1>2, <1>3, PTL DEF IdleSpec, IdleClosedInTime

-----------------------------------------------------------------------------
(* Sequences of sequences: FlattenSeq() joins, and joins what is joined.    *)

Three(S, p, q, r) == p \in Seq(S) /\ q \in Seq(S) /\ r \in Seq(S)

LEMMA Regroup ==
    ASSUME NEW S, NEW p, NEW q, NEW r, Three(S, p, q, r)
    PROVE  (p \o q) \o r = p \o (q \o r)
<1>1. p \in Seq(S) /\ q \in Seq(S) /\ r \in Seq(S)
  BY DEF Three
<1> QED
  BY <1>1, ConcatAssociative

\* Induction over sequences, for a set instead of a predicate
LEMMA SequenceInduction ==
    ASSUME NEW S, NEW P, <<>> \in P,
           \A s \in Seq(S), e \in S : s \in P => Append(s, e) \in P
    PROVE  Seq(S) \subseteq P
<1> DEFINE Long == {n \in Nat : \A s \in Seq(S) : Len(s) = n => s \in P}
<1>1. 0 \in Long
  <2>1. \A s \in Seq(S) : Len(s) = 0 => s = <<>>
    BY EmptySeq
  <2> QED
    BY <2>1
<1>2. ASSUME NEW n \in Nat, n \in Long PROVE n + 1 \in Long
  <2>1. n + 1 \in Nat /\ n + 1 # 0
    BY SMT
  <2>2. ASSUME NEW s \in Seq(S), Len(s) = n + 1 PROVE s \in P
    <3>1. s # <<>>
      BY <2>1, <2>2, EmptySeq
    <3>2. PICK u \in Seq(S), e \in S : s = Append(u, e)
      BY <3>1, SequenceEmptyOrAppend
    <3>3. Len(s) = Len(u) + 1 /\ Len(u) \in Nat
      BY <3>2, AppendProperties, LenProperties
    <3>4. Len(u) = n
      BY SMT, <2>2, <3>3
    <3> QED
      BY <1>2, <3>2, <3>4
  <2> QED
    BY <2>1, <2>2
<1>3. Nat \subseteq Long
  <2> HIDE DEF Long
  <2> QED
    BY <1>1, <1>2, Induction, Zenon
<1> QED
  BY <1>3, LenProperties

\* The recursion of FlattenSeq defines a function.
FlatTurn(s, f, i) == IF i = 1 THEN s[i] ELSE f[i - 1] \o s[i]

LEMMA FlatExists == ASSUME NEW s PROVE \A n \in Nat : \E f : f = [i \in 1..n |-> FlatTurn(s, f, i)]
<1> DEFINE Defined == {n \in Nat : \E f : f = [i \in 1..n |-> FlatTurn(s, f, i)]}
<1>1. 0 \in Defined
  <2> DEFINE f == [i \in 1..0 |-> s[i]]
  <2>1. 1..0 = {}
    BY SMT
  <2>2. f = [i \in 1..0 |-> FlatTurn(s, f, i)]
    BY <2>1
  <2> QED
    BY <2>2, Zenon
<1>2. ASSUME NEW n \in Nat, n \in Defined PROVE n + 1 \in Defined
  <2>1. PICK f : f = [i \in 1..n |-> FlatTurn(s, f, i)]
    BY <1>2
  <2> DEFINE g == [i \in 1..(n + 1) |-> IF i = n + 1 THEN FlatTurn(s, f, n + 1) ELSE f[i]]
  <2>2. ASSUME NEW i \in 1..(n + 1) PROVE g[i] = FlatTurn(s, g, i)
    <3>1. i # 1 => g[i - 1] = f[i - 1]
      <4>1. i # 1 => i - 1 \in 1..(n + 1) /\ i - 1 # n + 1
        BY SMT
      <4> QED
        BY <4>1
    <3>2. FlatTurn(s, g, i) = FlatTurn(s, f, i)
      <4> HIDE DEF g
      <4> QED
        BY <3>1, Zenon DEF FlatTurn
    <3>3. i # n + 1 => i \in 1..n
      BY SMT
    <3>4. i # n + 1 => f[i] = FlatTurn(s, f, i)
      BY <2>1, <3>3, Zenon
    <3>5. g[i] = IF i = n + 1 THEN FlatTurn(s, f, n + 1) ELSE f[i]
      OBVIOUS
    <3> HIDE DEF g
    <3> QED
      BY <3>2, <3>4, <3>5, Zenon
  <2>3. g = [i \in 1..(n + 1) |-> FlatTurn(s, g, i)]
    BY <2>2, Zenon
  <2>4. n + 1 \in Nat
    BY SMT
  <2> HIDE DEF g
  <2> QED
    BY <2>3, <2>4, Zenon
<1>3. Nat \subseteq Defined
  <2> HIDE DEF Defined
  <2> QED
    BY <1>1, <1>2, Induction, Zenon
<1> QED
  BY <1>3

\* f holds what is joined of the first n.
Joins(s, f, n) ==
    /\ (n \in Nat /\ n >= 1) => f[1] = s[1]
    /\ \A i \in Nat : 1 <= i /\ i < n => f[i + 1] = f[i] \o s[i + 1]

LEMMA FlattenIs ==
    ASSUME NEW s, NEW n \in Nat, Len(s) = n, n # 0
    PROVE  \E f : Joins(s, f, n) /\ FlattenSeq(s) = f[n]
<1> DEFINE f == CHOOSE h : h = [i \in 1..n |-> FlatTurn(s, h, i)]
<1>1. f = [i \in 1..n |-> FlatTurn(s, f, i)]
  BY FlatExists, Zenon
<1>2. FlattenSeq(s) = f[n]
  BY Zenon DEF FlattenSeq, FlatTurn
<1> HIDE DEF f
<1>3. f[1] = s[1]
  <2>1. 1 \in 1..n
    BY SMT
  <2> QED
    BY <1>1, <2>1 DEF FlatTurn
<1>4. ASSUME NEW i \in Nat, 1 <= i, i < n PROVE f[i + 1] = f[i] \o s[i + 1]
  <2>1. i + 1 \in 1..n /\ i + 1 # 1 /\ (i + 1) - 1 = i
    BY SMT, <1>4
  <2>2. f[i + 1] = FlatTurn(s, f, i + 1)
    BY <1>1, <2>1, Zenon
  <2> QED
    BY <2>1, <2>2, Zenon DEF FlatTurn
<1>5. Joins(s, f, n)
  BY <1>3, <1>4, Zenon DEF Joins
<1> QED
  BY <1>2, <1>5

LEMMA FlattenEmpty == FlattenSeq(<<>>) = <<>>
  BY EmptySeq DEF FlattenSeq

LEMMA FlattenAppend ==
    ASSUME NEW S, NEW parts \in Seq(Seq(S)), NEW p \in Seq(S)
    PROVE  FlattenSeq(Append(parts, p)) = FlattenSeq(parts) \o p
<1>0. PICK n \in Nat : n = Len(parts)
  BY LenProperties
<1>1. PICK s : n = Len(parts) /\ s = Append(parts, p)
  BY <1>0
<1>2. /\ Len(s) = n + 1 /\ n + 1 \in Nat /\ n + 1 # 0 /\ s[n + 1] = p
      /\ \A i \in 1..n : s[i] = parts[i]
  <2>1. /\ Len(s) = n + 1 /\ s[n + 1] = p
        /\ \A i \in 1..n : s[i] = parts[i]
    BY <1>1, AppendProperties
  <2> QED
    BY SMT, <2>1
<1>3. PICK h : Joins(s, h, n + 1) /\ FlattenSeq(s) = h[n + 1]
  BY <1>2, FlattenIs, Zenon
<1>4. CASE n = 0
  <2>1. parts = <<>>
    BY <1>1, <1>4, EmptySeq
  <2>2. n + 1 = 1 /\ n + 1 >= 1
    BY SMT, <1>4
  <2>3. h[n + 1] = p
    BY <1>2, <1>3, <2>2, Zenon DEF Joins
  <2> QED
    BY <1>1, <1>3, <2>1, <2>3, FlattenEmpty, ConcatEmptySeq
<1>5. CASE n # 0
  <2>1. PICK f : Joins(parts, f, n) /\ FlattenSeq(parts) = f[n]
    BY <1>1, <1>5, FlattenIs
  <2> DEFINE Same == {i \in Nat : 1 <= i /\ i <= n => h[i] = f[i]}
  <2>2. 0 \in Same
    BY SMT
  <2>3. ASSUME NEW i \in Nat, i \in Same PROVE i + 1 \in Same
    <3> SUFFICES ASSUME i + 1 <= n PROVE h[i + 1] = f[i + 1]
      BY SMT
    <3>1. CASE i = 0
      <4>1. i + 1 = 1 /\ n >= 1 /\ n + 1 >= 1 /\ 1 \in 1..n
        BY SMT, <3>1
      <4>2. h[1] = s[1] /\ f[1] = parts[1]
        BY <1>2, <1>3, <2>1, <4>1, Zenon DEF Joins
      <4> QED
        BY <1>2, <4>1, <4>2, Zenon
    <3>2. CASE i # 0
      <4>1. 1 <= i /\ i <= n /\ i < n /\ i < n + 1 /\ i + 1 \in 1..n
        BY SMT, <3>2
      <4>2. h[i + 1] = h[i] \o s[i + 1] /\ f[i + 1] = f[i] \o parts[i + 1]
        BY <1>3, <2>1, <4>1, Zenon DEF Joins
      <4> QED
        BY <1>2, <2>3, <4>1, <4>2, Zenon
    <3> QED
      BY <3>1, <3>2
  <2>4. Nat \subseteq Same
    <3> HIDE DEF Same
    <3> QED
      BY <2>2, <2>3, Induction, Zenon
  <2>5. 1 <= n /\ n <= n /\ n < n + 1
    BY SMT, <1>5
  <2>6. h[n] = f[n]
    BY <2>4, <2>5, Zenon
  <2>7. h[n + 1] = h[n] \o s[n + 1]
    BY <1>3, <2>5, Zenon DEF Joins
  <2> QED
    BY <1>1, <1>2, <1>3, <2>1, <2>6, <2>7, Zenon
<1> QED
  BY <1>4, <1>5

LEMMA FlattenType ==
    ASSUME NEW S
    PROVE  \A parts \in Seq(Seq(S)) : FlattenSeq(parts) \in Seq(S)
<1> DEFINE P == {parts \in Seq(Seq(S)) : FlattenSeq(parts) \in Seq(S)}
<1>1. <<>> \in P
  BY FlattenEmpty, EmptySeq
<1>2. ASSUME NEW s \in Seq(Seq(S)), NEW e \in Seq(S), s \in P PROVE Append(s, e) \in P
  <2>1. FlattenSeq(Append(s, e)) = FlattenSeq(s) \o e
    BY FlattenAppend
  <2>2. Append(s, e) \in Seq(Seq(S))
    BY AppendProperties
  <2> QED
    BY <1>2, <2>1, <2>2, ConcatProperties
<1>3. Seq(Seq(S)) \subseteq P
  <2> HIDE DEF P
  <2> QED
    BY <1>1, <1>2, SequenceInduction, Zenon
<1> QED
  BY <1>3

LEMMA FlattenConcat ==
    ASSUME NEW S, NEW a \in Seq(Seq(S))
    PROVE  \A b \in Seq(Seq(S)) : FlattenSeq(a \o b) = FlattenSeq(a) \o FlattenSeq(b)
<1> DEFINE P == {b \in Seq(Seq(S)) : FlattenSeq(a \o b) = FlattenSeq(a) \o FlattenSeq(b)}
<1>1. <<>> \in P
  <2>1. a \o <<>> = a /\ <<>> \in Seq(Seq(S))
    BY ConcatEmptySeq, EmptySeq
  <2>2. FlattenSeq(a) \o <<>> = FlattenSeq(a)
    BY FlattenType, ConcatEmptySeq
  <2> QED
    BY <2>1, <2>2, FlattenEmpty
<1>2. ASSUME NEW b \in Seq(Seq(S)), NEW e \in Seq(S), b \in P PROVE Append(b, e) \in P
  <2>1. Append(b, e) \in Seq(Seq(S)) /\ a \o b \in Seq(Seq(S))
    BY AppendProperties, ConcatProperties
  <2>2. a \o Append(b, e) = Append(a \o b, e)
    <3>1. Append(b, e) = b \o <<e>> /\ Append(a \o b, e) = (a \o b) \o <<e>>
      BY <2>1, AppendIsConcat
    <3>2. <<e>> \in Seq(Seq(S))
      OBVIOUS
    <3>3. Three(Seq(S), a, b, <<e>>)
      BY <3>2, Zenon DEF Three
    <3>4. (a \o b) \o <<e>> = a \o (b \o <<e>>)
      BY <3>3, Regroup, SMTT(30)
    <3> QED
      BY <3>1, <3>4, Zenon
  <2>3. PICK x \in Seq(S), y \in Seq(S) : x = FlattenSeq(a) /\ y = FlattenSeq(b)
    BY FlattenType
  <2>4. FlattenSeq(Append(a \o b, e)) = FlattenSeq(a \o b) \o e /\ FlattenSeq(Append(b, e)) = y \o e
    BY <2>1, <2>3, FlattenAppend
  <2>5. FlattenSeq(a \o b) = x \o y
    BY <1>2, <2>3
  <2>6. (x \o y) \o e = x \o (y \o e)
    <3>1. Three(S, x, y, e)
      BY <2>3, Zenon DEF Three
    <3> QED
      BY <3>1, Regroup, SMTT(30)
  <2>7. FlattenSeq(a \o Append(b, e)) = FlattenSeq(a) \o FlattenSeq(Append(b, e))
    BY <2>2, <2>3, <2>4, <2>5, <2>6, Zenon
  <2> QED
    BY <2>1, <2>7, Zenon
<1>3. Seq(Seq(S)) \subseteq P
  <2> HIDE DEF P
  <2> QED
    BY <1>1, <1>2, SequenceInduction, Zenon
<1> QED
  BY <1>3

\* An operation on each element, as a function
Mapped(g, s) == [i \in DOMAIN s |-> g[s[i]]]

Maps(S, T, g, s) == g \in [S -> T] /\ s \in Seq(S)

Image(T, g, s, z) ==
    z \in Seq(T) /\ Len(z) = Len(s) /\ \A i \in 1..Len(s) : z[i] = g[s[i]]

LEMMA MappedType ==
    ASSUME NEW S, NEW T, NEW g, NEW s, Maps(S, T, g, s)
    PROVE  Image(T, g, s, Mapped(g, s))
<1>0. g \in [S -> T] /\ s \in Seq(S)
  BY DEF Maps
<1>1. PICK n \in Nat : n = Len(s) /\ DOMAIN s = 1..n
  BY <1>0, LenProperties
<1>2. \A i \in 1..n : s[i] \in S
  BY <1>0, <1>1, ElementOfSeq
<1> DEFINE q == Mapped(g, s)
<1>3. q = [i \in 1..n |-> g[s[i]]]
  BY <1>1 DEF Mapped
<1>4. q \in [1..n -> T]
  BY <1>0, <1>2, <1>3
<1> HIDE DEF q
<1>5. q \in Seq(T) /\ Len(q) = n
  BY <1>4, SeqDef, LenProperties
<1> QED
  BY <1>1, <1>3, <1>5 DEF q, Image

\* Two sequences, and what their concatenation ab is
Pair(S, a, b) == a \in Seq(S) /\ b \in Seq(S)

Follows(S, a, b, ab) ==
    /\ ab \in Seq(S) /\ Len(a) \in Nat /\ Len(b) \in Nat /\ Len(ab) = Len(a) + Len(b)
    /\ \A i \in 1..Len(a) : ab[i] = a[i]
    /\ \A i \in 1..Len(b) : ab[Len(a) + i] = b[i]

LEMMA ConcatIs ==
    ASSUME NEW S, NEW a, NEW b, Pair(S, a, b)
    PROVE  Follows(S, a, b, a \o b)
<1>0. a \in Seq(S) /\ b \in Seq(S)
  BY DEF Pair
<1>1. PICK m \in Nat : m = Len(a)
  BY <1>0, LenProperties
<1>2. PICK n \in Nat : n = Len(b)
  BY <1>0, LenProperties
<1>3. PICK ab : ab = a \o b
  OBVIOUS
<1>4. /\ ab \in Seq(S) /\ Len(ab) = m + n
      /\ \A i \in 1..(m + n) : ab[i] = IF i <= m THEN a[i] ELSE b[i - m]
  BY <1>0, <1>1, <1>2, <1>3, ConcatProperties
<1>5. \A i \in 1..m : ab[i] = a[i]
  BY SMT, <1>4
<1>6. ASSUME NEW i \in 1..n PROVE ab[m + i] = b[i]
  <2>1. m + i \in 1..(m + n) /\ ~(m + i <= m) /\ (m + i) - m = i
    BY SMT
  <2> QED
    BY <1>4, <2>1, Zenon
<1>7. Follows(S, a, b, ab)
  BY <1>1, <1>2, <1>4, <1>5, <1>6, Zenon DEF Follows
<1> QED
  BY <1>3, <1>7

LEMMA MappedConcat ==
    ASSUME NEW S, NEW T, NEW g, NEW a, NEW b, Maps(S, T, g, a), Maps(S, T, g, b)
    PROVE  Mapped(g, a \o b) = Mapped(g, a) \o Mapped(g, b)
<1>0. a \in Seq(S) /\ b \in Seq(S) /\ g \in [S -> T]
  BY DEF Maps
<1>1. PICK m \in Nat : m = Len(a)
  BY <1>0, LenProperties
<1>2. PICK n \in Nat : n = Len(b)
  BY <1>0, LenProperties
<1>3. PICK ab, x, y, xy, z :
         /\ ab = a \o b /\ x = Mapped(g, a) /\ y = Mapped(g, b) /\ xy = x \o y
         /\ z = Mapped(g, ab)
  OBVIOUS
<1>4. /\ ab \in Seq(S) /\ Len(ab) = m + n
      /\ \A i \in 1..m : ab[i] = a[i]
      /\ \A i \in 1..n : ab[m + i] = b[i]
  <2>1. Follows(S, a, b, ab)
    BY SMT, <1>0, <1>3, ConcatIs DEF Pair
  <2> QED
    BY <1>1, <1>2, <2>1, Zenon DEF Follows
<1>5. /\ x \in Seq(T) /\ Len(x) = m /\ \A i \in 1..m : x[i] = g[a[i]]
  <2>2. Image(T, g, a, x)
    BY SMT, <1>3, MappedType
  <2> QED
    BY <1>1, <2>2, Zenon DEF Image
<1>6. y \in Seq(T) /\ Len(y) = n /\ \A i \in 1..n : y[i] = g[b[i]]
  <2>2. Image(T, g, b, y)
    BY SMT, <1>3, MappedType
  <2> QED
    BY <1>2, <2>2, Zenon DEF Image
<1>7. z \in Seq(T) /\ Len(z) = m + n /\ \A i \in 1..(m + n) : z[i] = g[ab[i]]
  <2>1. Maps(S, T, g, ab)
    BY <1>0, <1>4 DEF Maps
  <2>2. Image(T, g, ab, z)
    BY SMT, <1>3, <2>1, MappedType
  <2> QED
    BY <1>4, <2>2, Zenon DEF Image
<1>8. /\ xy \in Seq(T) /\ Len(xy) = m + n
      /\ \A i \in 1..m : xy[i] = x[i]
      /\ \A i \in 1..n : xy[m + i] = y[i]
  <2>1. Follows(T, x, y, xy)
    BY SMT, <1>3, <1>5, <1>6, ConcatIs DEF Pair
  <2> QED
    BY <1>5, <1>6, <2>1, Zenon DEF Follows
<1>9. ASSUME NEW i \in 1..(m + n) PROVE z[i] = xy[i]
  <2>1. CASE i <= m
    <3>1. i \in 1..m
      BY SMT, <2>1
    <3>2. xy[i] = x[i] /\ ab[i] = a[i] /\ z[i] = g[ab[i]] /\ x[i] = g[a[i]]
      BY <1>4, <1>5, <1>7, <1>8, <3>1, Zenon
    <3> QED
      BY <3>2, Zenon
  <2>2. CASE ~(i <= m)
    <3>1. PICK j : j \in 1..n /\ i = m + j
      <4>1. i - m \in 1..n /\ i = m + (i - m)
        BY SMT, <2>2
      <4> QED
        BY <4>1, Zenon
    <3>2. xy[i] = y[j] /\ ab[i] = b[j] /\ z[i] = g[ab[i]] /\ y[j] = g[b[j]]
      BY <1>4, <1>6, <1>7, <1>8, <3>1, Zenon
    <3> QED
      BY <3>2, Zenon
  <2> QED
    BY <2>1, <2>2
<1>10. z = xy
  BY <1>7, <1>8, <1>9, SeqEqual, Zenon
<1> QED
  BY <1>3, <1>10, Zenon

LEMMA Singleton ==
    ASSUME NEW S, NEW x \in S
    PROVE  /\ <<x>> \in Seq(S) /\ Len(<<x>>) = 1 /\ <<x>>[1] = x /\ 1 \in 1..1
           /\ \A i \in 1..1 : i = 1
  OBVIOUS

LEMMA MappedOne ==
    ASSUME NEW S, NEW T, NEW g \in [S -> T], NEW x \in S
    PROVE  Mapped(g, <<x>>) = <<g[x]>>
<1>1. PICK y \in T : y = g[x]
  OBVIOUS
<1>0. PICK z : z = Mapped(g, <<x>>)
  OBVIOUS
<1>a. <<x>> \in Seq(S) /\ Len(<<x>>) = 1
  BY Singleton, Zenon
<1>2. z \in Seq(T) /\ Len(z) = 1 /\ \A i \in 1..1 : z[i] = g[<<x>>[i]]
  <2>1. Maps(S, T, g, <<x>>)
    BY <1>a DEF Maps
  <2>2. Image(T, g, <<x>>, z)
    BY SMT, <1>0, <2>1, MappedType
  <2> QED
    BY <1>a, <2>2, Zenon DEF Image
<1>3. z[1] = y
  BY <1>1, <1>2, Singleton, Zenon
<1>4. <<y>> \in Seq(T) /\ Len(<<y>>) = 1 /\ <<y>>[1] = y
  BY Singleton, Zenon
<1>5. \A i \in 1..1 : z[i] = <<y>>[i]
  BY <1>3, <1>4, Singleton, Zenon
<1>6. z = <<y>>
  BY <1>2, <1>4, <1>5, SeqEqual, Zenon
<1> QED
  BY <1>0, <1>1, <1>6, Zenon

\* Elements replaced by sequences and these joined
Joined(g, s) == FlattenSeq(Mapped(g, s))

JoinLaws(S, T, g) ==
    /\ Joined(g, <<>>) = <<>>
    /\ \A x \in S : Joined(g, <<x>>) = g[x]
    /\ \A a \in Seq(S) : Joined(g, a) \in Seq(T)
    /\ \A a \in Seq(S), b \in Seq(S) : Joined(g, a \o b) = Joined(g, a) \o Joined(g, b)

LEMMA JoinedIs ==
    ASSUME NEW S, NEW T, NEW g, g \in [S -> Seq(T)]
    PROVE  JoinLaws(S, T, g)
<1>1. Joined(g, <<>>) = <<>>
  <2>1. <<>> \in Seq(S) /\ Len(<<>>) = 0
    BY EmptySeq
  <2>0. PICK z : z = Mapped(g, <<>>)
    OBVIOUS
  <2>2. z \in Seq(Seq(T)) /\ Len(z) = 0
    <3>1. Maps(S, Seq(T), g, <<>>)
      BY <2>1 DEF Maps
    <3>2. Image(Seq(T), g, <<>>, z)
      BY SMT, <2>0, <3>1, MappedType
    <3> QED
      BY <2>1, <3>2, Zenon DEF Image
  <2>3. z = <<>>
    BY <2>2, EmptySeq
  <2> QED
    BY <2>0, <2>3, FlattenEmpty DEF Joined
<1>2. ASSUME NEW a \in Seq(S) PROVE Joined(g, a) \in Seq(T)
  <2>1. Maps(S, Seq(T), g, a)
    BY DEF Maps
  <2>2. Image(Seq(T), g, a, Mapped(g, a))
    BY SMT, <2>1, MappedType
  <2> QED
    BY <2>2, FlattenType, Zenon DEF Joined, Image
<1>3. ASSUME NEW a \in Seq(S), NEW b \in Seq(S)
      PROVE  Joined(g, a \o b) = Joined(g, a) \o Joined(g, b)
  <2>1. Mapped(g, a) \in Seq(Seq(T)) /\ Mapped(g, b) \in Seq(Seq(T))
    <3>1. Maps(S, Seq(T), g, a) /\ Maps(S, Seq(T), g, b)
      BY DEF Maps
    <3>2. Image(Seq(T), g, a, Mapped(g, a)) /\ Image(Seq(T), g, b, Mapped(g, b))
      BY SMT, <3>1, MappedType
    <3> QED
      BY <3>2, Zenon DEF Image
  <2> QED
    <3>1. Mapped(g, a \o b) = Mapped(g, a) \o Mapped(g, b)
      <4>1. Maps(S, Seq(T), g, a) /\ Maps(S, Seq(T), g, b)
        BY DEF Maps
      <4> QED
        BY SMT, <4>1, MappedConcat
    <3>2. FlattenSeq(Mapped(g, a) \o Mapped(g, b)) = FlattenSeq(Mapped(g, a)) \o FlattenSeq(Mapped(g, b))
      BY <2>1, FlattenConcat, Zenon
    <3> QED
      BY <3>1, <3>2, Zenon DEF Joined
<1>4. ASSUME NEW x \in S PROVE Joined(g, <<x>>) = g[x]
  <2>1. PICK y \in Seq(T) : y = g[x]
    OBVIOUS
  <2>2. <<>> \in Seq(Seq(T)) /\ <<y>> = Append(<<>>, y)
    BY EmptySeq
  <2>3. FlattenSeq(<<y>>) = <<>> \o y
    BY <2>2, FlattenAppend, FlattenEmpty, Zenon
  <2>4. <<>> \o y = y
    BY ConcatEmptySeq
  <2> QED
    BY <2>1, <2>3, <2>4, MappedOne, Zenon DEF Joined
<1> QED
  BY <1>1, <1>2, <1>3, <1>4, Zenon DEF JoinLaws

-----------------------------------------------------------------------------
(* Chat: ChatInOrder for any clients, header and lengths.  What send() makes *)
(* of a message is its header and its text; a stream is messages sent one    *)
(* after the other, and each turn of the codec's loop takes the first of     *)
(* them or leaves all as it is.                                              *)

Message == {m \in Seq(Nat) : 2 * Len(m) < Span(KHeaderLen)}
Short == {m \in Message : Len(m) <= MaxLength}

(* The header h and the text of m are what send() makes of m.               *)
HeaderOf(m, h) ==
    /\ h \in Seq(Nat) /\ Len(h) = KHeaderLen /\ IntOf(h) = Len(m)
    /\ m \in Seq(Nat) /\ Len(m) \in Nat /\ KHeaderLen \in Nat /\ KHeaderLen >= 1
    /\ EncodeMessage(m) = h \o m

LEMMA MessageBytes ==
    ASSUME NEW m, m \in Message
    PROVE  HeaderOf(m, BytesOf(Len(m), KHeaderLen))
<1>1. PICK n \in Nat : n = Len(m) /\ m \in Seq(Nat) /\ 2 * n < Span(KHeaderLen)
  BY LenProperties DEF Message
<1>2. PICK k \in Nat, p \in Nat : k = KHeaderLen /\ p = KPrePrePend /\ k >= 1 /\ k <= p
  BY ChatAssumption, BufferAssumption
<1>3. PICK h : h = BytesOf(n, k)
  OBVIOUS
<1>4. h \in Seq(Nat) /\ Len(h) = k /\ IntOf(h) = n
  <2>1. PICK s \in Nat : s = Span(k) /\ s > 0
    BY SpanStep
  <2>2. n \in Int /\ -s <= 2 * n /\ 2 * n < s
    BY SMT, <1>1, <1>2, <2>1
  <2> QED
    BY <1>3, <2>1, <2>2, IntegersReturn
<1>5. PICK b : b = AppendData(NewBuffer, m)
  OBVIOUS
<1>6. Stores(b, m)
  <2>1. ~AssertsInMakeSpace(NewBuffer, n)
    BY SMT, <1>2, NewStores DEF AssertsInMakeSpace
  <2>2. Stores(AppendData(NewBuffer, m), <<>> \o m)
    BY <1>1, <2>1, NewStores, AppendStores
  <2>3. <<>> \o m = m
    BY <1>1, ConcatEmptySeq
  <2> QED
    BY <1>5, <2>2, <2>3
<1>7. b.read = p
  <2>1. PICK e : e = EnsureWritable(NewBuffer, n)
    OBVIOUS
  <2>2. CASE Writable(NewBuffer) < n
    <3>1. e = MakeSpace(NewBuffer, n)
      BY <2>1, <2>2 DEF EnsureWritable
    <3>2. e.read = p
      BY <1>2, <3>1 DEF MakeSpace
    <3> QED
      BY <1>1, <1>5, <2>1, <3>2 DEF AppendData
  <2>3. CASE ~(Writable(NewBuffer) < n)
    <3>1. e = NewBuffer
      BY <2>1, <2>3 DEF EnsureWritable
    <3> QED
      BY <1>1, <1>2, <1>5, <2>1, <3>1, NewStores DEF AppendData
  <2> QED
    BY <2>2, <2>3
<1>8. Stores(Prepend(b, h), h \o m)
  <2>1. Len(h) <= b.read
    BY <1>2, <1>4, <1>7
  <2> QED
    BY <1>4, <1>6, <2>1, PrependStores
<1>9. EncodeMessage(m) = h \o m
  <2>1. Contents(Prepend(b, h)) = h \o m
    BY <1>8, ContentsStored
  <2> QED
    BY <1>1, <1>2, <1>3, <1>5, <2>1 DEF EncodeMessage
<1> QED
  BY <1>1, <1>2, <1>3, <1>4, <1>9, Zenon DEF HeaderOf

Enc == [m \in Message |-> EncodeMessage(m)]

LEMMA EncType == Enc \in [Message -> Seq(Nat)]
<1>1. ASSUME NEW m \in Message PROVE EncodeMessage(m) \in Seq(Nat)
  <2>1. HeaderOf(m, BytesOf(Len(m), KHeaderLen))
    BY MessageBytes
  <2> QED
    BY <2>1, ConcatProperties DEF HeaderOf
<1> QED
  BY <1>1 DEF Enc

\* What sending messages one after the other gives
LEMMA EncodeAllIs ==
    /\ EncodeAll(<<>>) = <<>>
    /\ \A m \in Message : EncodeAll(<<m>>) = EncodeMessage(m)
    /\ \A a \in Seq(Message) : EncodeAll(a) \in Seq(Nat)
    /\ \A a \in Seq(Message), b \in Seq(Message) : EncodeAll(a \o b) = EncodeAll(a) \o EncodeAll(b)
<1>1. ASSUME NEW a \in Seq(Message) PROVE EncodeAll(a) = Joined(Enc, a)
  <2>1. \A i \in DOMAIN a : a[i] \in Message
    BY LenProperties, ElementOfSeq
  <2>2. \A i \in DOMAIN a : Enc[a[i]] = EncodeMessage(a[i])
    BY <2>1 DEF Enc
  <2>3. [i \in DOMAIN a |-> EncodeMessage(a[i])] = [i \in DOMAIN a |-> Enc[a[i]]]
    BY <2>2
  <2> QED
    BY <2>3, Zenon DEF EncodeAll, Joined, Mapped
<1>2. <<>> \in Seq(Message) /\ \A m \in Message : <<m>> \in Seq(Message)
  OBVIOUS
<1>3. \A a \in Seq(Message), b \in Seq(Message) : a \o b \in Seq(Message)
  BY ConcatProperties
<1>4. /\ Joined(Enc, <<>>) = <<>>
      /\ \A x \in Message : Joined(Enc, <<x>>) = Enc[x]
      /\ \A a \in Seq(Message) : Joined(Enc, a) \in Seq(Nat)
      /\ \A a \in Seq(Message), b \in Seq(Message) :
            Joined(Enc, a \o b) = Joined(Enc, a) \o Joined(Enc, b)
  <2>1. JoinLaws(Message, Nat, Enc)
    BY SMT, EncType, JoinedIs
  <2> QED
    BY <2>1, Zenon DEF JoinLaws
<1>5. \A m \in Message : Enc[m] = EncodeMessage(m)
  BY DEF Enc
<1>6. ASSUME NEW m \in Message PROVE EncodeAll(<<m>>) = EncodeMessage(m)
  BY <1>1, <1>2, <1>4, <1>5, Zenon
<1>7. ASSUME NEW a \in Seq(Message) PROVE EncodeAll(a) \in Seq(Nat)
  BY <1>1, <1>4, Zenon
<1>8. ASSUME NEW a \in Seq(Message), NEW b \in Seq(Message)
      PROVE  EncodeAll(a \o b) = EncodeAll(a) \o EncodeAll(b)
  <2>1. /\ EncodeAll(a) = Joined(Enc, a) /\ EncodeAll(b) = Joined(Enc, b)
        /\ EncodeAll(a \o b) = Joined(Enc, a \o b)
    BY <1>1, <1>3, Zenon
  <2> QED
    BY <1>4, <2>1, Zenon
<1>9. EncodeAll(<<>>) = <<>>
  BY <1>1, <1>2, <1>4, Zenon
<1> QED
  BY <1>6, <1>7, <1>8, <1>9, Zenon

\* One stream cut in two ways: what lies between the cuts
TwoCuts(a, b, x, y) ==
    /\ a \in Seq(Nat) /\ b \in Seq(Nat) /\ x \in Seq(Nat) /\ y \in Seq(Nat)
    /\ a \o b = x \o y /\ Len(a) <= Len(x)

Between(a, b, x, y, r) ==
    r \in Seq(Nat) /\ r = SubSeq(x, Len(a) + 1, Len(x)) /\ x = a \o r /\ b = r \o y

LEMMA CancelFront ==
    ASSUME NEW S, NEW s, NEW t, NEW v, s \in Seq(S), t \in Seq(S), v \in Seq(S), s \o t = s \o v
    PROVE  t = v
  BY ConcatSimplifications, Zenon

LEMMA CutBetween ==
    ASSUME NEW a, NEW b, NEW x, NEW y, TwoCuts(a, b, x, y)
    PROVE  Between(a, b, x, y, SubSeq(x, Len(a) + 1, Len(x)))
<1>0. /\ a \in Seq(Nat) /\ b \in Seq(Nat) /\ x \in Seq(Nat) /\ y \in Seq(Nat)
      /\ a \o b = x \o y /\ Len(a) <= Len(x)
  BY DEF TwoCuts
<1>1. PICK m \in Nat : m = Len(a)
  BY <1>0, LenProperties
<1>2. PICK n \in Nat : n = Len(x)
  BY <1>0, LenProperties
<1>3. PICK r : r = Piece(x, m, n)
  OBVIOUS
<1>4. /\ r \in Seq(Nat) /\ Len(r) = n - m /\ m <= n
      /\ \A i \in 1..(n - m) : r[i] = x[m + i]
  <2>1. m <= n /\ n <= Len(x)
    BY SMT, <1>0, <1>1, <1>2
  <2>2. /\ Piece(x, m, n) \in Seq(Nat) /\ Len(Piece(x, m, n)) = n - m
        /\ \A i \in 1..(n - m) : Piece(x, m, n)[i] = x[m + i]
    BY <1>0, <2>1, PieceProperties, Zenon
  <2> QED
    BY <1>3, <2>1, <2>2, Zenon
<1>5. PICK ar, ab, xy : ar = a \o r /\ ab = a \o b /\ xy = x \o y
  OBVIOUS
<1>6. Follows(Nat, a, r, ar) /\ Follows(Nat, a, b, ab) /\ Follows(Nat, x, y, xy)
  <2>1. Pair(Nat, a, r) /\ Pair(Nat, a, b) /\ Pair(Nat, x, y)
    BY <1>0, <1>4, Zenon DEF Pair
  <2>2. Follows(Nat, a, r, a \o r) /\ Follows(Nat, a, b, a \o b) /\ Follows(Nat, x, y, x \o y)
    BY SMT, <2>1, ConcatIs
  <2> QED
    BY <1>5, <2>2, Zenon
<1>7. ar \in Seq(Nat) /\ Len(ar) = n
  <2>1. ar \in Seq(Nat) /\ Len(ar) = m + Len(r)
    BY <1>1, <1>6, Zenon DEF Follows
  <2> QED
    BY SMT, <1>4, <2>1
<1>8. ASSUME NEW i \in 1..n PROVE ar[i] = x[i]
  <2>1. CASE i <= m
    <3>1. i \in 1..m
      BY SMT, <2>1
    <3>2. ar[i] = a[i] /\ ab[i] = a[i] /\ xy[i] = x[i]
      BY <1>1, <1>2, <1>6, <3>1, Zenon DEF Follows
    <3> QED
      BY <1>0, <1>5, <3>2, Zenon
  <2>2. CASE ~(i <= m)
    <3>1. PICK j : j \in 1..(n - m) /\ i = m + j
      <4>1. i - m \in 1..(n - m) /\ i = m + (i - m)
        BY SMT, <2>2
      <4> QED
        BY <4>1, Zenon
    <3>2. ar[m + j] = r[j]
      BY <1>1, <1>4, <1>6, <3>1, Zenon DEF Follows
    <3> QED
      BY <1>4, <3>1, <3>2, Zenon
  <2> QED
    BY <2>1, <2>2
<1>9. x = a \o r
  BY <1>0, <1>2, <1>5, <1>7, <1>8, SeqEqual, Zenon
<1>10. b = r \o y
  <2>0. a \in Seq(Nat) /\ r \in Seq(Nat) /\ y \in Seq(Nat)
    BY <1>0, <1>4
  <2>1. (a \o r) \o y = a \o (r \o y)
    <3>1. Three(Nat, a, r, y)
      BY <2>0, Zenon DEF Three
    <3> QED
      BY <3>1, Regroup, SMTT(30)
  <2>2. r \o y \in Seq(Nat)
    BY <1>0, <1>4, ConcatProperties, Zenon
  <2>3. a \o b = a \o (r \o y)
    BY <1>0, <1>9, <2>1, Zenon
  <2> QED
    BY <1>0, <2>2, <2>3, CancelFront, Zenon
<1> QED
  BY <1>1, <1>2, <1>3, <1>4, <1>9, <1>10 DEF Between, Piece

\* The first message m of ms, its header h, and what is sent of the others
FirstIs(ms, m, h, tail, t) ==
    /\ ms = <<m>> \o tail /\ m = ms[1] /\ m \in Message /\ tail \in Seq(Message)
    /\ HeaderOf(m, h) /\ t = EncodeAll(tail) /\ t \in Seq(Nat)
    /\ EncodeAll(ms) = (h \o m) \o t

LEMMA FirstOf ==
    ASSUME NEW ms \in Seq(Message), ms # <<>>
    PROVE  \E m, h, tail, t : FirstIs(ms, m, h, tail, t)
<1>1. PICK n \in Nat : n = Len(ms) /\ n >= 1
  BY EmptySeq
<1>2. PICK m, tail : m = ms[1] /\ tail = SubSeq(ms, 2, n)
  OBVIOUS
<1>3. m \in Message
  BY <1>1, <1>2, ElementOfSeq
<1>4. ms = <<m>> \o tail
  <2>1. 1 \in 1..n /\ n \in 1..n /\ 1 + 1 = 2
    BY SMT, <1>1
  <2>2. SubSeq(ms, 1, n) = <<ms[1]>> \o SubSeq(ms, 1 + 1, n)
    BY <1>1, <2>1, SubSeqRecursiveFirst
  <2>3. SubSeq(ms, 1, n) = ms
    BY <1>1, SubSeqFull
  <2> QED
    BY <1>2, <2>1, <2>2, <2>3
<1>5. tail \in Seq(Message)
  <2>1. \A i \in 2..n : ms[i] \in Message
    BY <1>1, ElementOfSeq
  <2> QED
    BY <1>2, <2>1, SubSeqProperties
<1>6. PICK h : HeaderOf(m, h)
  BY <1>3, MessageBytes
<1>7. PICK t : t = EncodeAll(tail)
  OBVIOUS
<1>8. <<m>> \in Seq(Message)
  BY <1>3
<1>9. EncodeAll(ms) = (h \o m) \o t /\ t \in Seq(Nat)
  <2>1. EncodeAll(<<m>> \o tail) = EncodeAll(<<m>>) \o t /\ t \in Seq(Nat)
    BY <1>5, <1>7, <1>8, EncodeAllIs, Zenon
  <2>2. EncodeAll(<<m>>) = h \o m
    BY <1>3, <1>6, EncodeAllIs, Zenon DEF HeaderOf
  <2> QED
    BY <1>4, <2>1, <2>2, Zenon
<1>10. FirstIs(ms, m, h, tail, t)
  BY <1>2, <1>3, <1>4, <1>5, <1>6, <1>7, <1>9, Zenon DEF FirstIs
<1> QED
  BY <1>10, Zenon

\* The bytes i and then the bytes rest are the messages b as they are sent.
Holds(i, rest, b) ==
    i \in Seq(Nat) /\ rest \in Seq(Nat) /\ b \in Seq(Message) /\ EncodeAll(b) = i \o rest

\* The first of them is all in i, or too long and its header is
Whole(i, b) == b # <<>> /\ Len(b[1]) <= MaxLength /\ Len(i) >= KHeaderLen + Len(b[1])
TooLong(i, b) == b # <<>> /\ Len(b[1]) > MaxLength /\ Len(i) >= KHeaderLen

Take(d, i, n) ==
    [d EXCEPT !.input = SubSeq(@, KHeaderLen + n + 1, Len(@)),
              !.messages = Append(@, SubSeq(i, KHeaderLen + 1, KHeaderLen + n))]

\* What a turn does with the number n in the header
LEMMA TurnIs ==
    ASSUME NEW d, NEW i, NEW k, NEW n, i = d.input, k \in Nat, k = Len(i), n \in Nat,
           k >= KHeaderLen => n = IntOf(SubSeq(i, 1, KHeaderLen))
    PROVE  /\ k < KHeaderLen => DecodeTurn(d) = d
           /\ (k >= KHeaderLen /\ n > MaxLength) => DecodeTurn(d) = [d EXCEPT !.bad = TRUE]
           /\ (k >= KHeaderLen /\ n <= MaxLength /\ k < KHeaderLen + n) => DecodeTurn(d) = d
<1>0. KHeaderLen \in Nat /\ KHeaderLen >= 1 /\ MaxLength \in Nat
  BY ChatAssumption, BufferAssumption
<1>1. CASE k < KHeaderLen
  <2>1. ~(k >= KHeaderLen)
    BY <1>0, <1>1
  <2>2. ~(k >= KHeaderLen + n)
    BY <1>0, <1>1
  <2> QED
    BY <1>1, <2>1, <2>2, Zenon DEF DecodeTurn
<1>2. CASE k >= KHeaderLen
  <2>0. n = IntOf(SubSeq(d.input, 1, KHeaderLen)) /\ ~(k < KHeaderLen) /\ k = Len(d.input) /\ ~(n < 0)
    BY <1>0, <1>2
  <2>1. CASE n > MaxLength
    <3>1. ~(n <= MaxLength) /\ ~(n \in 0..MaxLength)
      BY <1>0, <2>1
    <3>2. DecodeTurn(d) = [d EXCEPT !.bad = TRUE]
      BY <1>2, <2>0, <2>1, <3>1, Zenon DEF DecodeTurn
    <3> QED
      BY <2>0, <3>1, <3>2, Zenon
  <2>2. CASE ~(n > MaxLength)
    <3>1. n <= MaxLength /\ n \in 0..MaxLength
      BY <1>0, <2>2
    <3>2. CASE k < KHeaderLen + n
      <4>1. ~(k >= KHeaderLen + n)
        BY <1>0, <3>2
      <4>2. DecodeTurn(d) = d
        BY <1>2, <2>0, <2>2, <3>1, <4>1, Zenon DEF DecodeTurn
      <4> QED
        BY <2>0, <2>2, <4>1, <4>2, Zenon
    <3>3. CASE ~(k < KHeaderLen + n)
      <4>1. k >= KHeaderLen + n
        BY <1>0, <3>3
      <4> QED
        BY SMT, <1>0, <1>2, <2>2, <4>1
    <3> QED
      BY <3>2, <3>3
  <2> QED
    BY <2>1, <2>2
<1> QED
  BY <1>0, <1>1, <1>2

Fits(d, i, k, n) ==
    /\ i = d.input /\ k \in Nat /\ k = Len(i) /\ n \in Nat
    /\ n = IntOf(SubSeq(i, 1, KHeaderLen)) /\ n <= MaxLength /\ k >= KHeaderLen + n

LEMMA TurnFits ==
    ASSUME NEW d, NEW i, NEW k, NEW n, Fits(d, i, k, n)
    PROVE  DecodeTurn(d) = Take(d, i, n)
<1>0. KHeaderLen \in Nat /\ KHeaderLen >= 1 /\ MaxLength \in Nat
  BY ChatAssumption, BufferAssumption
<1>1. /\ i = d.input /\ k = Len(d.input) /\ n = IntOf(SubSeq(d.input, 1, KHeaderLen))
      /\ k >= KHeaderLen + n
  BY DEF Fits
<1>2. /\ k >= KHeaderLen /\ ~(k < KHeaderLen) /\ ~(n < 0) /\ ~(n > MaxLength)
      /\ n \in 0..MaxLength
  BY <1>0 DEF Fits
<1>3. DecodeTurn(d) = [d EXCEPT !.input = SubSeq(@, KHeaderLen + n + 1, Len(@)),
                                !.messages = Append(@, SubSeq(d.input, KHeaderLen + 1, KHeaderLen + n))]
  BY <1>1, <1>2, Zenon DEF DecodeTurn
<1> QED
  BY <1>1, <1>3, Zenon DEF Take

\* Three sequences in a row, cut out again
Cuts(S, p, q, r) ==
    /\ SubSeq((p \o q) \o r, Len(p) + 1, Len(p) + Len(q)) = q
    /\ SubSeq(q \o r, 1, Len(q)) = q
    /\ SubSeq(p \o q, Len(p) + 1, Len(p \o q)) = q

LEMMA MiddleOf ==
    ASSUME NEW S, NEW p, NEW q, NEW r, Three(S, p, q, r)
    PROVE  SubSeq((p \o q) \o r, Len(p) + 1, Len(p) + Len(q)) = q
<1>0. p \in Seq(S) /\ q \in Seq(S) /\ r \in Seq(S)
  BY DEF Three
<1>1. PICK m \in Nat : m = Len(p)
  BY <1>0, LenProperties
<1>2. PICK n \in Nat : n = Len(q)
  BY <1>0, LenProperties
<1>3. PICK pq, all : pq = p \o q /\ all = pq \o r
  OBVIOUS
<1>4. Follows(S, p, q, pq)
  BY SMT, <1>0, <1>3, ConcatIs DEF Pair
<1>5. pq \in Seq(S) /\ Len(pq) = m + n
  BY <1>1, <1>2, <1>4, Zenon DEF Follows
<1>6. Follows(S, pq, r, all)
  <2>1. Pair(S, pq, r)
    BY <1>0, <1>5, Zenon DEF Pair
  <2>2. Follows(S, pq, r, pq \o r)
    BY SMT, <2>1, ConcatIs
  <2> QED
    BY <1>3, <2>2, Zenon
<1>7. ASSUME NEW i \in 1..n PROVE all[m + i] = q[i]
  <2>1. m + i \in 1..(m + n)
    BY SMT
  <2>2. all[m + i] = pq[m + i]
    BY <1>5, <1>6, <2>1, Zenon DEF Follows
  <2>3. pq[m + i] = q[i]
    BY <1>1, <1>2, <1>4, Zenon DEF Follows
  <2> QED
    BY <2>2, <2>3, Zenon
<1>8. \A i \in 1..n : q[i] \in S
  BY <1>0, <1>2, ElementOfSeq
<1>9. ASSUME NEW j \in (m + 1)..(m + n) PROVE all[j] \in S
  <2>1. j - m \in 1..n /\ m + (j - m) = j
    BY SMT
  <2> QED
    BY <1>7, <1>8, <2>1, Zenon
<1>10. PICK z : z = SubSeq(all, m + 1, m + n)
  OBVIOUS
<1>11. m + 1 \in Int /\ m + n \in Int /\ (m + n) - (m + 1) + 1 = n
  BY SMT
<1>12. /\ z \in Seq(S) /\ Len(z) = (IF m + 1 <= m + n THEN (m + n) - (m + 1) + 1 ELSE 0)
       /\ \A i \in 1..((m + n) - (m + 1) + 1) : z[i] = all[m + 1 + i - 1]
  BY <1>9, <1>10, <1>11, SubSeqProperties
<1>13. Len(z) = n
  BY SMT, <1>12
<1>14. ASSUME NEW i \in 1..n PROVE z[i] = q[i]
  <2>1. m + 1 + i - 1 = m + i
    BY SMT
  <2>2. z[i] = all[m + 1 + i - 1]
    BY <1>11, <1>12, Zenon
  <2> QED
    BY <1>7, <2>1, <2>2, Zenon
<1>15. z = q
  BY <1>0, <1>2, <1>12, <1>13, <1>14, SeqEqual, Zenon
<1> QED
  BY <1>1, <1>2, <1>3, <1>10, <1>15, Zenon

LEMMA CutOut ==
    ASSUME NEW S, NEW p, NEW q, NEW r, Three(S, p, q, r)
    PROVE  Cuts(S, p, q, r)
<1>a. p \in Seq(S) /\ q \in Seq(S) /\ r \in Seq(S)
  BY DEF Three
<1>b. <<>> \in Seq(S) /\ Len(<<>>) = 0
  BY EmptySeq
<1>0. p \in Seq(S) /\ q \in Seq(S) /\ r \in Seq(S) /\ <<>> \in Seq(S) /\ Len(<<>>) = 0
  BY <1>a, <1>b, Zenon
<1>1. SubSeq((p \o q) \o r, Len(p) + 1, Len(p) + Len(q)) = q
  BY SMT, MiddleOf
<1>2. SubSeq(q \o r, 1, Len(q)) = q
  <2>1. Three(S, <<>>, q, r)
    BY <1>0 DEF Three
  <2>2. SubSeq((<<>> \o q) \o r, Len(<<>>) + 1, Len(<<>>) + Len(q)) = q
    BY SMT, <2>1, MiddleOf
  <2>3. <<>> \o q = q
    BY <1>0, ConcatEmptySeq
  <2>4. Len(<<>>) + 1 = 1 /\ Len(<<>>) + Len(q) = Len(q)
    BY <1>0, LenProperties
  <2> QED
    BY <2>2, <2>3, <2>4, Zenon
<1>3. SubSeq(p \o q, Len(p) + 1, Len(p \o q)) = q
  <2>1. Three(S, p, q, <<>>)
    BY <1>0 DEF Three
  <2>2. SubSeq((p \o q) \o <<>>, Len(p) + 1, Len(p) + Len(q)) = q
    BY SMT, <2>1, MiddleOf
  <2>3. p \o q \in Seq(S) /\ Len(p \o q) = Len(p) + Len(q)
    BY <1>0, ConcatProperties
  <2>4. (p \o q) \o <<>> = p \o q
    BY <2>3, ConcatEmptySeq
  <2> QED
    BY <2>2, <2>3, <2>4, Zenon
<1> QED
  BY <1>1, <1>2, <1>3 DEF Cuts

Frame(m, h, t) ==
    /\ h \in Seq(Nat) /\ m \in Seq(Nat) /\ t \in Seq(Nat)
    /\ m \o t \in Seq(Nat) /\ h \o m \in Seq(Nat)
    /\ Len(h) = KHeaderLen /\ Len(h \o m) = KHeaderLen + Len(m) /\ Len(m) \in Nat
    /\ KHeaderLen \in Nat /\ KHeaderLen >= 1
    /\ (h \o m) \o t = h \o (m \o t)

LEMMA FirstParts ==
    ASSUME NEW b, NEW m, NEW h, NEW tail, NEW t, FirstIs(b, m, h, tail, t)
    PROVE  Frame(m, h, t)
<1>1. h \in Seq(Nat) /\ m \in Seq(Nat) /\ t \in Seq(Nat)
  BY DEF FirstIs, HeaderOf
<1>2. Len(h) = KHeaderLen /\ Len(m) \in Nat /\ KHeaderLen \in Nat /\ KHeaderLen >= 1
  BY DEF FirstIs, HeaderOf
<1>3. m \o t \in Seq(Nat) /\ h \o m \in Seq(Nat) /\ Len(h \o m) = Len(h) + Len(m)
  BY <1>1, ConcatProperties
<1>4. (h \o m) \o t = h \o (m \o t)
  <2>1. Three(Nat, h, m, t)
    BY <1>1, Zenon DEF Three
  <2> QED
    BY <2>1, Regroup, SMTT(30)
<1> QED
  BY <1>1, <1>2, <1>3, <1>4, Zenon DEF Frame

LEMMA HeaderIn ==
    ASSUME NEW i, NEW rest, NEW b, NEW m, NEW h, NEW tail, NEW t, Holds(i, rest, b),
           FirstIs(b, m, h, tail, t), Len(i) >= KHeaderLen
    PROVE  IntOf(SubSeq(i, 1, KHeaderLen)) = Len(m)
<1>0. Frame(m, h, t)
  BY FirstParts
<1>1. /\ h \in Seq(Nat) /\ m \o t \in Seq(Nat) /\ Len(h) = KHeaderLen
      /\ (h \o m) \o t = h \o (m \o t)
  BY SMT, <1>0 DEF Frame
<1>2. i \in Seq(Nat) /\ rest \in Seq(Nat) /\ h \o (m \o t) = i \o rest
  <2>1. i \in Seq(Nat) /\ rest \in Seq(Nat) /\ EncodeAll(b) = i \o rest
    BY DEF Holds
  <2>2. EncodeAll(b) = (h \o m) \o t
    BY DEF FirstIs
  <2> QED
    BY <1>1, <2>1, <2>2, Zenon
<1>3. PICK r : Between(h, m \o t, i, rest, r)
  <2>1. Len(h) <= Len(i)
    BY <1>1, <1>2, LenProperties
  <2>2. TwoCuts(h, m \o t, i, rest)
    BY <1>1, <1>2, <2>1, Zenon DEF TwoCuts
  <2> QED
    BY SMT, <2>2, CutBetween
<1>4. r \in Seq(Nat) /\ i = h \o r
  BY <1>3, Zenon DEF Between
<1>5. SubSeq(h \o r, 1, Len(h)) = h
  <2>1. Three(Nat, h, h, r)
    BY <1>1, <1>4, Zenon DEF Three
  <2>2. Cuts(Nat, h, h, r)
    BY SMT, <2>1, CutOut
  <2> QED
    BY <2>2, Zenon DEF Cuts
<1>6. IntOf(h) = Len(m)
  BY Zenon DEF FirstIs, HeaderOf
<1> QED
  BY <1>1, <1>4, <1>5, <1>6, Zenon

\* The message m cut out of i, and j, what is left of i
Taken(i, rest, m, tail, j) ==
    /\ SubSeq(i, KHeaderLen + 1, KHeaderLen + Len(m)) = m
    /\ j = SubSeq(i, KHeaderLen + Len(m) + 1, Len(i))
    /\ Holds(j, rest, tail) /\ Len(j) \in Nat /\ Len(j) < Len(i)

LEMMA MessageIn ==
    ASSUME NEW i, NEW rest, NEW b, NEW m, NEW h, NEW tail, NEW t, Holds(i, rest, b),
           FirstIs(b, m, h, tail, t), Len(i) >= KHeaderLen + Len(m)
    PROVE  \E j : Taken(i, rest, m, tail, j)
<1>0. PICK hm : hm = h \o m
  OBVIOUS
<1>1. /\ h \in Seq(Nat) /\ m \in Seq(Nat) /\ t \in Seq(Nat) /\ hm \in Seq(Nat)
      /\ Len(h) = KHeaderLen /\ Len(hm) = KHeaderLen + Len(m)
      /\ Len(m) \in Nat /\ KHeaderLen \in Nat /\ KHeaderLen >= 1
  <2>1. Frame(m, h, t)
    BY FirstParts
  <2> QED
    BY <1>0, <2>1, Zenon DEF Frame
<1>2. i \in Seq(Nat) /\ rest \in Seq(Nat) /\ hm \o t = i \o rest
  BY <1>0, Zenon DEF Holds, FirstIs
<1>3. PICK j : Between(hm, t, i, rest, j) /\ j = SubSeq(i, Len(hm) + 1, Len(i))
  <2>1. Len(hm) <= Len(i)
    <3>1. Len(i) \in Nat
      BY <1>2, LenProperties
    <3> QED
      BY <1>1, <3>1
  <2>2. TwoCuts(hm, t, i, rest)
    BY <1>1, <1>2, <2>1, Zenon DEF TwoCuts
  <2>3. Between(hm, t, i, rest, SubSeq(i, Len(hm) + 1, Len(i)))
    BY SMT, <2>2, CutBetween
  <2> QED
    BY <2>3, Zenon
<1>4. /\ j \in Seq(Nat) /\ i = hm \o j /\ t = j \o rest
  BY <1>3, Zenon DEF Between
<1>5. SubSeq(i, KHeaderLen + 1, KHeaderLen + Len(m)) = m
  <2>1. Three(Nat, h, m, j)
    BY <1>1, <1>4, Zenon DEF Three
  <2>2. SubSeq((h \o m) \o j, Len(h) + 1, Len(h) + Len(m)) = m
    BY SMT, <2>1, MiddleOf
  <2> QED
    BY <1>0, <1>1, <1>4, <2>2, Zenon
<1>6. Holds(j, rest, tail)
  BY <1>2, <1>4, Zenon DEF Holds, FirstIs
<1>7. Len(j) \in Nat /\ Len(j) < Len(i)
  <2>1. Len(hm \o j) = Len(hm) + Len(j)
    <3>1. hm \in Seq(Nat) /\ j \in Seq(Nat)
      BY <1>1, <1>4
    <3> QED
      BY <3>1, ConcatProperties, Zenon
  <2>2. Len(j) \in Nat
    BY <1>4, LenProperties
  <2>3. Len(i) = KHeaderLen + Len(m) + Len(j)
    BY <1>1, <1>4, <2>1, Zenon
  <2> QED
    BY SMT, <1>1, <2>2, <2>3
<1> QED
  BY <1>1, <1>3, <1>5, <1>6, <1>7, Zenon DEF Taken

\* A state d of the loop of onMessage(): of the messages todo it has taken a, and
\* b are in the bytes i that are left and in those that have not come.
Reading(d, rest, todo, i, a, b, f) ==
    /\ d = [input |-> i, messages |-> a, bad |-> f] /\ f \in BOOLEAN
    /\ Holds(i, rest, b) /\ a \in Seq(Short) /\ todo = a \o b
    /\ f => TooLong(i, b)

Done(i, b, f) == ~Whole(i, b) /\ (TooLong(i, b) => f)

LEMMA ShortMessages == /\ Short \subseteq Message /\ Message \subseteq Seq(Nat)
                       /\ \A m \in Message : m \in Short <=> Len(m) <= MaxLength
                       /\ Seq(Short) \subseteq Seq(Message)
<1>1. Short \subseteq Message /\ Message \subseteq Seq(Nat)
  BY DEF Short, Message
<1>2. Seq(Short) \subseteq Seq(Message)
  BY <1>1, SeqMonotonic
<1> QED
  BY <1>1, <1>2 DEF Short

LEMMA TurnTakes ==
    ASSUME NEW d, NEW rest, NEW todo, NEW i, NEW a, NEW b, NEW f,
           Reading(d, rest, todo, i, a, b, f),
           NEW m, NEW h, NEW tail, NEW t, FirstIs(b, m, h, tail, t),
           Len(m) <= MaxLength, Len(i) >= KHeaderLen + Len(m)
    PROVE  \E j, c : Reading(DecodeTurn(d), rest, todo, j, c, tail, FALSE) /\ Len(j) < Len(i)
<1>0. /\ d = [input |-> i, messages |-> a, bad |-> f] /\ f \in BOOLEAN
      /\ Holds(i, rest, b) /\ a \in Seq(Short) /\ todo = a \o b
      /\ f => TooLong(i, b)
  BY DEF Reading
<1>1. PICK k \in Nat : k = Len(i)
  BY <1>0, LenProperties DEF Holds
<1>2. PICK n \in Nat : n = Len(m)
  BY DEF FirstIs, HeaderOf
<1>3. KHeaderLen \in Nat /\ KHeaderLen >= 1 /\ MaxLength \in Nat
  BY ChatAssumption, BufferAssumption
<1>4. b = <<m>> \o tail /\ m = b[1] /\ m \in Message /\ tail \in Seq(Message)
  BY Zenon DEF FirstIs
<1>5. f = FALSE
  <2>1. ~(Len(m) > MaxLength)
    BY SMT, <1>2, <1>3
  <2> QED
    BY <1>0, <1>4, <2>1, Zenon DEF TooLong
<1>6. PICK j : Taken(i, rest, m, tail, j)
  BY <1>0, MessageIn
<1>7. d.input = i /\ d.messages = a /\ d.bad = FALSE
  BY <1>0, <1>5
<1>8. DecodeTurn(d) = [d EXCEPT !.input = j, !.messages = Append(a, m)]
  <2>1. n = IntOf(SubSeq(i, 1, KHeaderLen))
    <3>1. Len(i) >= KHeaderLen
      BY SMT, <1>1, <1>2, <1>3
    <3> QED
      BY <1>0, <1>2, <3>1, HeaderIn, Zenon
  <2>2. DecodeTurn(d) = Take(d, i, n)
    <3>1. n <= MaxLength /\ k >= KHeaderLen + n
      BY <1>1, <1>2
    <3> QED
      <4>1. i = d.input
        BY <1>7
      <4>2. Fits(d, i, k, n)
        BY <1>1, <2>1, <3>1, <4>1, Zenon DEF Fits
      <4> QED
        BY SMT, <4>2, TurnFits
  <2> QED
    BY <1>2, <1>6, <1>7, <2>2 DEF Take, Taken
<1>9. DecodeTurn(d) = [input |-> j, messages |-> Append(a, m), bad |-> FALSE]
  BY <1>0, <1>5, <1>8
<1>10. m \in Short
  BY <1>4, ShortMessages
<1>11. Append(a, m) \in Seq(Short) /\ Append(a, m) = a \o <<m>>
  BY <1>0, <1>10, AppendProperties, AppendIsConcat
<1>12. todo = Append(a, m) \o tail
  <2>0. a \in Seq(Message)
    BY <1>0, ShortMessages, Zenon
  <2>a. <<m>> \in Seq(Message)
    BY <1>4, Singleton, Zenon
  <2>1. a \in Seq(Message) /\ <<m>> \in Seq(Message) /\ tail \in Seq(Message)
    BY <1>4, <2>0, <2>a, Zenon
  <2>2. (a \o <<m>>) \o tail = a \o (<<m>> \o tail)
    <3>1. Three(Message, a, <<m>>, tail)
      BY <2>1, Zenon DEF Three
    <3> QED
      BY <3>1, Regroup, SMTT(30)
  <2> QED
    BY <1>0, <1>4, <1>11, <2>2, Zenon
<1>13. Reading(DecodeTurn(d), rest, todo, j, Append(a, m), tail, FALSE)
  BY <1>6, <1>9, <1>11, <1>12, Zenon DEF Reading, Taken
<1> QED
  BY <1>6, <1>13, Zenon DEF Taken

LEMMA TurnStops ==
    ASSUME NEW d, NEW rest, NEW todo, NEW i, NEW a, NEW b, NEW f,
           Reading(d, rest, todo, i, a, b, f), ~Whole(i, b)
    PROVE  \E g : Reading(DecodeTurn(d), rest, todo, i, a, b, g) /\ Done(i, b, g)
<1>0. /\ d = [input |-> i, messages |-> a, bad |-> f] /\ f \in BOOLEAN
      /\ Holds(i, rest, b) /\ a \in Seq(Short) /\ todo = a \o b
      /\ f => TooLong(i, b)
  BY DEF Reading
<1>1. PICK k \in Nat : k = Len(i)
  BY <1>0, LenProperties DEF Holds
<1>3. KHeaderLen \in Nat /\ KHeaderLen >= 1 /\ MaxLength \in Nat
  BY ChatAssumption, BufferAssumption
<1>4. d.input = i
  BY <1>0
<1>5. CASE k < KHeaderLen
  <2>1. DecodeTurn(d) = d
    <3>1. 0 \in Nat /\ ~(k >= KHeaderLen)
      BY SMT, <1>3, <1>5
    <3> QED
      BY <1>1, <1>4, <1>5, <3>1, TurnIs, Zenon
  <2>2. ~TooLong(i, b)
    BY SMT, <1>1, <1>3, <1>5 DEF TooLong
  <2> QED
    BY <2>1, <2>2 DEF Done
<1>6. CASE ~(k < KHeaderLen)
  <2>1. b # <<>>
    <3>1. SUFFICES ASSUME b = <<>> PROVE FALSE
      OBVIOUS
    <3>2. i \in Seq(Nat) /\ rest \in Seq(Nat) /\ i \o rest = <<>>
      BY <1>0, <3>1, EncodeAllIs, Zenon DEF Holds
    <3>3. i = <<>>
      BY <3>2, ConcatSimplifications, Zenon
    <3>4. k = 0
      BY <1>1, <3>3, EmptySeq
    <3> QED
      BY SMT, <1>3, <1>6, <3>4
  <2>2. PICK m, h, tail, t : FirstIs(b, m, h, tail, t)
    <3>1. b \in Seq(Message)
      BY <1>0 DEF Holds
    <3> QED
      BY <2>1, <3>1, FirstOf, Zenon
  <2>3. PICK n \in Nat : n = Len(m)
    BY <2>2 DEF FirstIs, HeaderOf
  <2>4. k >= KHeaderLen /\ Len(i) >= KHeaderLen
    BY SMT, <1>1, <1>3, <1>6
  <2>5. n = IntOf(SubSeq(i, 1, KHeaderLen))
    BY <1>0, <2>2, <2>3, <2>4, HeaderIn, Zenon
  <2>6. m = b[1]
    BY <2>2 DEF FirstIs
  <2>7. CASE n > MaxLength
    <3>1. DecodeTurn(d) = [d EXCEPT !.bad = TRUE]
      BY <1>1, <1>4, <2>4, <2>5, <2>7, TurnIs, Zenon
    <3>2. DecodeTurn(d) = [input |-> i, messages |-> a, bad |-> TRUE]
      BY <1>0, <3>1
    <3>3. TooLong(i, b)
      BY <2>1, <2>3, <2>4, <2>6, <2>7, Zenon DEF TooLong
    <3>4. Reading(DecodeTurn(d), rest, todo, i, a, b, TRUE)
      BY <1>0, <3>2, <3>3, Zenon DEF Reading
    <3> QED
      BY <3>4, Zenon DEF Done
  <2>8. CASE ~(n > MaxLength)
    <3>1. n <= MaxLength
      BY SMT, <1>3, <2>8
    <3>2. k < KHeaderLen + n
      <4>1. ~(k >= KHeaderLen + n)
        BY <1>1, <2>1, <2>3, <2>6, <3>1, Zenon DEF Whole
      <4> QED
        BY SMT, <1>3, <4>1
    <3>3. DecodeTurn(d) = d
      BY <1>1, <1>4, <2>4, <2>5, <3>1, <3>2, TurnIs, Zenon
    <3>4. ~TooLong(i, b)
      BY <2>3, <2>6, <2>8, Zenon DEF TooLong
    <3> QED
      BY <3>3, <3>4, Zenon DEF Done
  <2> QED
    BY <2>7, <2>8
<1> QED
  BY <1>5, <1>6

\* Nothing can be taken out of an empty buffer.
LEMMA NothingIn ==
    ASSUME NEW b, b \in Seq(Message)
    PROVE  ~Whole(<<>>, b) /\ ~TooLong(<<>>, b)
<1>1. KHeaderLen \in Nat /\ KHeaderLen >= 1
  BY ChatAssumption, BufferAssumption
<1>2. Len(<<>>) = 0
  OBVIOUS
<1>3. ~TooLong(<<>>, b)
  BY SMT, <1>1, <1>2 DEF TooLong
<1>4. ~Whole(<<>>, b)
  <2>1. SUFFICES ASSUME b # <<>>, 0 >= KHeaderLen + Len(b[1]) PROVE FALSE
    BY <1>2, Zenon DEF Whole
  <2>2. b[1] \in Message
    <3>1. Len(b) \in Nat \ {0}
      BY <2>1, EmptySeq
    <3>2. 1 \in 1..Len(b)
      BY SMT, <3>1
    <3> QED
      BY <3>2, ElementOfSeq, Zenon
  <2>3. Len(b[1]) \in Nat
    BY <2>2, LenProperties DEF Message
  <2> QED
    BY SMT, <1>1, <2>1, <2>3
<1> QED
  BY <1>3, <1>4

\* The recursion of Decode
LoopTurn(input, turns, n) ==
    IF n = 0 THEN [input |-> input, messages |-> <<>>, bad |-> FALSE] ELSE DecodeTurn(turns[n - 1])

LEMMA LoopExists ==
    ASSUME NEW input
    PROVE  \A n \in Nat : \E f : f = [k \in 0..n |-> LoopTurn(input, f, k)]
<1> DEFINE Defined == {n \in Nat : \E f : f = [k \in 0..n |-> LoopTurn(input, f, k)]}
<1>1. 0 \in Defined
  <2> DEFINE f == [k \in 0..0 |-> [input |-> input, messages |-> <<>>, bad |-> FALSE]]
  <2>0. \A k \in 0..0 : k = 0
    BY SMT
  <2>1. f = [k \in 0..0 |-> LoopTurn(input, f, k)]
    BY <2>0, Zenon DEF LoopTurn
  <2> QED
    BY <2>1
<1>2. ASSUME NEW n \in Nat, n \in Defined PROVE n + 1 \in Defined
  <2>1. PICK f : f = [k \in 0..n |-> LoopTurn(input, f, k)]
    BY <1>2
  <2> DEFINE g == [k \in 0..(n + 1) |-> IF k = n + 1 THEN LoopTurn(input, f, n + 1) ELSE f[k]]
  <2>2. ASSUME NEW k \in 0..(n + 1) PROVE g[k] = LoopTurn(input, g, k)
    <3>1. k # 0 => g[k - 1] = f[k - 1]
      <4>1. k # 0 => k - 1 \in 0..(n + 1) /\ k - 1 # n + 1
        BY SMT
      <4> QED
        BY <4>1
    <3>2. LoopTurn(input, g, k) = LoopTurn(input, f, k)
      <4> HIDE DEF g
      <4> QED
        BY <3>1, Zenon DEF LoopTurn
    <3>3. k # n + 1 => k \in 0..n
      BY SMT
    <3>4. k # n + 1 => f[k] = LoopTurn(input, f, k)
      BY <2>1, <3>3, Zenon
    <3>5. g[k] = IF k = n + 1 THEN LoopTurn(input, f, n + 1) ELSE f[k]
      OBVIOUS
    <3> HIDE DEF g
    <3> QED
      BY <3>2, <3>4, <3>5, Zenon
  <2>3. g = [k \in 0..(n + 1) |-> LoopTurn(input, g, k)]
    BY <2>2, Zenon
  <2>4. n + 1 \in Nat
    BY SMT
  <2> HIDE DEF g
  <2> QED
    BY <2>3, <2>4, Zenon
<1>3. Nat \subseteq Defined
  <2> HIDE DEF Defined
  <2> QED
    BY <1>1, <1>2, Induction, Zenon
<1> QED
  BY <1>3

LEMMA LoopIs ==
    ASSUME NEW input, NEW n \in Nat, n = Len(input)
    PROVE  \E f : /\ f[0] = [input |-> input, messages |-> <<>>, bad |-> FALSE]
                  /\ \A k \in Nat : k < n => f[k + 1] = DecodeTurn(f[k])
                  /\ Decode(input) = f[n]
<1> DEFINE f == CHOOSE h : h = [k \in 0..Len(input) |-> LoopTurn(input, h, k)]
<1>1. f = [k \in 0..Len(input) |-> LoopTurn(input, f, k)]
  BY LoopExists, Zenon
<1>2. Decode(input) = f[Len(input)]
  BY Zenon DEF Decode, LoopTurn
<1> HIDE DEF f
<1>3. 0 \in 0..n
  BY SMT
<1>4. f[0] = [input |-> input, messages |-> <<>>, bad |-> FALSE]
  BY <1>1, <1>3, Zenon DEF LoopTurn
<1>5. ASSUME NEW k \in Nat, k < n PROVE f[k + 1] = DecodeTurn(f[k])
  <2>1. k + 1 \in 0..n /\ k + 1 # 0 /\ (k + 1) - 1 = k
    BY SMT, <1>5
  <2>2. f[k + 1] = LoopTurn(input, f, k + 1)
    BY <1>1, <2>1, Zenon
  <2> QED
    BY <2>1, <2>2, Zenon DEF LoopTurn
<1> QED
  BY <1>2, <1>4, <1>5, Zenon

\* onMessage() takes messages until the next is not whole, or too long.
Decoded(d, todo, rest, i, a, b, f) == Reading(d, rest, todo, i, a, b, f) /\ Done(i, b, f)

LEMMA Decoding ==
    ASSUME NEW input, NEW rest, NEW todo, Holds(input, rest, todo)
    PROVE  \E i, a, b, f : Decoded(Decode(input), todo, rest, i, a, b, f)
<1>0. input \in Seq(Nat) /\ todo \in Seq(Message)
  BY DEF Holds
<1>1. PICK n \in Nat : n = Len(input)
  BY <1>0, LenProperties
<1>2. PICK t : /\ t[0] = [input |-> input, messages |-> <<>>, bad |-> FALSE]
               /\ \A k \in Nat : k < n => t[k + 1] = DecodeTurn(t[k])
               /\ Decode(input) = t[n]
  BY <1>1, LoopIs, Zenon
<1> DEFINE After(k, i, a, b, f) ==
             Reading(t[k], rest, todo, i, a, b, f) /\ (Done(i, b, f) \/ Len(i) <= n - k)
           Good == {k \in Nat : k <= n => \E i, a, b, f : After(k, i, a, b, f)}
<1>3. 0 \in Good
  <2>1. <<>> \in Seq(Short) /\ <<>> \o todo = todo
    BY <1>0, EmptySeq, ConcatEmptySeq
  <2>2. Reading(t[0], rest, todo, input, <<>>, todo, FALSE)
    BY <1>2, <2>1, Zenon DEF Reading
  <2>3. Len(input) <= n - 0 /\ 0 \in Nat
    BY SMT, <1>1
  <2>4. After(0, input, <<>>, todo, FALSE)
    BY <2>2, <2>3, Zenon
  <2> HIDE DEF After
  <2> QED
    BY <2>3, <2>4, Zenon
<1>4. ASSUME NEW k \in Nat, k \in Good PROVE k + 1 \in Good
  <2>0. k + 1 \in Nat
    BY SMT
  <2>1. SUFFICES ASSUME k + 1 <= n PROVE \E i, a, b, f : After(k + 1, i, a, b, f)
    BY <2>0, Zenon
  <2>2. k <= n /\ k < n
    BY SMT, <2>1
  <2>3. PICK i, a, b, f : After(k, i, a, b, f)
    <3> HIDE DEF After
    <3> QED
      BY <1>4, <2>2, Zenon
  <2>4. t[k + 1] = DecodeTurn(t[k])
    BY <1>2, <2>2, Zenon
  <2>5. CASE Whole(i, b)
    <3>1. b # <<>> /\ Len(b[1]) <= MaxLength /\ Len(i) >= KHeaderLen + Len(b[1])
      BY <2>5 DEF Whole
    <3>2. Holds(i, rest, b)
      BY <2>3, Zenon DEF Reading
    <3>3. PICK m, h, tail, r : FirstIs(b, m, h, tail, r)
      <4>1. b \in Seq(Message)
        BY <3>2 DEF Holds
      <4> QED
        BY <3>1, <4>1, FirstOf, Zenon
    <3>4. m = b[1]
      BY <3>3 DEF FirstIs
    <3>5. PICK j, c : Reading(DecodeTurn(t[k]), rest, todo, j, c, tail, FALSE) /\ Len(j) < Len(i)
      BY <2>3, <3>1, <3>3, <3>4, TurnTakes, Zenon
    <3>6. Len(i) <= n - k
      BY <2>3, <2>5, Zenon DEF Done
    <3>7. Len(j) \in Nat /\ Len(i) \in Nat
      BY <3>2, <3>5, LenProperties DEF Reading, Holds
    <3>8. Len(j) <= n - (k + 1)
      BY SMT, <3>5, <3>6, <3>7
    <3>9. After(k + 1, j, c, tail, FALSE)
      BY <2>4, <3>5, <3>8, Zenon
    <3> HIDE DEF After
    <3> QED
      BY <3>9, Zenon
  <2>6. CASE ~Whole(i, b)
    <3>1. PICK g : Reading(DecodeTurn(t[k]), rest, todo, i, a, b, g) /\ Done(i, b, g)
      BY <2>3, <2>6, TurnStops, Zenon
    <3>2. After(k + 1, i, a, b, g)
      BY <2>4, <3>1, Zenon
    <3> HIDE DEF After
    <3> QED
      BY <3>2, Zenon
  <2> QED
    BY <2>5, <2>6
<1>5. Nat \subseteq Good
  <2> HIDE DEF Good
  <2> QED
    BY <1>3, <1>4, Induction, Zenon
<1>6. PICK i, a, b, f : After(n, i, a, b, f)
  <2>1. n <= n
    BY SMT
  <2> HIDE DEF After
  <2> QED
    BY <1>5, <2>1, Zenon
<1>7. Done(i, b, f)
  <2>1. SUFFICES ASSUME Len(i) <= n - n PROVE Done(i, b, f)
    BY <1>6, Zenon
  <2>2. i \in Seq(Nat)
    BY <1>6 DEF Reading, Holds
  <2>3. Len(i) \in Nat
    BY <2>2, LenProperties
  <2>4. Len(i) = 0
    BY SMT, <2>1, <2>3
  <2>5. i = <<>>
    BY <2>2, <2>4, EmptySeq
  <2>6. b \in Seq(Message)
    BY <1>6 DEF Reading, Holds
  <2> QED
    BY <2>5, <2>6, NothingIn DEF Done
<1>8. Decoded(Decode(input), todo, rest, i, a, b, f)
  BY <1>2, <1>6, <1>7, Zenon DEF Decoded
<1> QED
  BY <1>8, Zenon

\* The way of a client's messages: of those it wrote, w, mine were broadcast and
\* todo are in the input buffer of its connection and in the stream.
Sending(w, mine, srv, in, wire, todo) ==
    /\ mine \in Seq(Short) /\ todo \in Seq(Message) /\ w = mine \o todo
    /\ srv # "down" => Holds(in, wire, todo)
    /\ srv \in {"none", "up"} => ~Whole(in, todo) /\ ~TooLong(in, todo)

\* The way to a client: of the broadcast since it joined, it was shown rec, todo
\* are on the way and beyond were not sent to it.
Receiving(all, rec, cl, srv, in, wire, todo, beyond) ==
    /\ rec \in Seq(Short) /\ todo \in Seq(Short) /\ beyond \in Seq(Short)
    /\ all = (rec \o todo) \o beyond
    /\ cl # "down" => Holds(in, wire, todo) /\ ~Whole(in, todo)
    /\ (srv = "up" /\ cl = "up") => beyond = <<>>
    /\ srv = "none" => rec = <<>> /\ in = <<>> /\ wire = <<>>
    /\ cl = "new" => srv = "none"

\* A message more behind those that are waited for changes nothing in front.
LEMMA StillWaits ==
    ASSUME NEW in, NEW wire, NEW todo, NEW more, Holds(in, wire, todo), more \in Seq(Message)
    PROVE  /\ Holds(in, wire \o EncodeAll(more), todo \o more)
           /\ Whole(in, todo \o more) => Whole(in, todo)
           /\ TooLong(in, todo \o more) => TooLong(in, todo)
<1>0. /\ in \in Seq(Nat) /\ wire \in Seq(Nat) /\ todo \in Seq(Message)
      /\ EncodeAll(todo) = in \o wire
  BY DEF Holds
<1>1. PICK e : e = EncodeAll(more) /\ e \in Seq(Nat)
  BY EncodeAllIs, Zenon
<1>2. PICK all : all = todo \o more /\ all \in Seq(Message)
  BY <1>0, ConcatProperties
<1>3. wire \o e \in Seq(Nat)
  BY <1>0, <1>1, ConcatProperties
<1>4. EncodeAll(all) = in \o (wire \o e)
  <2>1. EncodeAll(all) = EncodeAll(todo) \o e
    BY <1>0, <1>1, <1>2, EncodeAllIs, Zenon
  <2>2. (in \o wire) \o e = in \o (wire \o e)
    <3>1. Three(Nat, in, wire, e)
      BY <1>0, <1>1, Zenon DEF Three
    <3> QED
      BY <3>1, Regroup, SMTT(30)
  <2> QED
    BY <1>0, <2>1, <2>2, Zenon
<1>5. Holds(in, wire \o e, all)
  BY <1>0, <1>2, <1>3, <1>4, Zenon DEF Holds
<1>6. CASE todo = <<>>
  <2>1. in \o wire = <<>>
    BY <1>0, <1>6, EncodeAllIs, Zenon
  <2>2. in = <<>>
    BY <1>0, <2>1, ConcatSimplifications, Zenon
  <2>3. ~Whole(in, all) /\ ~TooLong(in, all)
    BY <1>2, <2>2, NothingIn
  <2> QED
    BY <1>1, <1>2, <1>5, <2>3, Zenon
<1>7. CASE todo # <<>>
  <2>1. all[1] = todo[1]
    <3>1. Follows(Message, todo, more, all)
      BY SMT, <1>0, <1>2, ConcatIs DEF Pair
    <3>2. Len(todo) \in Nat \ {0}
      BY <1>0, <1>7, EmptySeq
    <3>3. 1 \in 1..Len(todo)
      BY SMT, <3>2
    <3> QED
      BY <3>1, <3>3, Zenon DEF Follows
  <2>2. Whole(in, all) => Whole(in, todo)
    BY <1>7, <2>1, Zenon DEF Whole
  <2>3. TooLong(in, all) => TooLong(in, todo)
    BY <1>7, <2>1, Zenon DEF TooLong
  <2> QED
    BY <1>1, <1>2, <1>5, <2>2, <2>3, Zenon
<1> QED
  BY <1>6, <1>7

\* With nothing on the way, nothing is waited for.
LEMMA NothingWaits ==
    ASSUME NEW in, NEW todo, Holds(in, <<>>, todo), ~Whole(in, todo), ~TooLong(in, todo)
    PROVE  todo = <<>>
<1>0. in \in Seq(Nat) /\ todo \in Seq(Message) /\ EncodeAll(todo) = in \o <<>>
  BY DEF Holds
<1>1. SUFFICES ASSUME todo # <<>> PROVE FALSE
  OBVIOUS
<1>2. EncodeAll(todo) = in
  BY <1>0, ConcatEmptySeq
<1>3. PICK m, h, tail, t : FirstIs(todo, m, h, tail, t)
  BY <1>0, <1>1, FirstOf, Zenon
<1>4. PICK hm : hm = h \o m
  OBVIOUS
<1>5. /\ hm \in Seq(Nat) /\ t \in Seq(Nat) /\ Len(hm) = KHeaderLen + Len(m)
      /\ Len(m) \in Nat /\ KHeaderLen \in Nat
  <2>1. Frame(m, h, t)
    BY <1>3, FirstParts
  <2> QED
    BY <1>4, <2>1, Zenon DEF Frame
<1>6. in = hm \o t /\ m = todo[1]
  BY <1>2, <1>3, <1>4, Zenon DEF FirstIs
<1>7. Len(in) = Len(hm) + Len(t) /\ Len(t) \in Nat
  BY <1>5, <1>6, ConcatProperties, LenProperties
<1>8. MaxLength \in Nat
  BY ChatAssumption
<1>9. Len(in) >= KHeaderLen /\ Len(in) >= KHeaderLen + Len(m)
  BY SMT, <1>5, <1>7
<1>10. Len(m) <= MaxLength \/ Len(m) > MaxLength
  BY SMT, <1>5, <1>8
<1> QED
  BY <1>1, <1>6, <1>9, <1>10, Zenon DEF Whole, TooLong

\* Bytes that have come are in front of those that have not.
LEMMA BytesCome ==
    ASSUME NEW in, NEW wire, NEW todo, Holds(in, wire, todo), NEW n, n \in DOMAIN wire
    PROVE  Holds(in \o SubSeq(wire, 1, n), SubSeq(wire, n + 1, Len(wire)), todo)
<1>0. /\ in \in Seq(Nat) /\ wire \in Seq(Nat) /\ todo \in Seq(Message)
      /\ EncodeAll(todo) = in \o wire
  BY DEF Holds
<1>1. PICK k \in Nat : k = Len(wire) /\ DOMAIN wire = 1..k
  BY <1>0, LenProperties
<1>2. n \in Nat /\ 1 <= n /\ n <= k
  BY <1>1
<1>3. PICK x, y : x = Piece(wire, 0, n) /\ y = Piece(wire, n, k)
  OBVIOUS
<1>4. x \in Seq(Nat) /\ y \in Seq(Nat)
  <2>1. 0 \in Nat /\ 0 <= n /\ n <= Len(wire) /\ k <= Len(wire)
    BY SMT, <1>1, <1>2
  <2>2. x \in Seq(Nat)
    BY <1>0, <1>2, <1>3, <2>1, PieceProperties, Zenon
  <2>3. y \in Seq(Nat)
    BY <1>0, <1>2, <1>3, <2>1, PieceProperties, Zenon
  <2> QED
    BY <2>2, <2>3
<1>5. x \o y = wire
  <2>1. 0 \in Nat /\ 0 <= n /\ n <= k /\ k <= Len(wire) /\ 0 + 1 = 1
    BY SMT, <1>1, <1>2
  <2>2. x \o y = Piece(wire, 0, k)
    BY <1>0, <1>2, <1>3, <2>1, PiecesJoin, Zenon
  <2>3. Piece(wire, 0, k) = wire
    BY <1>0, <1>1, <2>1, SubSeqFull DEF Piece
  <2> QED
    BY <2>2, <2>3
<1>6. in \o x \in Seq(Nat)
  BY <1>0, <1>4, ConcatProperties
<1>7. (in \o x) \o y = in \o (x \o y)
  <2>1. Three(Nat, in, x, y)
    BY <1>0, <1>4, Zenon DEF Three
  <2> QED
    BY <2>1, Regroup, SMTT(30)
<1>8. EncodeAll(todo) = (in \o x) \o y
  BY <1>0, <1>5, <1>7, Zenon
<1>9. Holds(in \o x, y, todo)
  BY <1>0, <1>4, <1>6, <1>8, Zenon DEF Holds
<1>10. x = SubSeq(wire, 1, n) /\ y = SubSeq(wire, n + 1, Len(wire))
  <2>1. 0 + 1 = 1
    BY SMT
  <2> QED
    BY <1>1, <1>3, <2>1, Zenon DEF Piece
<1> QED
  BY <1>9, <1>10, Zenon

LEMMA SendingWrites ==
    ASSUME NEW w, NEW mine, NEW srv, NEW in, NEW wire, NEW todo, NEW m,
           Sending(w, mine, srv, in, wire, todo), m \in Message
    PROVE  \E t : Sending(Append(w, m), mine, srv, in, wire \o EncodeMessage(m), t)
<1>0. /\ mine \in Seq(Short) /\ todo \in Seq(Message) /\ w = mine \o todo
      /\ srv # "down" => Holds(in, wire, todo)
      /\ srv \in {"none", "up"} => ~Whole(in, todo) /\ ~TooLong(in, todo)
  BY DEF Sending
<1>1. PICK one : one = <<m>> /\ one \in Seq(Message)
  BY Singleton, Zenon
<1>2. EncodeAll(one) = EncodeMessage(m)
  BY <1>1, EncodeAllIs, Zenon
<1>3. PICK t : t = todo \o one /\ t \in Seq(Message)
  BY <1>0, <1>1, ConcatProperties
<1>4. mine \in Seq(Message)
  BY <1>0, ShortMessages, Zenon
<1>5. Append(w, m) = mine \o t
  <2>1. w \in Seq(Message)
    BY <1>0, <1>4, ConcatProperties
  <2>2. Append(w, m) = w \o one
    BY <1>1, <2>1, AppendIsConcat
  <2>3. (mine \o todo) \o one = mine \o (todo \o one)
    <3>1. Three(Message, mine, todo, one)
      BY <1>0, <1>1, <1>4, Zenon DEF Three
    <3> QED
      BY <3>1, Regroup, SMTT(30)
  <2> QED
    BY <1>0, <1>3, <2>2, <2>3, Zenon
<1>6. srv # "down" => /\ Holds(in, wire \o EncodeMessage(m), t)
                      /\ Whole(in, t) => Whole(in, todo)
                      /\ TooLong(in, t) => TooLong(in, todo)
  BY <1>0, <1>1, <1>2, <1>3, StillWaits, Zenon
<1>7. srv \in {"none", "up"} => srv # "down"
  OBVIOUS
<1>8. Sending(Append(w, m), mine, srv, in, wire \o EncodeMessage(m), t)
  BY <1>0, <1>3, <1>5, <1>6, <1>7, Zenon DEF Sending
<1> QED
  BY <1>8, Zenon

LEMMA SendingReads ==
    ASSUME NEW w, NEW mine, NEW srv, NEW in, NEW wire, NEW todo, NEW n, NEW d,
           Sending(w, mine, srv, in, wire, todo), srv # "down", n \in DOMAIN wire,
           d = Decode(in \o SubSeq(wire, 1, n))
    PROVE  /\ d.messages \in Seq(Short)
           /\ \E t : Sending(w, mine \o d.messages, IF d.bad THEN "closing" ELSE srv,
                             d.input, SubSeq(wire, n + 1, Len(wire)), t)
<1>0. /\ mine \in Seq(Short) /\ todo \in Seq(Message) /\ w = mine \o todo
      /\ Holds(in, wire, todo)
  BY DEF Sending
<1>1. PICK input, rest : input = in \o SubSeq(wire, 1, n) /\ rest = SubSeq(wire, n + 1, Len(wire))
  OBVIOUS
<1>2. Holds(input, rest, todo)
  <2>1. Holds(in \o SubSeq(wire, 1, n), SubSeq(wire, n + 1, Len(wire)), todo)
    BY <1>0, BytesCome, Zenon
  <2> QED
    BY <1>1, <2>1, Zenon
<1>3. PICK i, a, b, f : Decoded(d, todo, rest, i, a, b, f)
  <2>1. d = Decode(input)
    BY <1>1
  <2>2. \E i, a, b, f : Decoded(Decode(input), todo, rest, i, a, b, f)
    BY <1>2, Decoding, Zenon
  <2> QED
    BY <2>1, <2>2
<1>4. /\ d = [input |-> i, messages |-> a, bad |-> f] /\ f \in BOOLEAN
      /\ Holds(i, rest, b) /\ a \in Seq(Short) /\ todo = a \o b
      /\ ~Whole(i, b) /\ (TooLong(i, b) => f)
  BY <1>3 DEF Decoded, Reading, Done
<1>5. d.input = i /\ d.messages = a /\ d.bad = f
  BY <1>4
<1>6. PICK s : s = IF f THEN "closing" ELSE srv
  OBVIOUS
<1>7. s \in {"none", "up"} => ~f
  BY <1>6
<1>8. b \in Seq(Message)
  BY <1>4 DEF Holds
<1>9. w = (mine \o a) \o b
  <2>1. mine \in Seq(Message) /\ a \in Seq(Message) /\ b \in Seq(Message)
    BY <1>0, <1>4, <1>8, ShortMessages, Zenon
  <2>2. (mine \o a) \o b = mine \o (a \o b)
    <3>1. Three(Message, mine, a, b)
      BY <2>1, Zenon DEF Three
    <3> QED
      BY <3>1, Regroup, SMTT(30)
  <2> QED
    BY <1>0, <1>4, <2>2, Zenon
<1>10. mine \o a \in Seq(Short)
  BY <1>0, <1>4, ConcatProperties
<1>11. Sending(w, mine \o a, s, i, rest, b)
  BY <1>4, <1>7, <1>8, <1>9, <1>10, Zenon DEF Sending
<1> QED
  BY <1>1, <1>4, <1>5, <1>6, <1>11, Zenon

LEMMA RestIsShort ==
    ASSUME NEW a, NEW b, NEW ab, a \in Seq(Short), b \in Seq(Message), ab = a \o b, ab \in Seq(Short)
    PROVE  b \in Seq(Short)
<1>0. a \in Seq(Message)
  BY ShortMessages, Zenon
<1>1. Follows(Message, a, b, ab)
  <2>1. Pair(Message, a, b)
    BY <1>0 DEF Pair
  <2>2. Follows(Message, a, b, a \o b)
    BY SMT, <2>1, ConcatIs
  <2> QED
    BY <2>2, Zenon
<1>2. PICK k \in Nat : k = Len(a)
  BY LenProperties
<1>3. PICK n \in Nat : n = Len(b) /\ b \in [1..n -> Message]
  BY LenProperties
<1>4. Len(ab) = k + n /\ \A i \in 1..n : ab[k + i] = b[i]
  BY <1>1, <1>2, <1>3, Zenon DEF Follows
<1>5. ASSUME NEW i \in 1..n PROVE b[i] \in Short
  <2>1. k + i \in 1..Len(ab)
    BY SMT, <1>4
  <2>2. ab[k + i] \in Short
    BY <2>1, ElementOfSeq, Zenon
  <2> QED
    BY <1>4, <2>2, Zenon
<1>6. b \in [1..n -> Short]
  BY <1>3, <1>5
<1> QED
  BY <1>6, SeqDef

LEMMA ReceivingReads ==
    ASSUME NEW all, NEW rec, NEW srv, NEW in, NEW wire, NEW todo, NEW beyond, NEW n, NEW d,
           Receiving(all, rec, "up", srv, in, wire, todo, beyond), n \in DOMAIN wire,
           d = Decode(in \o SubSeq(wire, 1, n))
    PROVE  \E t : Receiving(all, rec \o d.messages, "up", srv, d.input,
                            SubSeq(wire, n + 1, Len(wire)), t, beyond)
<1>0. /\ rec \in Seq(Short) /\ todo \in Seq(Short) /\ beyond \in Seq(Short)
      /\ all = (rec \o todo) \o beyond /\ Holds(in, wire, todo)
      /\ srv = "up" => beyond = <<>>
      /\ srv = "none" => wire = <<>>
  BY DEF Receiving
<1>1. PICK input, rest : input = in \o SubSeq(wire, 1, n) /\ rest = SubSeq(wire, n + 1, Len(wire))
  OBVIOUS
<1>2. Holds(input, rest, todo)
  <2>1. Holds(in \o SubSeq(wire, 1, n), SubSeq(wire, n + 1, Len(wire)), todo)
    BY <1>0, BytesCome, Zenon
  <2> QED
    BY <1>1, <2>1, Zenon
<1>3. PICK i, a, b, f : Decoded(d, todo, rest, i, a, b, f)
  <2>1. d = Decode(input)
    BY <1>1
  <2>2. \E i, a, b, f : Decoded(Decode(input), todo, rest, i, a, b, f)
    BY <1>2, Decoding, Zenon
  <2> QED
    BY <2>1, <2>2
<1>4. /\ d = [input |-> i, messages |-> a, bad |-> f]
      /\ Holds(i, rest, b) /\ a \in Seq(Short) /\ todo = a \o b /\ ~Whole(i, b)
  BY <1>3 DEF Decoded, Reading, Done
<1>5. d.input = i /\ d.messages = a
  BY <1>4
<1>6. srv # "none"
  <2>1. DOMAIN <<>> = {}
    OBVIOUS
  <2> QED
    BY <1>0, <2>1, Zenon
<1>7. b \in Seq(Short)
  <2>1. b \in Seq(Message)
    BY <1>4 DEF Holds
  <2> QED
    BY <1>0, <1>4, <2>1, RestIsShort, Zenon
<1>8. all = ((rec \o a) \o b) \o beyond
  <2>1. rec \in Seq(Short) /\ a \in Seq(Short) /\ b \in Seq(Short)
    BY <1>0, <1>4, <1>7
  <2>2. (rec \o a) \o b = rec \o (a \o b)
    <3>1. Three(Short, rec, a, b)
      BY <2>1, Zenon DEF Three
    <3> QED
      BY <3>1, Regroup, SMTT(30)
  <2> QED
    BY <1>0, <1>4, <2>2, Zenon
<1>9. rec \o a \in Seq(Short)
  BY <1>0, <1>4, ConcatProperties
<1>10. "up" # "new"
  OBVIOUS
<1>11. Receiving(all, rec \o a, "up", srv, i, rest, b, beyond)
  BY <1>0, <1>4, <1>6, <1>7, <1>8, <1>9, <1>10, Zenon DEF Receiving
<1> QED
  BY <1>1, <1>5, <1>11, Zenon

\* A broadcast of a: to a client that is connected, and past one that is not
LEMMA ReceivingGets ==
    ASSUME NEW all, NEW rec, NEW in, NEW wire, NEW todo, NEW beyond, NEW a, NEW s,
           Receiving(all, rec, "up", "up", in, wire, todo, beyond), a \in Seq(Short),
           s # "none"
    PROVE  \E t : Receiving(all \o a, rec, "up", s, in, wire \o EncodeAll(a), t, <<>>)
<1>0. /\ rec \in Seq(Short) /\ todo \in Seq(Short) /\ beyond = <<>>
      /\ all = (rec \o todo) \o beyond /\ Holds(in, wire, todo) /\ ~Whole(in, todo)
  BY DEF Receiving
<1>1. PICK t : t = todo \o a /\ t \in Seq(Short)
  BY <1>0, ConcatProperties
<1>2. a \in Seq(Message)
  BY ShortMessages, Zenon
<1>3. Holds(in, wire \o EncodeAll(a), t) /\ ~Whole(in, t)
  <2>1. Holds(in, wire \o EncodeAll(a), todo \o a) /\ (Whole(in, todo \o a) => Whole(in, todo))
    BY <1>0, <1>2, StillWaits, Zenon
  <2> QED
    BY <1>0, <1>1, <2>1, Zenon
<1>4. all \o a = (rec \o t) \o <<>> /\ <<>> \in Seq(Short)
  <2>1. rec \in Seq(Short) /\ todo \in Seq(Short) /\ a \in Seq(Short)
    BY <1>0
  <2>2. (rec \o todo) \o a = rec \o (todo \o a)
    <3>1. Three(Short, rec, todo, a)
      BY <2>1, Zenon DEF Three
    <3> QED
      BY <3>1, Regroup, SMTT(30)
  <2>3. rec \o todo \in Seq(Short) /\ rec \o t \in Seq(Short)
    BY <1>0, <1>1, ConcatProperties
  <2>4. (rec \o todo) \o <<>> = rec \o todo
    BY <2>3, ConcatEmptySeq
  <2>5. (rec \o t) \o <<>> = rec \o t
    BY <2>3, ConcatEmptySeq
  <2>6. <<>> \in Seq(Short)
    OBVIOUS
  <2> QED
    BY <1>0, <1>1, <2>2, <2>4, <2>5, <2>6, Zenon
<1>5. "up" # "new" /\ "up" # "down"
  OBVIOUS
<1>6. Receiving(all \o a, rec, "up", s, in, wire \o EncodeAll(a), t, <<>>)
  BY <1>0, <1>1, <1>3, <1>4, <1>5, Zenon DEF Receiving
<1> QED
  BY <1>6, Zenon

LEMMA ReceivingMisses ==
    ASSUME NEW all, NEW rec, NEW cl, NEW srv, NEW in, NEW wire, NEW todo, NEW beyond, NEW a, NEW s,
           Receiving(all, rec, cl, srv, in, wire, todo, beyond), a \in Seq(Short),
           ~(srv = "up" /\ cl = "up"), s = srv \/ (srv # "none" /\ s = "closing")
    PROVE  Receiving(all \o a, rec, cl, s, in, wire, todo, beyond \o a)
<1>0. /\ rec \in Seq(Short) /\ todo \in Seq(Short) /\ beyond \in Seq(Short)
      /\ all = (rec \o todo) \o beyond
      /\ cl # "down" => Holds(in, wire, todo) /\ ~Whole(in, todo)
      /\ srv = "none" => rec = <<>> /\ in = <<>> /\ wire = <<>>
      /\ cl = "new" => srv = "none"
  BY DEF Receiving
<1>1. rec \o todo \in Seq(Short) /\ beyond \o a \in Seq(Short)
  BY <1>0, ConcatProperties
<1>2. all \o a = (rec \o todo) \o (beyond \o a)
  <2>1. PICK rt : rt = rec \o todo /\ rt \in Seq(Short)
    BY <1>1
  <2>2. rt \in Seq(Short) /\ beyond \in Seq(Short) /\ a \in Seq(Short)
    BY <1>0, <2>1
  <2>3. (rt \o beyond) \o a = rt \o (beyond \o a)
    <3>1. Three(Short, rt, beyond, a)
      BY <2>2, Zenon DEF Three
    <3> QED
      BY <3>1, Regroup, SMTT(30)
  <2> QED
    BY <1>0, <2>1, <2>3, Zenon
<1>3. s # "up" \/ cl # "up"
  OBVIOUS
<1>4. s = "none" => srv = "none"
  OBVIOUS
<1>5. cl = "new" => s = "none"
  BY <1>0
<1> QED
  BY <1>0, <1>1, <1>2, <1>3, <1>4, <1>5, Zenon DEF Receiving

-----------------------------------------------------------------------------
(* The log: what a broadcast adds to the messages of each client.           *)

Entry == [from : Clients, text : Short]

\* The messages of x as they enter the log
Tagged(x, a) == [i \in DOMAIN a |-> [from |-> x, text |-> a[i]]]

OfClient(c, l) == FlattenSeq([i \in DOMAIN l |-> IF l[i].from = c THEN <<l[i].text>> ELSE <<>>])
Since(l, j) == Texts(SubSeq(l, j + 1, Len(l)))

Tag(x) == [m \in Short |-> [from |-> x, text |-> m]]
Pick(c) == [e \in Entry |-> IF e.from = c THEN <<e.text>> ELSE <<>>]
Text == [e \in Entry |-> e.text]

LEMMA TaggedType ==
    ASSUME NEW x, NEW a, x \in Clients, a \in Seq(Short)
    PROVE  Tagged(x, a) = Mapped(Tag(x), a) /\ Image(Entry, Tag(x), a, Mapped(Tag(x), a))
<1>1. \A i \in DOMAIN a : a[i] \in Short
  BY LenProperties, ElementOfSeq
<1>2. Tag(x) \in [Short -> Entry]
  BY DEF Tag, Entry
<1>3. \A i \in DOMAIN a : Tag(x)[a[i]] = [from |-> x, text |-> a[i]]
  BY <1>1 DEF Tag
<1>4. Tagged(x, a) = Mapped(Tag(x), a)
  BY <1>3 DEF Tagged, Mapped
<1>5. Maps(Short, Entry, Tag(x), a)
  BY <1>2 DEF Maps
<1>6. Image(Entry, Tag(x), a, Mapped(Tag(x), a))
  BY SMT, <1>5, MappedType
<1> QED
  BY <1>4, <1>6

LEMMA PickType ==
    ASSUME NEW c
    PROVE  /\ JoinLaws(Entry, Short, Pick(c))
           /\ \A l \in Seq(Entry) : OfClient(c, l) = Joined(Pick(c), l)
<1>1. ASSUME NEW e \in Entry PROVE Pick(c)[e] \in Seq(Short)
  <2>1. e.text \in Short
    BY DEF Entry
  <2>2. <<e.text>> \in Seq(Short) /\ <<>> \in Seq(Short)
    BY <2>1
  <2> QED
    BY <2>2 DEF Pick
<1>2. Pick(c) \in [Entry -> Seq(Short)]
  BY <1>1 DEF Pick
<1>3. JoinLaws(Entry, Short, Pick(c))
  BY SMT, <1>2, JoinedIs
<1>4. ASSUME NEW l \in Seq(Entry) PROVE OfClient(c, l) = Joined(Pick(c), l)
  <2>1. \A i \in DOMAIN l : l[i] \in Entry
    BY LenProperties, ElementOfSeq
  <2>2. \A i \in DOMAIN l : Pick(c)[l[i]] = IF l[i].from = c THEN <<l[i].text>> ELSE <<>>
    BY <2>1, Zenon DEF Pick
  <2>3. [i \in DOMAIN l |-> IF l[i].from = c THEN <<l[i].text>> ELSE <<>>]
           = [i \in DOMAIN l |-> Pick(c)[l[i]]]
    BY <2>2, Zenon
  <2> QED
    BY <2>3, Zenon DEF OfClient, Joined, Mapped
<1> QED
  BY <1>3, <1>4

\* What x's messages a are among those of c
Share(c, x, a) == IF c = x THEN a ELSE <<>>

LEMMA OneTagged ==
    ASSUME NEW c, NEW x, NEW m, x \in Clients, m \in Short
    PROVE  Tag(x)[m] \in Entry /\ Pick(c)[Tag(x)[m]] = Share(c, x, <<m>>)
<1>1. PICK e : e = Tag(x)[m]
  OBVIOUS
<1>2. e = [from |-> x, text |-> m]
  BY <1>1 DEF Tag
<1>3. e \in Entry /\ e.from = x /\ e.text = m
  BY <1>2 DEF Entry
<1>4. Pick(c)[e] = IF e.from = c THEN <<e.text>> ELSE <<>>
  BY <1>3 DEF Pick
<1>5. Pick(c)[e] = Share(c, x, <<m>>)
  BY <1>3, <1>4 DEF Share
<1> QED
  BY <1>1, <1>3, <1>5, Zenon

LEMMA TaggedPicked ==
    ASSUME NEW c, NEW x, x \in Clients
    PROVE  \A a \in Seq(Short) : Joined(Pick(c), Mapped(Tag(x), a)) = Share(c, x, a)
<1> DEFINE J(a) == Joined(Pick(c), Mapped(Tag(x), a))
           P == {a \in Seq(Short) : J(a) = Share(c, x, a)}
<1>0. Tag(x) \in [Short -> Entry]
  BY DEF Tag, Entry
<1>1. <<>> \in P
  <2>1. <<>> \in Seq(Short)
    OBVIOUS
  <2>2. Image(Entry, Tag(x), <<>>, Mapped(Tag(x), <<>>))
    BY <2>1, TaggedType, Zenon
  <2>3. Mapped(Tag(x), <<>>) \in Seq(Entry) /\ Len(Mapped(Tag(x), <<>>)) = Len(<<>>)
    BY <2>2, Zenon DEF Image
  <2>4. Mapped(Tag(x), <<>>) = <<>>
    BY <2>3, EmptySeq
  <2>5. J(<<>>) = <<>>
    BY <2>4, PickType, Zenon DEF JoinLaws
  <2>6. Share(c, x, <<>>) = <<>>
    BY DEF Share
  <2> QED
    BY <2>1, <2>5, <2>6, Zenon
<1>2. ASSUME NEW a \in Seq(Short), NEW m \in Short, a \in P PROVE Append(a, m) \in P
  <2>1. PICK one : one = <<m>> /\ one \in Seq(Short)
    BY Singleton, Zenon
  <2>2. Append(a, m) = a \o one /\ Append(a, m) \in Seq(Short)
    BY <2>1, AppendIsConcat, AppendProperties
  <2>3. Mapped(Tag(x), a \o one) = Mapped(Tag(x), a) \o Mapped(Tag(x), one)
    <3>1. Maps(Short, Entry, Tag(x), a) /\ Maps(Short, Entry, Tag(x), one)
      BY <1>0, <2>1 DEF Maps
    <3> QED
      BY SMT, <3>1, MappedConcat
  <2>4. Mapped(Tag(x), one) = <<Tag(x)[m]>>
    BY <1>0, <2>1, MappedOne, Zenon
  <2>5. PICK e : e = Tag(x)[m] /\ e \in Entry
    BY OneTagged, Zenon
  <2>6. <<e>> \in Seq(Entry)
    BY <2>5
  <2>7. Mapped(Tag(x), a) \in Seq(Entry)
    BY TaggedType, Zenon DEF Image
  <2>8. J(a \o one) = J(a) \o Pick(c)[e]
    <3>1. J(a \o one) = Joined(Pick(c), Mapped(Tag(x), a) \o <<e>>)
      BY <2>3, <2>4, <2>5, Zenon
    <3>2. Joined(Pick(c), Mapped(Tag(x), a) \o <<e>>) = J(a) \o Joined(Pick(c), <<e>>)
      BY <2>6, <2>7, PickType, Zenon DEF JoinLaws
    <3>3. Joined(Pick(c), <<e>>) = Pick(c)[e]
      BY <2>5, PickType, Zenon DEF JoinLaws
    <3> QED
      BY <3>1, <3>2, <3>3, Zenon
  <2> HIDE DEF J
  <2>9. Pick(c)[e] = Share(c, x, one)
    <3>1. Pick(c)[Tag(x)[m]] = Share(c, x, <<m>>)
      BY OneTagged, Zenon
    <3> QED
      BY <2>1, <2>5, <3>1, Zenon
  <2>10. Share(c, x, a) \o Share(c, x, one) = Share(c, x, a \o one)
    <3>1. <<>> \o <<>> = <<>>
      OBVIOUS
    <3> QED
      BY <3>1, Zenon DEF Share
  <2> QED
    BY <1>2, <2>2, <2>8, <2>9, <2>10, Zenon
<1>3. Seq(Short) \subseteq P
  <2> HIDE DEF P
  <2> QED
    BY <1>1, <1>2, SequenceInduction, Zenon
<1> QED
  BY <1>3

\* What is in the log of c's messages, before and after x has sent a
LEMMA LogOfClient ==
    ASSUME NEW c, NEW l, NEW x, NEW a, l \in Seq(Entry), x \in Clients, a \in Seq(Short)
    PROVE  /\ OfClient(c, l) \in Seq(Short) /\ l \o Tagged(x, a) \in Seq(Entry)
           /\ OfClient(c, l \o Tagged(x, a)) = OfClient(c, l) \o Share(c, x, a)
<1>1. PICK e : e = Tagged(x, a) /\ e = Mapped(Tag(x), a) /\ e \in Seq(Entry)
  BY TaggedType, Zenon DEF Image
<1>2. l \o e \in Seq(Entry)
  BY <1>1, ConcatProperties
<1>3. OfClient(c, l \o e) = OfClient(c, l) \o Joined(Pick(c), e) /\ OfClient(c, l) \in Seq(Short)
  <2>1. OfClient(c, l \o e) = Joined(Pick(c), l \o e) /\ OfClient(c, l) = Joined(Pick(c), l)
    BY <1>2, PickType, Zenon
  <2>2. Joined(Pick(c), l \o e) = Joined(Pick(c), l) \o Joined(Pick(c), e) /\ Joined(Pick(c), l) \in Seq(Short)
    BY <1>1, PickType, Zenon DEF JoinLaws
  <2> QED
    BY <2>1, <2>2, Zenon
<1>4. Joined(Pick(c), Mapped(Tag(x), a)) = Share(c, x, a)
  BY TaggedPicked, Zenon
<1> QED
  BY <1>1, <1>2, <1>3, <1>4, Zenon

LEMMA TextsAre ==
    /\ Text \in [Entry -> Short]
    /\ \A q \in Seq(Entry) : Texts(q) = Mapped(Text, q) /\ Texts(q) \in Seq(Short)
<1>1. Text \in [Entry -> Short]
  BY DEF Text, Entry
<1>2. ASSUME NEW q \in Seq(Entry) PROVE Texts(q) = Mapped(Text, q) /\ Texts(q) \in Seq(Short)
  <2>1. \A i \in DOMAIN q : q[i] \in Entry
    BY LenProperties, ElementOfSeq
  <2>2. \A i \in DOMAIN q : Text[q[i]] = q[i].text
    BY <2>1 DEF Text
  <2>3. Texts(q) = Mapped(Text, q)
    BY <2>2 DEF Texts, Mapped
  <2>4. Maps(Entry, Short, Text, q)
    BY <1>1 DEF Maps
  <2>5. Image(Short, Text, q, Mapped(Text, q))
    BY SMT, <2>4, MappedType
  <2> QED
    BY <2>3, <2>5, Zenon DEF Image
<1> QED
  BY <1>1, <1>2

LEMMA TextsOfTagged ==
    ASSUME NEW x, NEW a, x \in Clients, a \in Seq(Short)
    PROVE  Texts(Tagged(x, a)) = a
<1>0. PICK e : e = Tagged(x, a) /\ e = Mapped(Tag(x), a) /\ Image(Entry, Tag(x), a, e)
  BY TaggedType, Zenon
<1>1. /\ e = Tagged(x, a) /\ e \in Seq(Entry) /\ Len(e) = Len(a)
      /\ \A i \in 1..Len(a) : e[i] = Tag(x)[a[i]]
  BY <1>0, Zenon DEF Image
<1>2. PICK z : /\ z = Texts(e) /\ z \in Seq(Short) /\ Len(z) = Len(e)
               /\ \A i \in 1..Len(e) : z[i] = Text[e[i]]
  <2>1. Maps(Entry, Short, Text, e)
    BY <1>1, TextsAre DEF Maps
  <2>2. Image(Short, Text, e, Mapped(Text, e))
    BY SMT, <2>1, MappedType
  <2>3. Texts(e) = Mapped(Text, e)
    BY <1>1, TextsAre, Zenon
  <2> QED
    BY <2>2, <2>3, Zenon DEF Image
<1>3. ASSUME NEW i \in 1..Len(a) PROVE z[i] = a[i]
  <2>1. a[i] \in Short
    BY ElementOfSeq
  <2>2. Text[Tag(x)[a[i]]] = a[i]
    <3>1. PICK m \in Short : m = a[i]
      BY <2>1
    <3>2. Tag(x)[m] = [from |-> x, text |-> m]
      BY DEF Tag
    <3>3. [from |-> x, text |-> m] \in Entry /\ [from |-> x, text |-> m].text = m
      BY DEF Entry
    <3>4. Text[Tag(x)[m]] = m
      BY <3>2, <3>3 DEF Text
    <3> QED
      BY <3>1, <3>4
  <2>3. z[i] = Text[e[i]] /\ e[i] = Tag(x)[a[i]]
    BY <1>1, <1>2, Zenon
  <2> QED
    BY <2>2, <2>3, Zenon
<1>4. z = a
  BY <1>1, <1>2, <1>3, SeqEqual, Zenon
<1> QED
  BY <1>1, <1>2, <1>4, Zenon

\* What is in the log since a place j in it, before and after x has sent a
SinceGrows(l, j, x, a) == Since(l \o Tagged(x, a), j) = Since(l, j) \o a

LEMMA LogSince ==
    ASSUME NEW l, NEW j, NEW x, NEW a, l \in Seq(Entry), j \in Nat, j <= Len(l),
           x \in Clients, a \in Seq(Short)
    PROVE  /\ Since(l, j) \in Seq(Short) /\ SinceGrows(l, j, x, a)
           /\ Len(l) \in Nat /\ Len(l) <= Len(l \o Tagged(x, a)) /\ Since(l, Len(l)) = <<>>
<1>1. PICK n \in Nat : n = Len(l)
  BY LenProperties
<1>2. PICK e : e = Tagged(x, a) /\ e \in Seq(Entry)
  BY TaggedType, Zenon DEF Image
<1>3. PICK p, q : p = SubSeq(l, 1, j) /\ q = SubSeq(l, j + 1, n)
  OBVIOUS
<1>4. \A i \in 1..n : l[i] \in Entry
  BY <1>1, ElementOfSeq
<1>5. p \in Seq(Entry) /\ Len(p) = j
  BY <1>1, <1>3, <1>4, SubSeqProperties
<1>6. q \in Seq(Entry)
  BY <1>1, <1>3, <1>4, SubSeqProperties
<1>7. l = p \o q
  <2>1. 1 \in 1..(n + 1) /\ j \in (1 - 1)..n /\ n \in j..n
    BY SMT, <1>1
  <2>2. SubSeq(l, 1, j) \o SubSeq(l, j + 1, n) = SubSeq(l, 1, n)
    BY <1>1, <2>1, ConcatAdjacentSubSeq
  <2>3. SubSeq(l, 1, n) = l
    BY <1>1, SubSeqFull
  <2> QED
    BY <1>3, <2>2, <2>3, Zenon
<1>8. Since(l, j) = Texts(q) /\ Texts(q) \in Seq(Short)
  BY <1>1, <1>3, <1>6, TextsAre, Zenon DEF Since
<1>9. Since(l \o e, j) = Since(l, j) \o a
  <2>1. PICK qe : qe = q \o e /\ qe \in Seq(Entry)
    BY <1>2, <1>6, ConcatProperties
  <2>2. p \o qe = l \o e
    <3>1. Three(Entry, p, q, e)
      BY <1>2, <1>5, <1>6, Zenon DEF Three
    <3>2. (p \o q) \o e = p \o (q \o e)
      BY <3>1, Regroup, SMTT(30)
    <3> QED
      BY <1>7, <2>1, <3>2
  <2>3. SubSeq(p \o qe, Len(p) + 1, Len(p \o qe)) = qe
    <3>1. Three(Entry, p, qe, qe)
      BY <1>5, <2>1, Zenon DEF Three
    <3>2. Cuts(Entry, p, qe, qe)
      BY SMT, <3>1, CutOut
    <3> QED
      BY <3>2, Zenon DEF Cuts
  <2>4. Since(l \o e, j) = Texts(qe)
    BY <1>5, <2>2, <2>3, Zenon DEF Since
  <2>5. Texts(qe) = Texts(q) \o Texts(e)
    <3>1. Maps(Entry, Short, Text, q) /\ Maps(Entry, Short, Text, e)
      BY <1>2, <1>6, TextsAre, Zenon DEF Maps
    <3>2. Mapped(Text, q \o e) = Mapped(Text, q) \o Mapped(Text, e)
      BY SMT, <3>1, MappedConcat
    <3>3. Texts(qe) = Mapped(Text, qe) /\ Texts(q) = Mapped(Text, q) /\ Texts(e) = Mapped(Text, e)
      BY <1>2, <1>6, <2>1, TextsAre, Zenon
    <3> QED
      BY <2>1, <3>2, <3>3, Zenon
  <2>6. Texts(e) = a
    BY <1>2, TextsOfTagged, Zenon
  <2> QED
    BY <1>8, <2>4, <2>5, <2>6, Zenon
<1>10. Len(l) <= Len(l \o e)
  <2>1. Len(l \o e) = n + Len(e) /\ Len(e) \in Nat
    BY <1>1, <1>2, ConcatProperties, LenProperties
  <2> QED
    BY SMT, <1>1, <2>1
<1>11. Since(l, n) = <<>>
  <2>1. n < n + 1 /\ n \in Int /\ n + 1 \in Int
    BY SMT
  <2>2. SubSeq(l, n + 1, n) = <<>>
    BY <2>1, SubSeqEmpty
  <2>3. <<>> \in Seq(Entry) /\ DOMAIN <<>> = {}
    OBVIOUS
  <2>4. Texts(<<>>) = <<>>
    BY <2>3 DEF Texts
  <2> QED
    BY <1>1, <2>2, <2>4, Zenon DEF Since
<1>12. SinceGrows(l, j, x, a)
  BY <1>2, <1>9, Zenon DEF SinceGrows
<1> QED
  BY <1>1, <1>2, <1>8, <1>10, <1>11, <1>12, Zenon

-----------------------------------------------------------------------------
(* The inductive invariant of the chat.                                     *)

PerClient(f) == f = [x \in Clients |-> f[x]]

\* f and g differ at c only, where g is v.
Only(f, c, v, g) == PerClient(g) /\ g[c] = v /\ \A x \in Clients : x # c => g[x] = f[x]

Update(f, c, v, g) == PerClient(f) /\ c \in Clients /\ g = [f EXCEPT ![c] = v]

LEMMA At ==
    ASSUME NEW f, NEW c, NEW v, NEW g, Update(f, c, v, g)
    PROVE  Only(f, c, v, g)
  BY DEF PerClient, Only, Update

Sends(c) ==
    \E todo : Sending(written[c], OfClient(c, log), server[c], serverInput[c], toServer[c], todo)

Receives(c) ==
    \E todo, beyond : Receiving(Since(log, joinedAt[c]), received[c], client[c], server[c],
                                clientInput[c], toClient[c], todo, beyond)

ChatTyped ==
    /\ PerClient(client) /\ PerClient(server) /\ PerClient(toServer) /\ PerClient(toClient)
    /\ PerClient(serverInput) /\ PerClient(clientInput) /\ PerClient(written)
    /\ PerClient(joinedAt) /\ PerClient(received)
    /\ log \in Seq(Entry)

InLog == \A c \in Clients : joinedAt[c] \in Nat /\ joinedAt[c] <= Len(log)

ChatInv ==
    /\ ChatTyped /\ InLog
    /\ \A c \in Clients : Sends(c)
    /\ \A c \in Clients : Receives(c)

LEMMA SameSends ==
    ASSUME NEW x, Sends(x), written'[x] = written[x], log' = log, server'[x] = server[x],
           serverInput'[x] = serverInput[x], toServer'[x] = toServer[x]
    PROVE  Sends(x)'
  BY Zenon DEF Sends

LEMMA SameReceives ==
    ASSUME NEW x, Receives(x), log' = log, joinedAt'[x] = joinedAt[x], received'[x] = received[x],
           client'[x] = client[x], server'[x] = server[x], clientInput'[x] = clientInput[x],
           toClient'[x] = toClient[x]
    PROVE  Receives(x)'
  BY Zenon DEF Receives

LEMMA HoldsNothing == Holds(<<>>, <<>>, <<>>) /\ ~Whole(<<>>, <<>>) /\ ~TooLong(<<>>, <<>>)
<1>1. <<>> \in Seq(Nat) /\ <<>> \in Seq(Message) /\ <<>> \o <<>> = <<>>
  OBVIOUS
<1> QED
  BY <1>1, EncodeAllIs, NothingIn, Zenon DEF Holds

LEMMA ChatInitInv == ChatInit => ChatInv
<1> SUFFICES ASSUME ChatInit PROVE ChatInv
  OBVIOUS
<1>0. <<>> \in Seq(Short) /\ <<>> \in Seq(Message) /\ <<>> \in Seq(Entry) /\ <<>> \o <<>> = <<>>
  OBVIOUS
<1>1. ChatTyped
  BY <1>0 DEF ChatInit, Each, ChatTyped, PerClient
<1>2. /\ log = <<>>
      /\ \A c \in Clients : /\ client[c] = "new" /\ server[c] = "none" /\ toServer[c] = <<>>
                             /\ toClient[c] = <<>> /\ serverInput[c] = <<>>
                             /\ clientInput[c] = <<>> /\ written[c] = <<>>
                             /\ received[c] = <<>> /\ joinedAt[c] = 0
  BY DEF ChatInit, Each
<1>3. Len(<<>>) = 0
  OBVIOUS
<1>4. InLog
  BY <1>2, <1>3 DEF InLog
<1>5. ASSUME NEW c \in Clients PROVE Sends(c)
  <2>1. OfClient(c, <<>>) = <<>>
    <3>1. DOMAIN <<>> = {}
      OBVIOUS
    <3>2. [i \in DOMAIN <<>> |-> IF <<>>[i].from = c THEN <<<<>>[i].text>> ELSE <<>>] = <<>>
      BY <3>1
    <3> QED
      BY <3>2, FlattenEmpty, Zenon DEF OfClient
  <2>2. Sending(<<>>, <<>>, "none", <<>>, <<>>, <<>>)
    BY <1>0, HoldsNothing, Zenon DEF Sending
  <2> QED
    BY <1>2, <2>1, <2>2, Zenon DEF Sends
<1>6. ASSUME NEW c \in Clients PROVE Receives(c)
  <2>1. Since(<<>>, 0) = <<>>
    <3>1. 0 \in Nat /\ 0 <= Len(<<>>)
      BY SMT, <1>3
    <3> QED
      BY <1>0, <1>3, <3>1, LogSince, Zenon
  <2>2. Receiving(<<>>, <<>>, "new", "none", <<>>, <<>>, <<>>, <<>>)
    BY <1>0, HoldsNothing, Zenon DEF Receiving
  <2> QED
    BY <1>2, <2>1, <2>2, Zenon DEF Receives
<1> QED
  BY <1>1, <1>4, <1>5, <1>6, Zenon DEF ChatInv

LEMMA ChatStutters == ChatInv /\ UNCHANGED chatVars => ChatInv'
<1> SUFFICES ASSUME ChatInv, UNCHANGED chatVars PROVE ChatInv'
  OBVIOUS
<1>0. /\ client' = client /\ server' = server /\ toServer' = toServer /\ toClient' = toClient
      /\ serverInput' = serverInput /\ clientInput' = clientInput /\ written' = written
      /\ log' = log /\ joinedAt' = joinedAt /\ received' = received
  BY DEF chatVars
<1>1. ChatTyped' /\ InLog'
  BY <1>0 DEF ChatInv, ChatTyped, InLog
<1>2. \A c \in Clients : Sends(c)'
  BY <1>0, SameSends, Zenon DEF ChatInv
<1>3. \A c \in Clients : Receives(c)'
  BY <1>0, SameReceives, Zenon DEF ChatInv
<1> QED
  BY <1>1, <1>2, <1>3, Zenon DEF ChatInv

LEMMA ClientUpKeeps ==
    ASSUME ChatInv, NEW c, c \in Clients, ClientUp(c)
    PROVE  ChatInv'
<1>0. /\ client[c] = "new" /\ client' = [client EXCEPT ![c] = "up"]
      /\ server' = server /\ toServer' = toServer /\ toClient' = toClient
      /\ serverInput' = serverInput /\ clientInput' = clientInput /\ written' = written
      /\ log' = log /\ joinedAt' = joinedAt /\ received' = received
  BY DEF ClientUp
<1>1. PerClient(client') /\ client'[c] = "up" /\ \A x \in Clients : x # c => client'[x] = client[x]
  <2>1. PerClient(client)
    BY DEF ChatInv, ChatTyped
  <2>2. Only(client, c, "up", client')
    <3>1. Update(client, c, "up", client')
      BY <1>0, <2>1, Zenon DEF Update
    <3> QED
      BY SMT, <3>1, At
  <2> QED
    BY <2>2, Zenon DEF Only
<1>2. ChatTyped' /\ InLog'
  BY <1>0, <1>1, Zenon DEF ChatInv, ChatTyped, InLog
<1>3. \A x \in Clients : Sends(x)'
  BY <1>0, SameSends, Zenon DEF ChatInv
<1>4. ASSUME NEW x \in Clients PROVE Receives(x)'
  <2>1. CASE x # c
    BY <1>0, <1>1, <2>1, SameReceives, Zenon DEF ChatInv
  <2>2. CASE x = c
    <3>1. PICK todo, beyond :
             Receiving(Since(log, joinedAt[c]), received[c], client[c], server[c],
                       clientInput[c], toClient[c], todo, beyond)
      BY Zenon DEF ChatInv, Receives
    <3>2. Receiving(Since(log, joinedAt[c]), received[c], "up", server[c],
                    clientInput[c], toClient[c], todo, beyond)
      <4>1. "new" # "down" /\ "up" # "new" /\ "none" # "up"
        OBVIOUS
      <4> QED
        BY <1>0, <3>1, <4>1, Zenon DEF Receiving
    <3> QED
      BY <1>0, <1>1, <2>2, <3>2, Zenon DEF Receives
  <2> QED
    BY <2>1, <2>2
<1> QED
  BY <1>2, <1>3, <1>4, Zenon DEF ChatInv

LEMMA ClientDownKeeps ==
    ASSUME ChatInv, NEW c, c \in Clients, ClientDown(c)
    PROVE  ChatInv'
<1>0. /\ client[c] = "up" /\ client' = [client EXCEPT ![c] = "down"]
      /\ toClient' = [toClient EXCEPT ![c] = <<>>]
      /\ server' = server /\ toServer' = toServer
      /\ serverInput' = serverInput /\ clientInput' = clientInput /\ written' = written
      /\ log' = log /\ joinedAt' = joinedAt /\ received' = received
  BY DEF ClientDown
<1>a. PerClient(client) /\ PerClient(toClient)
  BY DEF ChatInv, ChatTyped
<1>1. PerClient(client') /\ client'[c] = "down" /\ \A x \in Clients : x # c => client'[x] = client[x]
  <2>1. Only(client, c, "down", client')
    <3>1. Update(client, c, "down", client')
      BY <1>0, <1>a, Zenon DEF Update
    <3> QED
      BY SMT, <3>1, At
  <2> QED
    BY <2>1, Zenon DEF Only
<1>2. PerClient(toClient') /\ toClient'[c] = <<>> /\ \A x \in Clients : x # c => toClient'[x] = toClient[x]
  <2>1. Only(toClient, c, <<>>, toClient')
    <3>1. Update(toClient, c, <<>>, toClient')
      BY <1>0, <1>a, Zenon DEF Update
    <3> QED
      BY SMT, <3>1, At
  <2> QED
    BY <2>1, Zenon DEF Only
<1>3. ChatTyped' /\ InLog'
  BY <1>0, <1>1, <1>2, Zenon DEF ChatInv, ChatTyped, InLog
<1>4. \A x \in Clients : Sends(x)'
  BY <1>0, SameSends, Zenon DEF ChatInv
<1>5. ASSUME NEW x \in Clients PROVE Receives(x)'
  <2>1. CASE x # c
    BY <1>0, <1>1, <1>2, <2>1, SameReceives, Zenon DEF ChatInv
  <2>2. CASE x = c
    <3>1. PICK todo, beyond :
             Receiving(Since(log, joinedAt[c]), received[c], client[c], server[c],
                       clientInput[c], toClient[c], todo, beyond)
      BY Zenon DEF ChatInv, Receives
    <3>2. Receiving(Since(log, joinedAt[c]), received[c], "down", server[c],
                    clientInput[c], <<>>, todo, beyond)
      <4>1. "down" # "new" /\ "down" # "up"
        OBVIOUS
      <4> QED
        BY <1>0, <3>1, <4>1, Zenon DEF Receiving
    <3> QED
      BY <1>0, <1>1, <1>2, <2>2, <3>2, Zenon DEF Receives
  <2> QED
    BY <2>1, <2>2
<1> QED
  BY <1>3, <1>4, <1>5, Zenon DEF ChatInv

LEMMA ServerUpKeeps ==
    ASSUME ChatInv, NEW c, c \in Clients, ServerUp(c)
    PROVE  ChatInv'
<1>0. /\ client[c] # "new" /\ server[c] = "none" /\ server' = [server EXCEPT ![c] = "up"]
      /\ joinedAt' = [joinedAt EXCEPT ![c] = Len(log)]
      /\ client' = client /\ toServer' = toServer /\ toClient' = toClient
      /\ serverInput' = serverInput /\ clientInput' = clientInput /\ written' = written
      /\ log' = log /\ received' = received
  BY DEF ServerUp
<1>a. PerClient(server) /\ PerClient(joinedAt)
  BY DEF ChatInv, ChatTyped
<1>1. PerClient(server') /\ server'[c] = "up" /\ \A x \in Clients : x # c => server'[x] = server[x]
  <2>1. Only(server, c, "up", server')
    <3>1. Update(server, c, "up", server')
      BY <1>0, <1>a, Zenon DEF Update
    <3> QED
      BY SMT, <3>1, At
  <2> QED
    BY <2>1, Zenon DEF Only
<1>2. PerClient(joinedAt') /\ joinedAt'[c] = Len(log) /\ \A x \in Clients : x # c => joinedAt'[x] = joinedAt[x]
  <2>1. Only(joinedAt, c, Len(log), joinedAt')
    <3>1. Update(joinedAt, c, Len(log), joinedAt')
      BY <1>0, <1>a, Zenon DEF Update
    <3> QED
      BY SMT, <3>1, At
  <2> QED
    BY <2>1, Zenon DEF Only
<1>3. ChatTyped'
  BY <1>0, <1>1, <1>2, Zenon DEF ChatInv, ChatTyped
<1>4. log \in Seq(Entry) /\ Len(log) \in Nat /\ Len(log) <= Len(log)
  <2>1. log \in Seq(Entry)
    BY DEF ChatInv, ChatTyped
  <2>2. Len(log) \in Nat
    BY <2>1, LenProperties
  <2> QED
    BY <2>1, <2>2
<1>5. InLog'
  <2>1. ASSUME NEW x \in Clients PROVE joinedAt'[x] \in Nat /\ joinedAt'[x] <= Len(log)
    BY <1>2, <1>4, Zenon DEF ChatInv, InLog
  <2> QED
    BY <1>0, <2>1, Zenon DEF InLog
<1>6. ASSUME NEW x \in Clients PROVE Sends(x)'
  <2>1. CASE x # c
    BY <1>0, <1>1, <2>1, SameSends, Zenon DEF ChatInv
  <2>2. CASE x = c
    <3>1. PICK todo : Sending(written[c], OfClient(c, log), "none", serverInput[c], toServer[c], todo)
      BY <1>0, Zenon DEF ChatInv, Sends
    <3>2. Sending(written[c], OfClient(c, log), "up", serverInput[c], toServer[c], todo)
      <4>1. "none" # "down" /\ "none" \in {"none", "up"}
        OBVIOUS
      <4> QED
        BY <3>1, <4>1, Zenon DEF Sending
    <3> QED
      BY <1>0, <1>1, <2>2, <3>2, Zenon DEF Sends
  <2> QED
    BY <2>1, <2>2
<1>7. ASSUME NEW x \in Clients PROVE Receives(x)'
  <2>1. CASE x # c
    BY <1>0, <1>1, <1>2, <2>1, SameReceives, Zenon DEF ChatInv
  <2>2. CASE x = c
    <3>1. received[c] = <<>> /\ clientInput[c] = <<>> /\ toClient[c] = <<>>
      BY <1>0, Zenon DEF ChatInv, Receives, Receiving
    <3>2. Since(log, Len(log)) = <<>>
      <4>1. <<>> \in Seq(Short)
        OBVIOUS
      <4> QED
        BY <1>4, <4>1, LogSince, Zenon
    <3>3. Receiving(<<>>, <<>>, client[c], "up", <<>>, <<>>, <<>>, <<>>)
      <4>1. <<>> \in Seq(Short) /\ <<>> \o <<>> = <<>> /\ "up" # "none"
        OBVIOUS
      <4> QED
        BY <1>0, <4>1, HoldsNothing, Zenon DEF Receiving
    <3>4. /\ Since(log', joinedAt'[c]) = <<>> /\ received'[c] = <<>> /\ client'[c] = client[c]
          /\ server'[c] = "up" /\ clientInput'[c] = <<>> /\ toClient'[c] = <<>>
      BY <1>0, <1>1, <1>2, <3>1, <3>2
    <3>5. Receiving(Since(log', joinedAt'[c]), received'[c], client'[c], server'[c],
                    clientInput'[c], toClient'[c], <<>>, <<>>)
      BY <3>3, <3>4, Zenon
    <3>6. Receives(c)'
      BY <3>5, Zenon DEF Receives
    <3> QED
      BY <2>2, <3>6, Zenon
  <2> QED
    BY <2>1, <2>2
<1> QED
  BY <1>3, <1>5, <1>6, <1>7, Zenon DEF ChatInv

LEMMA ServerDownKeeps ==
    ASSUME ChatInv, NEW c, c \in Clients, ServerDown(c)
    PROVE  ChatInv'
<1>0. /\ server[c] # "none" /\ server' = [server EXCEPT ![c] = "down"]
      /\ toServer' = [toServer EXCEPT ![c] = <<>>]
      /\ client' = client /\ toClient' = toClient
      /\ serverInput' = serverInput /\ clientInput' = clientInput /\ written' = written
      /\ log' = log /\ received' = received /\ joinedAt' = joinedAt
  BY DEF ServerDown
<1>a. PerClient(server) /\ PerClient(toServer)
  BY DEF ChatInv, ChatTyped
<1>1. PerClient(server') /\ server'[c] = "down" /\ \A x \in Clients : x # c => server'[x] = server[x]
  <2>1. Only(server, c, "down", server')
    <3>1. Update(server, c, "down", server')
      BY <1>0, <1>a, Zenon DEF Update
    <3> QED
      BY SMT, <3>1, At
  <2> QED
    BY <2>1, Zenon DEF Only
<1>2. PerClient(toServer') /\ toServer'[c] = <<>> /\ \A x \in Clients : x # c => toServer'[x] = toServer[x]
  <2>1. Only(toServer, c, <<>>, toServer')
    <3>1. Update(toServer, c, <<>>, toServer')
      BY <1>0, <1>a, Zenon DEF Update
    <3> QED
      BY SMT, <3>1, At
  <2> QED
    BY <2>1, Zenon DEF Only
<1>3. ChatTyped' /\ InLog'
  BY <1>0, <1>1, <1>2, Zenon DEF ChatInv, ChatTyped, InLog
<1>4. ASSUME NEW x \in Clients PROVE Sends(x)'
  <2>1. CASE x # c
    BY <1>0, <1>1, <1>2, <2>1, SameSends, Zenon DEF ChatInv
  <2>2. CASE x = c
    <3>1. PICK todo : Sending(written[c], OfClient(c, log), server[c], serverInput[c], toServer[c], todo)
      BY Zenon DEF ChatInv, Sends
    <3>2. Sending(written[c], OfClient(c, log), "down", serverInput[c], <<>>, todo)
      <4>1. ~("down" \in {"none", "up"})
        OBVIOUS
      <4> QED
        BY <3>1, <4>1, Zenon DEF Sending
    <3> QED
      BY <1>0, <1>1, <1>2, <2>2, <3>2, Zenon DEF Sends
  <2> QED
    BY <2>1, <2>2
<1>5. ASSUME NEW x \in Clients PROVE Receives(x)'
  <2>1. CASE x # c
    BY <1>0, <1>1, <2>1, SameReceives, Zenon DEF ChatInv
  <2>2. CASE x = c
    <3>1. PICK todo, beyond :
             Receiving(Since(log, joinedAt[c]), received[c], client[c], server[c],
                       clientInput[c], toClient[c], todo, beyond)
      BY Zenon DEF ChatInv, Receives
    <3>2. Receiving(Since(log, joinedAt[c]), received[c], client[c], "down",
                    clientInput[c], toClient[c], todo, beyond)
      <4>1. "down" # "none" /\ "down" # "up"
        OBVIOUS
      <4> QED
        BY <1>0, <3>1, <4>1, Zenon DEF Receiving
    <3> QED
      BY <1>0, <1>1, <2>2, <3>2, Zenon DEF Receives
  <2> QED
    BY <2>1, <2>2
<1> QED
  BY <1>3, <1>4, <1>5, Zenon DEF ChatInv

\* The count of the messages is a number: the n-th of them has a byte.
LEMMA WrittenCounts == ChatInv => WrittenInAll \in Nat
<1> SUFFICES ASSUME ChatInv PROVE WrittenInAll \in Nat
  OBVIOUS
<1> DEFINE Mark(c) == {c} \X DOMAIN written[c]
           S == {Mark(c) : c \in Clients}
<1>1. ASSUME NEW c \in Clients PROVE IsFiniteSet(Mark(c))
  <2>1. PICK todo : Sending(written[c], OfClient(c, log), server[c], serverInput[c], toServer[c], todo)
    BY Zenon DEF ChatInv, Sends
  <2>2. PICK mine : mine \in Seq(Short) /\ todo \in Seq(Message) /\ written[c] = mine \o todo
    BY <2>1, Zenon DEF Sending
  <2>3. mine \in Seq(Message)
    BY <2>2, ShortMessages, Zenon
  <2>4. written[c] \in Seq(Message)
    BY <2>2, <2>3, ConcatProperties
  <2>5. PICK n \in Nat : DOMAIN written[c] = 1..n
    BY <2>4, LenProperties
  <2>6. IsFiniteSet(1..n)
    BY FS_Interval
  <2>7. IsFiniteSet({c})
    BY FS_Singleton, Zenon
  <2>8. IsFiniteSet({c} \X (1..n))
    BY <2>6, <2>7, FS_Product, Zenon
  <2> QED
    BY <2>5, <2>8
<1>2. IsFiniteSet(S)
  <2> DEFINE f == [c \in Clients |-> Mark(c)]
  <2> HIDE DEF Mark
  <2>1. f \in Surjection(Clients, S)
    BY DEF Surjection
  <2> HIDE DEF f
  <2> QED
    BY <2>1, ChatAssumption, FS_Surjection
<1>3. \A T \in S : IsFiniteSet(T)
  <2> HIDE DEF Mark
  <2> QED
    BY <1>1
<1>4. IsFiniteSet(UNION S)
  <2> HIDE DEF S
  <2> QED
    BY <1>2, <1>3, FS_UNION, Zenon
<1>5. Cardinality(UNION S) \in Nat
  <2> HIDE DEF S
  <2> QED
    BY <1>4, FS_CardinalityType, Zenon
<1> QED
  BY <1>5, Zenon DEF WrittenInAll

LEMMA WriteKeeps ==
    ASSUME ChatInv, NEW c, c \in Clients, Write(c)
    PROVE  ChatInv'
<1>b. PICK n \in Nat : n = WrittenInAll + 1
  BY WrittenCounts
<1>c. PICK size \in MessageSizes :
         LET m == [i \in 1..size |-> (WrittenInAll + 1) % Base]
         IN  /\ written' = [written EXCEPT ![c] = Append(@, m)]
             /\ toServer' = [toServer EXCEPT ![c] = @ \o EncodeMessage(m)]
  BY Zenon DEF Write
<1>d. PICK m : m = [i \in 1..size |-> n % Base]
  OBVIOUS
<1>e. m \in Message
  <2>1. n % Base \in Nat
    BY BufferAssumption
  <2>2. size \in Nat /\ 2 * size < Span(KHeaderLen)
    BY ChatAssumption
  <2>3. m \in [1..size -> Nat]
    BY <1>d, <2>1
  <2>4. m \in Seq(Nat) /\ Len(m) = size
    BY <2>2, <2>3, SeqDef, LenProperties
  <2> QED
    BY <2>2, <2>4 DEF Message
<1>0. /\ written' = [written EXCEPT ![c] = Append(written[c], m)]
      /\ toServer' = [toServer EXCEPT ![c] = toServer[c] \o EncodeMessage(m)]
      /\ client' = client /\ server' = server /\ toClient' = toClient
      /\ serverInput' = serverInput /\ clientInput' = clientInput
      /\ log' = log /\ received' = received /\ joinedAt' = joinedAt
  <2>1. /\ client' = client /\ server' = server /\ toClient' = toClient
        /\ serverInput' = serverInput /\ clientInput' = clientInput
        /\ log' = log /\ received' = received /\ joinedAt' = joinedAt
    BY DEF Write
  <2>2. m = [i \in 1..size |-> (WrittenInAll + 1) % Base]
    BY <1>b, <1>d, Zenon
  <2>3. /\ written' = [written EXCEPT ![c] = Append(@, m)]
        /\ toServer' = [toServer EXCEPT ![c] = @ \o EncodeMessage(m)]
    BY <1>c, <2>2, Zenon
  <2> QED
    BY <2>1, <2>3, Zenon
<1>a. PerClient(written) /\ PerClient(toServer)
  BY DEF ChatInv, ChatTyped
<1>1. PerClient(written') /\ written'[c] = Append(written[c], m) /\ \A x \in Clients : x # c => written'[x] = written[x]
  <2>1. Only(written, c, Append(written[c], m), written')
    <3>1. Update(written, c, Append(written[c], m), written')
      BY <1>0, <1>a, Zenon DEF Update
    <3> QED
      BY SMT, <3>1, At
  <2> QED
    BY <2>1, Zenon DEF Only
<1>2. PerClient(toServer') /\ toServer'[c] = (toServer[c] \o EncodeMessage(m)) /\ \A x \in Clients : x # c => toServer'[x] = toServer[x]
  <2>1. Only(toServer, c, (toServer[c] \o EncodeMessage(m)), toServer')
    <3>1. Update(toServer, c, (toServer[c] \o EncodeMessage(m)), toServer')
      BY <1>0, <1>a, Zenon DEF Update
    <3> QED
      BY SMT, <3>1, At
  <2> QED
    BY <2>1, Zenon DEF Only
<1>3. ChatTyped' /\ InLog'
  BY <1>0, <1>1, <1>2, Zenon DEF ChatInv, ChatTyped, InLog
<1>4. ASSUME NEW x \in Clients PROVE Sends(x)'
  <2>1. CASE x # c
    BY <1>0, <1>1, <1>2, <2>1, SameSends, Zenon DEF ChatInv
  <2>2. CASE x = c
    <3>1. PICK todo : Sending(written[c], OfClient(c, log), server[c], serverInput[c], toServer[c], todo)
      BY Zenon DEF ChatInv, Sends
    <3>2. PICK t : Sending(Append(written[c], m), OfClient(c, log), server[c], serverInput[c],
                           toServer[c] \o EncodeMessage(m), t)
      BY <1>e, <3>1, SendingWrites, Zenon
    <3> QED
      BY <1>0, <1>1, <1>2, <2>2, <3>2, Zenon DEF Sends
  <2> QED
    BY <2>1, <2>2
<1>5. \A x \in Clients : Receives(x)'
  BY <1>0, SameReceives, Zenon DEF ChatInv
<1> QED
  BY <1>3, <1>4, <1>5, Zenon DEF ChatInv

LEMMA ClientReadsKeeps ==
    ASSUME ChatInv, NEW c, c \in Clients, ClientReads(c)
    PROVE  ChatInv'
<1>b. PICK n \in DOMAIN toClient[c] :
         LET d == Decode(clientInput[c] \o SubSeq(toClient[c], 1, n))
         IN  /\ received' = [received EXCEPT ![c] = @ \o d.messages]
             /\ clientInput' = [clientInput EXCEPT ![c] = d.input]
             /\ toClient' = [toClient EXCEPT ![c] = SubSeq(@, n + 1, Len(@))]
  BY Zenon DEF ClientReads
<1>c. PICK d : d = Decode(clientInput[c] \o SubSeq(toClient[c], 1, n))
  OBVIOUS
<1>0. /\ client[c] = "up"
      /\ received' = [received EXCEPT ![c] = received[c] \o d.messages]
      /\ clientInput' = [clientInput EXCEPT ![c] = d.input]
      /\ toClient' = [toClient EXCEPT ![c] = SubSeq(toClient[c], n + 1, Len(toClient[c]))]
      /\ client' = client /\ server' = server /\ toServer' = toServer
      /\ serverInput' = serverInput /\ written' = written
      /\ log' = log /\ joinedAt' = joinedAt
  <2>1. /\ client[c] = "up" /\ client' = client /\ server' = server /\ toServer' = toServer
        /\ serverInput' = serverInput /\ written' = written
        /\ log' = log /\ joinedAt' = joinedAt
    BY DEF ClientReads
  <2> QED
    BY <1>b, <1>c, <2>1, Zenon
<1>a. PerClient(received) /\ PerClient(clientInput) /\ PerClient(toClient)
  BY DEF ChatInv, ChatTyped
<1>1. PerClient(received') /\ received'[c] = (received[c] \o d.messages) /\ \A x \in Clients : x # c => received'[x] = received[x]
  <2>1. Only(received, c, (received[c] \o d.messages), received')
    <3>1. Update(received, c, (received[c] \o d.messages), received')
      BY <1>0, <1>a, Zenon DEF Update
    <3> QED
      BY SMT, <3>1, At
  <2> QED
    BY <2>1, Zenon DEF Only
<1>2. PerClient(clientInput') /\ clientInput'[c] = d.input /\ \A x \in Clients : x # c => clientInput'[x] = clientInput[x]
  <2>1. Only(clientInput, c, d.input, clientInput')
    <3>1. Update(clientInput, c, d.input, clientInput')
      BY <1>0, <1>a, Zenon DEF Update
    <3> QED
      BY SMT, <3>1, At
  <2> QED
    BY <2>1, Zenon DEF Only
<1>3. PerClient(toClient') /\ toClient'[c] = SubSeq(toClient[c], n + 1, Len(toClient[c])) /\ \A x \in Clients : x # c => toClient'[x] = toClient[x]
  <2>1. Only(toClient, c, SubSeq(toClient[c], n + 1, Len(toClient[c])), toClient')
    <3>1. Update(toClient, c, SubSeq(toClient[c], n + 1, Len(toClient[c])), toClient')
      BY <1>0, <1>a, Zenon DEF Update
    <3> QED
      BY SMT, <3>1, At
  <2> QED
    BY <2>1, Zenon DEF Only
<1>4. ChatTyped' /\ InLog'
  BY <1>0, <1>1, <1>2, <1>3, Zenon DEF ChatInv, ChatTyped, InLog
<1>5. \A x \in Clients : Sends(x)'
  BY <1>0, SameSends, Zenon DEF ChatInv
<1>6. ASSUME NEW x \in Clients PROVE Receives(x)'
  <2>1. CASE x # c
    BY <1>0, <1>1, <1>2, <1>3, <2>1, SameReceives, Zenon DEF ChatInv
  <2>2. CASE x = c
    <3>1. PICK todo, beyond :
             Receiving(Since(log, joinedAt[c]), received[c], "up", server[c],
                       clientInput[c], toClient[c], todo, beyond)
      BY <1>0, Zenon DEF ChatInv, Receives
    <3>2. PICK t :
             Receiving(Since(log, joinedAt[c]), received[c] \o d.messages, "up", server[c], d.input,
                       SubSeq(toClient[c], n + 1, Len(toClient[c])), t, beyond)
      BY <1>c, <3>1, ReceivingReads, Zenon
    <3>3. /\ log' = log /\ joinedAt'[c] = joinedAt[c] /\ client'[c] = "up" /\ server'[c] = server[c]
          /\ received'[c] = received[c] \o d.messages /\ clientInput'[c] = d.input
          /\ toClient'[c] = SubSeq(toClient[c], n + 1, Len(toClient[c]))
      BY <1>0, <1>1, <1>2, <1>3, Zenon
    <3>4. Receives(c)'
      BY <3>2, <3>3, Zenon DEF Receives
    <3> QED
      BY <2>2, <3>4, Zenon
  <2> QED
    BY <2>1, <2>2
<1> QED
  BY <1>4, <1>5, <1>6, Zenon DEF ChatInv

LEMMA ServerReadsKeeps ==
    ASSUME ChatInv, NEW c, c \in Clients, ServerReads(c)
    PROVE  ChatInv'
<1>b. PICK n \in DOMAIN toServer[c] :
         LET d == Decode(serverInput[c] \o SubSeq(toServer[c], 1, n))
         IN  /\ log' = log \o [i \in DOMAIN d.messages |-> [from |-> c, text |-> d.messages[i]]]
             /\ toClient' = [x \in Clients |->
                               IF server[x] = "up" /\ client[x] = "up"
                               THEN toClient[x] \o EncodeAll(d.messages) ELSE toClient[x]]
             /\ serverInput' = [serverInput EXCEPT ![c] = d.input]
             /\ toServer' = [toServer EXCEPT ![c] = SubSeq(@, n + 1, Len(@))]
             /\ server' = [server EXCEPT ![c] = IF d.bad THEN "closing" ELSE @]
  BY Zenon DEF ServerReads
<1>c. PICK d : d = Decode(serverInput[c] \o SubSeq(toServer[c], 1, n))
  OBVIOUS
<1>d. PICK a, s : a = d.messages /\ s = IF d.bad THEN "closing" ELSE server[c]
  OBVIOUS
<1>0. /\ server[c] \in {"up", "closing"}
      /\ log' = log \o Tagged(c, a)
      /\ toClient' = [x \in Clients |->
                        IF server[x] = "up" /\ client[x] = "up"
                        THEN toClient[x] \o EncodeAll(a) ELSE toClient[x]]
      /\ serverInput' = [serverInput EXCEPT ![c] = d.input]
      /\ toServer' = [toServer EXCEPT ![c] = SubSeq(toServer[c], n + 1, Len(toServer[c]))]
      /\ server' = [server EXCEPT ![c] = s]
      /\ client' = client /\ clientInput' = clientInput /\ written' = written
      /\ joinedAt' = joinedAt /\ received' = received
  <2>1. /\ server[c] \in {"up", "closing"}
        /\ client' = client /\ clientInput' = clientInput /\ written' = written
        /\ joinedAt' = joinedAt /\ received' = received
    BY DEF ServerReads
  <2>2. /\ log' = log \o [i \in DOMAIN d.messages |-> [from |-> c, text |-> d.messages[i]]]
        /\ toClient' = [x \in Clients |->
                          IF server[x] = "up" /\ client[x] = "up"
                          THEN toClient[x] \o EncodeAll(d.messages) ELSE toClient[x]]
        /\ serverInput' = [serverInput EXCEPT ![c] = d.input]
        /\ toServer' = [toServer EXCEPT ![c] = SubSeq(@, n + 1, Len(@))]
        /\ server' = [server EXCEPT ![c] = IF d.bad THEN "closing" ELSE @]
    BY <1>b, <1>c, Zenon
  <2>3. Tagged(c, a) = [i \in DOMAIN d.messages |-> [from |-> c, text |-> d.messages[i]]]
    BY <1>d, Zenon DEF Tagged
  <2> QED
    BY <1>d, <2>1, <2>2, <2>3, Zenon
<1>a. PerClient(serverInput) /\ PerClient(toServer) /\ PerClient(server)
  BY DEF ChatInv, ChatTyped
<1>1. PerClient(serverInput') /\ serverInput'[c] = d.input /\ \A x \in Clients : x # c => serverInput'[x] = serverInput[x]
  <2>1. Only(serverInput, c, d.input, serverInput')
    <3>1. Update(serverInput, c, d.input, serverInput')
      BY <1>0, <1>a, Zenon DEF Update
    <3> QED
      BY SMT, <3>1, At
  <2> QED
    BY <2>1, Zenon DEF Only
<1>2. PerClient(toServer') /\ toServer'[c] = SubSeq(toServer[c], n + 1, Len(toServer[c])) /\ \A x \in Clients : x # c => toServer'[x] = toServer[x]
  <2>1. Only(toServer, c, SubSeq(toServer[c], n + 1, Len(toServer[c])), toServer')
    <3>1. Update(toServer, c, SubSeq(toServer[c], n + 1, Len(toServer[c])), toServer')
      BY <1>0, <1>a, Zenon DEF Update
    <3> QED
      BY SMT, <3>1, At
  <2> QED
    BY <2>1, Zenon DEF Only
<1>3. PerClient(server') /\ server'[c] = s /\ \A x \in Clients : x # c => server'[x] = server[x]
  <2>1. Only(server, c, s, server')
    <3>1. Update(server, c, s, server')
      BY <1>0, <1>a, Zenon DEF Update
    <3> QED
      BY SMT, <3>1, At
  <2> QED
    BY <2>1, Zenon DEF Only
<1>4. /\ PerClient(toClient')
      /\ \A x \in Clients : server[x] = "up" /\ client[x] = "up" => toClient'[x] = toClient[x] \o EncodeAll(a)
      /\ \A x \in Clients : ~(server[x] = "up" /\ client[x] = "up") => toClient'[x] = toClient[x]
  <2>1. \A x \in Clients : toClient'[x] = IF server[x] = "up" /\ client[x] = "up"
                                          THEN toClient[x] \o EncodeAll(a) ELSE toClient[x]
    BY <1>0, Zenon
  <2>2. PerClient(toClient')
    BY <1>0, <2>1, Zenon DEF PerClient
  <2> QED
    BY <2>1, <2>2, Zenon
<1>5. PICK todo : Sending(written[c], OfClient(c, log), server[c], serverInput[c], toServer[c], todo)
  BY Zenon DEF ChatInv, Sends
<1>6. /\ a \in Seq(Short)
      /\ \E t : Sending(written[c], OfClient(c, log) \o a, s, d.input,
                        SubSeq(toServer[c], n + 1, Len(toServer[c])), t)
  <2>1. server[c] # "down"
    BY <1>0
  <2>2. /\ d.messages \in Seq(Short)
        /\ \E t : Sending(written[c], OfClient(c, log) \o d.messages,
                          IF d.bad THEN "closing" ELSE server[c], d.input,
                          SubSeq(toServer[c], n + 1, Len(toServer[c])), t)
    BY <1>c, <1>5, <2>1, SendingReads, Zenon
  <2> QED
    BY <1>d, <2>2, Zenon
<1>7. log \in Seq(Entry) /\ log' \in Seq(Entry)
  <2>1. log \in Seq(Entry)
    BY DEF ChatInv, ChatTyped
  <2>2. log \o Tagged(c, a) \in Seq(Entry)
    BY <1>6, <2>1, LogOfClient, Zenon
  <2> QED
    BY <1>0, <2>1, <2>2, Zenon
<1>8. ChatTyped'
  BY <1>0, <1>1, <1>2, <1>3, <1>4, <1>7, Zenon DEF ChatInv, ChatTyped
<1>9. \A x \in Clients : joinedAt[x] \in Nat /\ joinedAt[x] <= Len(log)
  BY DEF ChatInv, InLog
<1>10. ASSUME NEW x \in Clients
       PROVE  /\ Since(log', joinedAt[x]) = Since(log, joinedAt[x]) \o a
              /\ Len(log) \in Nat /\ Len(log) <= Len(log')
  <2>1. joinedAt[x] \in Nat /\ joinedAt[x] <= Len(log) /\ log \in Seq(Entry)
    BY <1>7, <1>9
  <2>2. PICK j : j = joinedAt[x]
    OBVIOUS
  <2>3. a \in Seq(Short) /\ j \in Nat /\ j <= Len(log) /\ log \in Seq(Entry)
    BY <1>6, <2>1, <2>2, Zenon
  <2>4. Since(log \o Tagged(c, a), j) = Since(log, j) \o a
    <3>1. SinceGrows(log, j, c, a)
      BY <2>3, LogSince, Zenon
    <3> QED
      BY <3>1, Zenon DEF SinceGrows
  <2>5. Len(log) \in Nat
    BY <2>3, LogSince, Zenon
  <2>6. Len(log) <= Len(log \o Tagged(c, a))
    BY <2>3, LogSince, Zenon
  <2> QED
    BY <1>0, <2>2, <2>4, <2>5, <2>6, Zenon
<1>11. InLog'
  <2>1. ASSUME NEW x \in Clients PROVE joinedAt[x] \in Nat /\ joinedAt[x] <= Len(log')
    <3>1. Len(log') \in Nat
      BY <1>7, LenProperties
    <3> QED
      BY SMT, <1>9, <1>10, <3>1
  <2> QED
    BY <1>0, <2>1, Zenon DEF InLog
<1>12. ASSUME NEW x \in Clients PROVE Sends(x)'
  <2>0. OfClient(x, log') = OfClient(x, log) \o Share(x, c, a) /\ OfClient(x, log) \in Seq(Short)
    <3>1. /\ OfClient(x, log \o Tagged(c, a)) = OfClient(x, log) \o Share(x, c, a)
          /\ OfClient(x, log) \in Seq(Short)
      BY <1>6, <1>7, LogOfClient, Zenon
    <3> QED
      BY <1>0, <3>1, Zenon
  <2>1. CASE x # c
    <3>1. OfClient(x, log') = OfClient(x, log)
      <4>1. Share(x, c, a) = <<>>
        BY <2>1 DEF Share
      <4>2. OfClient(x, log) \o <<>> = OfClient(x, log)
        BY <2>0, ConcatEmptySeq
      <4> QED
        BY <2>0, <4>1, <4>2, Zenon
    <3>2. PICK t : Sending(written[x], OfClient(x, log), server[x], serverInput[x], toServer[x], t)
      BY Zenon DEF ChatInv, Sends
    <3> QED
      BY <1>0, <1>1, <1>2, <1>3, <2>1, <3>1, <3>2, Zenon DEF Sends
  <2>2. CASE x = c
    <3>1. OfClient(c, log') = OfClient(c, log) \o a
      <4>1. Share(c, c, a) = a
        BY DEF Share
      <4> QED
        BY <2>0, <2>2, <4>1, Zenon
    <3>2. /\ written'[c] = written[c] /\ server'[c] = s /\ serverInput'[c] = d.input
          /\ toServer'[c] = SubSeq(toServer[c], n + 1, Len(toServer[c]))
      BY <1>0, <1>1, <1>2, <1>3, Zenon
    <3>3. Sends(c)'
      BY <1>6, <3>1, <3>2, Zenon DEF Sends
    <3> QED
      BY <2>2, <3>3, Zenon
  <2> QED
    BY <2>1, <2>2
<1>13. ASSUME NEW x \in Clients PROVE Receives(x)'
  <2>0. PICK t, beyond :
           Receiving(Since(log, joinedAt[x]), received[x], client[x], server[x],
                     clientInput[x], toClient[x], t, beyond)
    BY Zenon DEF ChatInv, Receives
  <2>1. server'[x] = server[x] \/ (server[x] # "none" /\ server'[x] = "closing")
    <3>1. server[c] # "none" /\ (s = server[c] \/ s = "closing")
      BY <1>0, <1>d
    <3> QED
      BY <1>3, <3>1, Zenon
  <2>2. CASE server[x] = "up" /\ client[x] = "up"
    <3>1. Receiving(Since(log, joinedAt[x]), received[x], "up", "up",
                    clientInput[x], toClient[x], t, beyond)
      BY <2>0, <2>2, Zenon
    <3>2. server'[x] # "none"
      BY <2>1, <2>2
    <3>3. PICK u : Receiving(Since(log, joinedAt[x]) \o a, received[x], "up", server'[x],
                             clientInput[x], toClient[x] \o EncodeAll(a), u, <<>>)
      BY <1>6, <3>1, <3>2, ReceivingGets, Zenon
    <3> QED
      BY <1>0, <1>4, <1>10, <2>2, <3>3, Zenon DEF Receives
  <2>3. CASE ~(server[x] = "up" /\ client[x] = "up")
    <3>1. Receiving(Since(log, joinedAt[x]) \o a, received[x], client[x], server'[x],
                    clientInput[x], toClient[x], t, beyond \o a)
      BY <1>6, <2>0, <2>1, <2>3, ReceivingMisses, Zenon
    <3> QED
      BY <1>0, <1>4, <1>10, <2>3, <3>1, Zenon DEF Receives
  <2> QED
    BY <2>2, <2>3
<1> QED
  BY <1>8, <1>11, <1>12, <1>13, Zenon DEF ChatInv

LEMMA ChatStep == ChatInv /\ [ChatNext]_chatVars => ChatInv'
<1> SUFFICES ASSUME ChatInv, [ChatNext]_chatVars PROVE ChatInv'
  OBVIOUS
<1>1. CASE UNCHANGED chatVars
  BY <1>1, ChatStutters
<1>2. CASE ChatNext
  <2>1. PICK c \in Clients : \/ ClientUp(c) \/ Write(c) \/ ClientReads(c) \/ ClientDown(c)
                             \/ ServerUp(c) \/ ServerReads(c) \/ ServerDown(c)
    BY <1>2, Zenon DEF ChatNext
  <2> QED
    BY <2>1, ClientUpKeeps, WriteKeeps, ClientReadsKeeps, ClientDownKeeps, ServerUpKeeps,
       ServerReadsKeeps, ServerDownKeeps, Zenon
<1> QED
  BY <1>1, <1>2, Zenon

LEMMA PrefixOf ==
    ASSUME NEW S, NEW a, NEW b, Pair(S, a, b)
    PROVE  IsPrefix(a, a \o b)
<1>a. PICK ab : ab = a \o b
  OBVIOUS
<1>0. a \in Seq(S) /\ b \in Seq(S)
  BY DEF Pair
<1>1. Len(ab) = Len(a) + Len(b) /\ Len(a) \in Nat /\ Len(b) \in Nat
  BY <1>a, <1>0, ConcatProperties, LenProperties
<1>2. Len(a) <= Len(ab)
  BY SMT, <1>1
<1>3. SubSeq(a \o b, 1, Len(a)) = a
  <2>1. Three(S, a, a, b)
    BY <1>0, Zenon DEF Three
  <2>2. Cuts(S, a, a, b)
    BY SMT, <2>1, CutOut
  <2> QED
    BY <2>2, Zenon DEF Cuts
<1>4. SubSeq(a, 1, Len(a)) = a
  BY <1>0, SubSeqFull
<1> QED
  BY <1>a, <1>2, <1>3, <1>4, Zenon DEF IsPrefix

LEMMA SendingSafe ==
    ASSUME NEW w, NEW mine, NEW srv, NEW in, NEW wire, NEW todo,
           Sending(w, mine, srv, in, wire, todo)
    PROVE  /\ IsPrefix(mine, w) /\ (\A i \in DOMAIN mine : Len(mine[i]) <= MaxLength)
           /\ (srv = "up" /\ wire = <<>>) => mine = w
<1>0. /\ mine \in Seq(Short) /\ todo \in Seq(Message) /\ w = mine \o todo
      /\ srv # "down" => Holds(in, wire, todo)
      /\ srv \in {"none", "up"} => ~Whole(in, todo) /\ ~TooLong(in, todo)
  BY DEF Sending
<1>1. mine \in Seq(Message)
  BY <1>0, ShortMessages, Zenon
<1>2. IsPrefix(mine, w)
  <2>1. Pair(Message, mine, todo)
    BY <1>0, <1>1, Zenon DEF Pair
  <2> QED
    BY <1>0, <2>1, PrefixOf, Zenon
<1>3. ASSUME NEW i \in DOMAIN mine PROVE Len(mine[i]) <= MaxLength
  <2>1. mine[i] \in Short
    BY <1>0, LenProperties, ElementOfSeq
  <2> QED
    BY <2>1 DEF Short
<1>4. ASSUME srv = "up", wire = <<>> PROVE mine = w
  <2>1. Holds(in, <<>>, todo) /\ ~Whole(in, todo) /\ ~TooLong(in, todo)
    <3>1. srv # "down" /\ srv \in {"none", "up"}
      BY <1>4
    <3> QED
      BY <1>0, <1>4, <3>1, Zenon
  <2>2. todo = <<>>
    BY <2>1, NothingWaits, Zenon
  <2> QED
    BY <1>0, <1>1, <2>2, ConcatEmptySeq
<1> QED
  BY <1>2, <1>3, <1>4, Zenon

LEMMA ReceivingSafe ==
    ASSUME NEW all, NEW rec, NEW cl, NEW srv, NEW in, NEW wire, NEW todo, NEW beyond,
           Receiving(all, rec, cl, srv, in, wire, todo, beyond)
    PROVE  /\ IsPrefix(rec, all)
           /\ (srv = "up" /\ cl = "up" /\ wire = <<>>) => rec = all
<1>0. /\ rec \in Seq(Short) /\ todo \in Seq(Short) /\ beyond \in Seq(Short)
      /\ all = (rec \o todo) \o beyond
      /\ cl # "down" => Holds(in, wire, todo) /\ ~Whole(in, todo)
      /\ (srv = "up" /\ cl = "up") => beyond = <<>>
  BY DEF Receiving
<1>1. PICK r : r = todo \o beyond /\ r \in Seq(Short)
  BY <1>0, ConcatProperties
<1>2. all = rec \o r
  <2>1. rec \in Seq(Short) /\ todo \in Seq(Short) /\ beyond \in Seq(Short)
    BY <1>0
  <2>2. (rec \o todo) \o beyond = rec \o (todo \o beyond)
    <3>1. Three(Short, rec, todo, beyond)
      BY <2>1, Zenon DEF Three
    <3> QED
      BY <3>1, Regroup, SMTT(30)
  <2> QED
    BY <1>0, <1>1, <2>2, Zenon
<1>3. IsPrefix(rec, all)
  <2>1. Pair(Short, rec, r)
    BY <1>0, <1>1, Zenon DEF Pair
  <2> QED
    BY <1>2, <2>1, PrefixOf, Zenon
<1>4. ASSUME srv = "up", cl = "up", wire = <<>> PROVE rec = all
  <2>1. Holds(in, <<>>, todo) /\ ~Whole(in, todo) /\ beyond = <<>>
    <3>1. cl # "down"
      BY <1>4
    <3> QED
      BY <1>0, <1>4, <3>1, Zenon
  <2>2. ~TooLong(in, todo)
    <3>1. SUFFICES ASSUME todo # <<>>, Len(todo[1]) > MaxLength PROVE FALSE
      BY DEF TooLong
    <3>2. Len(todo) \in Nat \ {0}
      BY <1>0, <3>1, EmptySeq
    <3>3. 1 \in 1..Len(todo)
      BY SMT, <3>2
    <3>4. todo[1] \in Short
      BY <1>0, <3>3, ElementOfSeq, Zenon
    <3>5. Len(todo[1]) <= MaxLength /\ Len(todo[1]) \in Nat /\ MaxLength \in Nat
      BY <3>4, ChatAssumption, LenProperties DEF Short, Message
    <3> QED
      BY SMT, <3>1, <3>5
  <2>3. todo = <<>>
    BY <2>1, <2>2, NothingWaits, Zenon
  <2>4. <<>> \o <<>> = <<>>
    OBVIOUS
  <2>5. rec \o <<>> = rec
    BY <1>0, ConcatEmptySeq
  <2> QED
    BY <1>1, <1>2, <2>1, <2>3, <2>4, <2>5, Zenon
<1> QED
  BY <1>3, <1>4, Zenon

LEMMA ChatInvSafe == ChatInv => ChatInOrder
<1> SUFFICES ASSUME ChatInv PROVE ChatInOrder
  OBVIOUS
<1>1. ASSUME NEW c \in Clients
      PROVE  /\ IsPrefix(Mine(c), written[c])
             /\ \A i \in DOMAIN Mine(c) : Len(Mine(c)[i]) <= MaxLength
             /\ (server[c] = "up" /\ toServer[c] = <<>>) => Mine(c) = written[c]
  <2>1. PICK todo : Sending(written[c], OfClient(c, log), server[c], serverInput[c], toServer[c], todo)
    BY Zenon DEF ChatInv, Sends
  <2>2. PICK mine : mine = OfClient(c, log)
    OBVIOUS
  <2>3. Mine(c) = mine
    BY <2>2, Zenon DEF Mine, OfClient
  <2>4. /\ IsPrefix(mine, written[c]) /\ (\A i \in DOMAIN mine : Len(mine[i]) <= MaxLength)
        /\ (server[c] = "up" /\ toServer[c] = <<>>) => mine = written[c]
    <3>1. Sending(written[c], mine, server[c], serverInput[c], toServer[c], todo)
      BY <2>1, <2>2, Zenon
    <3> QED
      BY <3>1, SendingSafe, Zenon
  <2> QED
    BY <2>3, <2>4, Zenon
<1>2. ASSUME NEW c \in Clients
      PROVE  /\ IsPrefix(received[c], Shown(c))
             /\ (server[c] = "up" /\ client[c] = "up" /\ toClient[c] = <<>>)
                   => received[c] = Shown(c)
  <2>1. PICK todo, beyond :
           Receiving(Since(log, joinedAt[c]), received[c], client[c], server[c],
                     clientInput[c], toClient[c], todo, beyond)
    BY Zenon DEF ChatInv, Receives
  <2>2. Shown(c) = Since(log, joinedAt[c])
    BY Zenon DEF Shown, Since
  <2> QED
    BY <2>1, <2>2, ReceivingSafe, Zenon
<1> QED
  BY <1>1, <1>2, Zenon DEF ChatInOrder

\* Every client's messages enter the broadcast in the order it wrote them and
\* unchanged, and every client is shown the broadcast since it joined in the one
\* order there is, however the bytes are cut and whoever comes and goes.
THEOREM ChatKeepsOrder == ChatSpec => []ChatInOrder
  BY ChatInitInv, ChatStep, ChatInvSafe, PTL DEF ChatSpec

=============================================================================
