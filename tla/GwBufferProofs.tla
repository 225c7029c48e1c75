--------------------------- MODULE GwBufferProofs ---------------------------
(***************************************************************************)
(* Proofs about GwBuffer for every buffer size, byte set and set of        *)
(* chunks: the offsets stay in range, and the ring buffer implements the   *)
(* first-in first-out store of BoundedFifo.                                *)
(***************************************************************************)
EXTENDS GwBuffer, SequenceTheorems, WellFoundedInduction, TLAPS

USE DEF Offsets, NoBytes

(* A stored sequence is a sequence of bytes as long as the used space. *)
LEMMA ContentType ==
  ASSUME NEW m \in [Offsets -> Byte], NEW r \in Offsets, NEW w \in Offsets
  PROVE  /\ ContentOf(m, r, w) \in Seq(Byte)
         /\ Len(ContentOf(m, r, w)) = UsedBetween(r, w)
         /\ UsedBetween(r, w) \in 0 .. BufferSize - 1
         /\ \A i \in 1 .. UsedBetween(r, w) : ContentOf(m, r, w)[i] = m[Wrap(r + i - 1)]
<1>1. UsedBetween(r, w) \in 0 .. BufferSize - 1
  BY BufferAssumption DEF UsedBetween
<1>2. \A i \in 1 .. UsedBetween(r, w) : Wrap(r + i - 1) \in Offsets
  BY BufferAssumption DEF UsedBetween, Wrap
<1>3. \A i \in 1 .. UsedBetween(r, w) : m[Wrap(r + i - 1)] \in Byte
  BY <1>2
<1>4. ContentOf(m, r, w) \in [1 .. UsedBetween(r, w) -> Byte]
  BY <1>3 DEF ContentOf
<1>5. ContentOf(m, r, w) \in Seq(Byte) /\ Len(ContentOf(m, r, w)) = UsedBetween(r, w)
  BY <1>1, <1>4
<1> QED
  BY <1>1, <1>5 DEF ContentOf

(* What a handler is given is the beginning of what is stored, and moving  *)
(* the read pointer behind it leaves the rest.                             *)
LEMMA TakeFromFront ==
  ASSUME NEW m \in [Offsets -> Byte], NEW r \in Offsets, NEW w \in Offsets,
         NEW n \in Nat, n <= UsedBetween(r, w), n <= BufferSize - r
  PROVE  /\ Wrap(r + n) \in Offsets
         /\ UsedBetween(Wrap(r + n), w) = UsedBetween(r, w) - n
         /\ Segment(m, r, n) = SubSeq(ContentOf(m, r, w), 1, n)
         /\ ContentOf(m, Wrap(r + n), w)
              = SubSeq(ContentOf(m, r, w), n + 1, UsedBetween(r, w))
<1> DEFINE c == ContentOf(m, r, w)
           u == UsedBetween(r, w)
<1>1. /\ c \in Seq(Byte) /\ Len(c) = u /\ u \in 0 .. BufferSize - 1
      /\ \A i \in 1 .. u : c[i] = m[Wrap(r + i - 1)]
  BY ContentType
<1>2. /\ Wrap(r + n) \in Offsets
      /\ UsedBetween(Wrap(r + n), w) = u - n
      /\ n <= u
      /\ \A i \in 1 .. u - n : Wrap(Wrap(r + n) + i - 1) = Wrap(r + (n + i) - 1)
  BY BufferAssumption DEF UsedBetween, Wrap
<1> DEFINE cc == ContentOf(m, Wrap(r + n), w)
<1>0. /\ cc \in Seq(Byte) /\ Len(cc) = u - n
      /\ \A i \in 1 .. u - n : cc[i] = m[Wrap(Wrap(r + n) + i - 1)]
  <2>1. /\ cc \in Seq(Byte) /\ Len(cc) = UsedBetween(Wrap(r + n), w)
        /\ \A i \in 1 .. UsedBetween(Wrap(r + n), w) :
             cc[i] = m[Wrap(Wrap(r + n) + i - 1)]
    BY <1>2, ContentType
  <2> QED
    BY <1>2, <2>1
<1>6. n <= u /\ u \in Nat
  BY <1>1, <1>2
<1> HIDE DEF c, cc, u
<1>3. \A i \in 1 .. u : c[i] \in Byte
  BY <1>1
<1>4. Segment(m, r, n) = SubSeq(c, 1, n)
  <2>1. /\ SubSeq(c, 1, n) \in Seq(Byte)
        /\ Len(SubSeq(c, 1, n)) = n
        /\ \A i \in 1 .. n : SubSeq(c, 1, n)[i] = c[i]
    BY <1>1, <1>3, <1>6
  <2>2. \A i \in 1 .. n : r + i - 1 \in Offsets /\ Wrap(r + i - 1) = r + i - 1
    BY BufferAssumption DEF Wrap
  <2>3. ASSUME NEW i \in 1 .. n
        PROVE  Segment(m, r, n)[i] = c[i]
    <3>1. i \in 1 .. u
      BY <1>6
    <3>2. c[i] = m[r + i - 1]
      BY <1>1, <2>2, <3>1
    <3> QED
      BY <3>2 DEF Segment
  <2>4. Segment(m, r, n) \in [1 .. n -> Byte]
    BY <2>2 DEF Segment
  <2>5. Segment(m, r, n) \in Seq(Byte) /\ Len(Segment(m, r, n)) = n
    BY <2>4
  <2> QED
    BY <2>1, <2>3, <2>5, SeqEqual
<1>5. cc = SubSeq(c, n + 1, u)
  <2>1. /\ SubSeq(c, n + 1, u) \in Seq(Byte)
        /\ Len(SubSeq(c, n + 1, u)) = u - n
        /\ \A i \in 1 .. u - n : SubSeq(c, n + 1, u)[i] = c[n + i]
    BY <1>1, <1>3, <1>6
  <2>2. ASSUME NEW i \in 1 .. u - n
        PROVE  cc[i] = c[n + i]
    <3>1. n + i \in 1 .. u
      BY <1>6
    <3>2. c[n + i] = m[Wrap(r + (n + i) - 1)]
      BY <1>1, <3>1
    <3> QED
      BY <1>0, <1>2, <3>2
  <2> QED
    BY <1>0, <2>1, <2>2, SeqEqual
<1> QED
  BY <1>2, <1>4, <1>5 DEF c, cc, u

(* The stored bytes followed by the n bytes of d behind the first k. *)
Appended(m, r, w, d, k, n) == ContentOf(m, r, w) \o SubSeq(d, k + 1, k + n)

(* Copying bytes to the write pointer, no more than are free and no        *)
(* further than the end of the array, appends them to what is stored.      *)
LEMMA CopyAppends ==
  ASSUME NEW m \in [Offsets -> Byte], NEW r \in Offsets, NEW w \in Offsets,
         NEW d \in Seq(Byte), NEW k \in Nat, NEW n \in Nat,
         k + n <= Len(d), n <= FreeBetween(r, w), n <= BufferSize - w
  PROVE  /\ CopyIn(m, w, d, k, n) \in [Offsets -> Byte]
         /\ Wrap(w + n) \in Offsets
         /\ FreeBetween(r, Wrap(w + n)) = FreeBetween(r, w) - n
         /\ ContentOf(CopyIn(m, w, d, k, n), r, Wrap(w + n)) = Appended(m, r, w, d, k, n)
<1> DEFINE c == ContentOf(m, r, w)
           u == UsedBetween(r, w)
           mm == CopyIn(m, w, d, k, n)
           e == SubSeq(d, k + 1, k + n)
           cc == ContentOf(mm, r, Wrap(w + n))
<1>1. /\ c \in Seq(Byte) /\ Len(c) = u /\ u \in 0 .. BufferSize - 1
      /\ \A i \in 1 .. u : c[i] = m[Wrap(r + i - 1)]
  BY ContentType
<1>2. /\ Wrap(w + n) \in Offsets
      /\ FreeBetween(r, Wrap(w + n)) = FreeBetween(r, w) - n
      /\ UsedBetween(r, Wrap(w + n)) = u + n
  BY BufferAssumption DEF UsedBetween, FreeBetween, Wrap
<1>3. \A i \in 1 .. Len(d) : d[i] \in Byte
  OBVIOUS
<1>4. mm \in [Offsets -> Byte]
  <2> SUFFICES ASSUME NEW i \in Offsets
               PROVE  (IF w <= i /\ i < w + n THEN d[k + i - w + 1] ELSE m[i]) \in Byte
    BY DEF CopyIn
  <2>1. CASE w <= i /\ i < w + n
    <3>1. k + i - w + 1 \in 1 .. Len(d)
      BY <2>1, BufferAssumption
    <3> QED
      BY <2>1, <3>1, <1>3
  <2>2. CASE ~(w <= i /\ i < w + n)
    BY <2>2
  <2> QED
    BY <2>1, <2>2
<1>5. /\ cc \in Seq(Byte) /\ Len(cc) = u + n
      /\ \A i \in 1 .. u + n : cc[i] = mm[Wrap(r + i - 1)]
  <2> HIDE DEF mm
  <2>1. /\ cc \in Seq(Byte) /\ Len(cc) = UsedBetween(r, Wrap(w + n))
        /\ \A i \in 1 .. UsedBetween(r, Wrap(w + n)) : cc[i] = mm[Wrap(r + i - 1)]
    BY <1>2, <1>4, ContentType
  <2> QED
    BY <1>2, <2>1
<1>6. /\ e \in Seq(Byte) /\ Len(e) = n
      /\ \A i \in 1 .. n : e[i] = d[k + i]
  BY <1>3
<1>0. u \in Nat
  BY <1>1, BufferAssumption
<1> DEFINE s == c \o e
<1> HIDE DEF c, cc, e, u
<1>7. /\ s \in Seq(Byte) /\ Len(s) = u + n
      /\ \A i \in 1 .. u + n : s[i] = IF i <= u THEN c[i] ELSE e[i - u]
  <2>1. /\ s \in Seq(Byte)
        /\ Len(s) = Len(c) + Len(e)
        /\ \A i \in 1 .. Len(c) + Len(e) :
             s[i] = IF i <= Len(c) THEN c[i] ELSE e[i - Len(c)]
    BY <1>1, <1>6, ConcatProperties
  <2> QED
    BY <1>1, <1>6, <2>1
<1> HIDE DEF s
<1>8. ASSUME NEW i \in 1 .. u + n
      PROVE  cc[i] = s[i]
  <2>1. CASE i <= u
    <3>1. /\ Wrap(r + i - 1) \in Offsets
          /\ ~(w <= Wrap(r + i - 1) /\ Wrap(r + i - 1) < w + n)
      BY <2>1, BufferAssumption DEF UsedBetween, FreeBetween, Wrap, u
    <3>2. mm[Wrap(r + i - 1)] = m[Wrap(r + i - 1)]
      BY <3>1 DEF CopyIn
    <3> QED
      BY <1>0, <1>1, <1>5, <1>7, <2>1, <3>2
  <2>2. CASE i > u
    <3>1. /\ Wrap(r + i - 1) \in Offsets
          /\ Wrap(r + i - 1) = w + (i - u) - 1
          /\ i - u \in 1 .. n
      BY <1>1, <2>2, BufferAssumption DEF UsedBetween, FreeBetween, Wrap, u
    <3>2. mm[Wrap(r + i - 1)] = d[k + (i - u)]
      <4> DEFINE o == Wrap(r + i - 1)
                 j == i - u
      <4>1. o \in Offsets /\ o = w + j - 1 /\ j \in 1 .. n
        BY <3>1
      <4> HIDE DEF o, j
      <4>2. w <= o /\ o < w + n /\ k + o - w + 1 = k + j
        BY <4>1, BufferAssumption DEF Offsets
      <4>3. mm[o] = d[k + o - w + 1]
        BY <4>1, <4>2 DEF CopyIn
      <4> QED
        BY <4>2, <4>3 DEF o, j
    <3>3. s[i] = d[k + (i - u)]
      BY <1>0, <1>6, <1>7, <2>2, <3>1
    <3> QED
      BY <1>5, <3>2, <3>3
  <2> QED
    BY <1>0, <2>1, <2>2
<1>9. cc = s
  BY <1>5, <1>7, <1>8, SeqEqual
<1> QED
  BY <1>2, <1>4, <1>9 DEF Appended, c, cc, e, u, s

(* The state of addData between its rounds. *)
Rounds(d) == [m : [Offsets -> Byte], wp : Offsets, written : 0 .. Len(d)]

(* One round of addData appends the next bytes of the chunk. *)
LEMMA RoundStores ==
  ASSUME rp \in Offsets, NEW d \in Seq(Byte), NEW st \in Rounds(d)
  PROVE  /\ toWrite(st, d) \in Nat
         /\ AddRound(st, d) \in Rounds(d)
         /\ AddRound(st, d).written = st.written + toWrite(st, d)
         /\ AddRound(st, d).wp = Wrap(st.wp + toWrite(st, d))
         /\ FreeBetween(rp, AddRound(st, d).wp) = FreeBetween(rp, st.wp) - toWrite(st, d)
         /\ ContentOf(AddRound(st, d).m, rp, AddRound(st, d).wp)
              = ContentOf(st.m, rp, st.wp)
                  \o SubSeq(d, st.written + 1, st.written + toWrite(st, d))
<1> DEFINE n == toWrite(st, d)
           m == st.m
           w == st.wp
           k == st.written
<1>1. m \in [Offsets -> Byte] /\ w \in Offsets /\ k \in 0 .. Len(d) /\ Len(d) \in Nat
  BY DEF Rounds
<1>2. /\ n \in Nat /\ k + n \in 0 .. Len(d) /\ k \in Nat /\ k + n <= Len(d)
      /\ n <= FreeBetween(rp, w) /\ n <= BufferSize - w
  <2>1. n = AtMost(AtMost(Len(d) - k, FreeBetween(rp, w)), BufferSize - w)
    BY DEF toWrite
  <2>2. FreeBetween(rp, w) \in Nat /\ BufferSize - w \in Nat /\ Len(d) - k \in Nat
    <3> HIDE DEF w, k
    <3> QED
      BY <1>1, BufferAssumption DEF FreeBetween
  <2> HIDE DEF n, w, k
  <2> QED
    BY <1>1, <2>1, <2>2 DEF AtMost
<1>3. AddRound(st, d) = [m |-> CopyIn(m, w, d, k, n), wp |-> Wrap(w + n), written |-> k + n]
  BY DEF AddRound
<1> HIDE DEF n, m, w, k
<1>4. /\ CopyIn(m, w, d, k, n) \in [Offsets -> Byte]
      /\ Wrap(w + n) \in Offsets
      /\ FreeBetween(rp, Wrap(w + n)) = FreeBetween(rp, w) - n
      /\ ContentOf(CopyIn(m, w, d, k, n), rp, Wrap(w + n)) = Appended(m, rp, w, d, k, n)
  BY <1>1, <1>2, CopyAppends
<1>5. AddRound(st, d) \in Rounds(d)
  BY <1>2, <1>3, <1>4 DEF Rounds
<1>6. /\ AddRound(st, d).m = CopyIn(m, w, d, k, n)
      /\ AddRound(st, d).wp = Wrap(w + n)
      /\ AddRound(st, d).written = k + n
  BY <1>3
<1> QED
  BY <1>2, <1>4, <1>5, <1>6 DEF Appended, n, m, w, k

(* addData: the two rounds store as much of the chunk as fits. *)
LEMMA TwoRoundsStore ==
  ASSUME TypeOK, NEW d \in Seq(Byte)
  PROVE  /\ AddRounds(d) \in Rounds(d)
         /\ AddRounds(d).written = AtMost(Len(d), freeSpace)
         /\ ContentOf(AddRounds(d).m, rp, AddRounds(d).wp)
              = Content \o SubSeq(d, 1, AddRounds(d).written)
<1> DEFINE e0 == [m |-> mem, wp |-> wp, written |-> 0]
           e1 == AddRound(e0, d)
           e2 == AddRound(e1, d)
           n1 == toWrite(e0, d)
           n2 == toWrite(e1, d)
<1>1. /\ mem \in [Offsets -> Byte] /\ rp \in Offsets /\ wp \in Offsets
      /\ Len(d) \in Nat
  BY DEF TypeOK
<1>2. e0 \in Rounds(d) /\ e0.m = mem /\ e0.wp = wp /\ e0.written = 0
  BY <1>1 DEF Rounds
<1> HIDE DEF e0
<1>3. /\ n1 \in Nat /\ e1 \in Rounds(d)
      /\ e1.written = n1 /\ e1.wp = Wrap(wp + n1)
      /\ FreeBetween(rp, e1.wp) = FreeBetween(rp, wp) - n1
      /\ ContentOf(e1.m, rp, e1.wp) = Content \o SubSeq(d, 1, n1)
  <2>1. /\ n1 \in Nat /\ e1 \in Rounds(d)
        /\ e1.written = e0.written + n1 /\ e1.wp = Wrap(e0.wp + n1)
        /\ FreeBetween(rp, e1.wp) = FreeBetween(rp, e0.wp) - n1
        /\ ContentOf(e1.m, rp, e1.wp)
             = ContentOf(e0.m, rp, e0.wp)
                 \o SubSeq(d, e0.written + 1, e0.written + n1)
    BY <1>1, <1>2, RoundStores
  <2>2. e0.written + n1 = n1 /\ e0.written + 1 = 1
    BY <1>2, <2>1
  <2> HIDE DEF n1, e1
  <2> QED
    BY <1>2, <2>1, <2>2 DEF Content
<1>4. /\ n2 \in Nat /\ e2 \in Rounds(d)
      /\ e2.written = n1 + n2
      /\ ContentOf(e2.m, rp, e2.wp)
           = ContentOf(e1.m, rp, e1.wp) \o SubSeq(d, n1 + 1, n1 + n2)
  <2> HIDE DEF n1, e1
  <2>1. /\ n2 \in Nat /\ e2 \in Rounds(d)
        /\ e2.written = e1.written + n2
        /\ ContentOf(e2.m, rp, e2.wp)
             = ContentOf(e1.m, rp, e1.wp)
                 \o SubSeq(d, e1.written + 1, e1.written + n2)
    BY <1>1, <1>3, RoundStores
  <2> QED
    BY <1>3, <2>1
<1>5. n1 + n2 = AtMost(Len(d), freeSpace)
  <2> DEFINE free == FreeBetween(rp, wp)
             len == Len(d)
  <2>1. n1 = AtMost(AtMost(len - 0, free), BufferSize - wp)
    BY <1>2 DEF toWrite
  <2>2. n2 = AtMost(AtMost(len - n1, free - n1), BufferSize - Wrap(wp + n1))
    <3> HIDE DEF n1, e1
    <3> QED
      BY <1>3 DEF toWrite
  <2>3. free \in 0 .. BufferSize - 1 /\ len \in Nat /\ free = freeSpace
    BY <1>1, BufferAssumption DEF FreeBetween, freeSpace
  <2> HIDE DEF n1, n2, free, len
  <2>4. CASE n1 = BufferSize - wp
    <3>1. Wrap(wp + n1) = 0
      BY <1>1, <2>4, BufferAssumption DEF Wrap
    <3> QED
      BY <1>1, <2>1, <2>2, <2>3, <2>4, <3>1, BufferAssumption DEF AtMost, len
  <2>5. CASE n1 # BufferSize - wp
    <3>1. n1 = AtMost(len, free) /\ n1 < BufferSize - wp
      BY <1>1, <2>1, <2>3, <2>5, BufferAssumption DEF AtMost
    <3>2. BufferSize - Wrap(wp + n1) \in Nat
      BY <1>1, <1>3, <3>1, BufferAssumption DEF Wrap
    <3>3. n2 = 0
      BY <2>2, <2>3, <3>1, <3>2 DEF AtMost
    <3> QED
      BY <2>3, <3>1, <3>3 DEF len, AtMost
  <2> QED
    BY <2>4, <2>5
<1>6. ContentOf(e2.m, rp, e2.wp) = Content \o SubSeq(d, 1, n1 + n2)
  <2> HIDE DEF n1, n2, e1, e2
  <2> DEFINE c == Content
             s == SubSeq(d, 1, n1)
             t == SubSeq(d, n1 + 1, n1 + n2)
  <2>1. n1 \in Nat /\ n2 \in Nat /\ n1 + n2 <= Len(d)
    BY <1>3, <1>4 DEF Rounds
  <2>2. ContentOf(e2.m, rp, e2.wp) = (c \o s) \o t
    BY <1>3, <1>4
  <2>3. c \in Seq(Byte)
    BY <1>1, ContentType DEF Content
  <2>4. \A i \in 1 .. Len(d) : d[i] \in Byte
    OBVIOUS
  <2>5. s \in Seq(Byte) /\ t \in Seq(Byte)
    BY <2>1, <2>4
  <2>6. s \o t = SubSeq(d, 1, n1 + n2)
    <3>1. n1 \in 1 - 1 .. Len(d) /\ n1 + n2 \in n1 .. Len(d) /\ 1 \in 1 .. Len(d) + 1
      BY <1>1, <2>1
    <3> QED
      BY <3>1, ConcatAdjacentSubSeq
  <2>7. (c \o s) \o t = c \o (s \o t)
    <3> HIDE DEF c, s, t
    <3> QED
      BY <2>3, <2>5, ConcatAssociative
  <2> QED
    BY <2>2, <2>6, <2>7
<1>7. e2 = AddRounds(d)
  BY DEF AddRounds, e0
<1> HIDE DEF e2
<1> QED
  BY <1>4, <1>5, <1>6, <1>7
-----------------------------------------------------------------------------
(* The copy loop of fetchMessageToBuffer: the bytes copied so far, followed *)
(* by the bytes that are still stored.                                      *)
Turns == [rp : Offsets, out : Seq(Byte)]
AllBytes(st) == st.out \o ContentOf(mem, st.rp, wp)

(* The bytes that the next turn copies. *)
TurnSize(st, length) == AtMost(length - Len(st.out), Readable(st.rp))

(* A turn copies what is missing, as far as it lies in one part, and keeps *)
(* the order of all bytes.                                                 *)
LEMMA TurnTakes ==
  ASSUME TypeOK, NEW length \in Nat, NEW st \in Turns,
         Len(st.out) <= length, length - Len(st.out) <= UsedBetween(st.rp, wp)
  PROVE  /\ TurnSize(st, length) \in Nat
         /\ FetchTurn(st, length) \in Turns
         /\ Len(FetchTurn(st, length).out) = Len(st.out) + TurnSize(st, length)
         /\ FetchTurn(st, length).rp = Wrap(st.rp + TurnSize(st, length))
         /\ UsedBetween(FetchTurn(st, length).rp, wp)
              = UsedBetween(st.rp, wp) - TurnSize(st, length)
         /\ AllBytes(FetchTurn(st, length)) = AllBytes(st)
<1> DEFINE r == st.rp
           out == st.out
           n == TurnSize(st, length)
           g == Segment(mem, r, n)
           c == ContentOf(mem, r, wp)
           cc == ContentOf(mem, Wrap(r + n), wp)
           u == UsedBetween(r, wp)
           t == FetchTurn(st, length)
           og == out \o g
<1>1. /\ mem \in [Offsets -> Byte] /\ wp \in Offsets /\ r \in Offsets
      /\ out \in Seq(Byte) /\ Len(out) \in Nat
      /\ Len(out) <= length /\ length - Len(out) <= u
      /\ st = [rp |-> r, out |-> out]
  BY DEF TypeOK, Turns
<1>2. /\ n \in Nat /\ n <= u /\ n <= BufferSize - r /\ u \in Nat
      /\ n = 0 <=> Len(out) = length
      /\ n <= length - Len(out)
  <2>1. n = AtMost(length - Len(out), Readable(r))
    BY DEF TurnSize
  <2> HIDE DEF r, out, n
  <2>2. Readable(r) \in Nat \ {0} /\ Readable(r) <= BufferSize - r /\ u \in Nat
    BY <1>1, BufferAssumption DEF Readable, UsedBetween
  <2>3. u > 0 => Readable(r) <= u
    BY <1>1, BufferAssumption DEF Readable, UsedBetween
  <2> HIDE DEF u
  <2> QED
    BY <1>1, <2>1, <2>2, <2>3, BufferAssumption DEF AtMost
<1>3. t = IF Len(out) >= length \/ u < 1 THEN [rp |-> r, out |-> out]
          ELSE [rp |-> Wrap(r + n), out |-> og]
  BY <1>1 DEF FetchTurn, TurnSize
<1>4. /\ c \in Seq(Byte) /\ Len(c) = u
  BY <1>1, ContentType
<1>5. /\ Wrap(r + n) \in Offsets
      /\ UsedBetween(Wrap(r + n), wp) = u - n
      /\ g = SubSeq(c, 1, n) /\ cc = SubSeq(c, n + 1, u)
  <2> HIDE DEF r, n, out, t, og
  <2>1. /\ mem \in [Offsets -> Byte] /\ wp \in Offsets /\ r \in Offsets /\ n \in Nat
        /\ n <= UsedBetween(r, wp) /\ n <= BufferSize - r
    BY <1>1, <1>2
  <2> QED
    BY <2>1, TakeFromFront
<1> HIDE DEF r, out, n, u, c, cc, g, t
<1>0. \A i \in 1 .. u : c[i] \in Byte
  BY <1>2, <1>4
<1>6. g \in Seq(Byte) /\ Len(g) = n /\ cc \in Seq(Byte)
  BY <1>0, <1>2, <1>4, <1>5
<1>7. g \o cc = c
  <2>1. 1 \in 1 .. Len(c) + 1 /\ n \in 1 - 1 .. Len(c) /\ u \in n .. Len(c)
    BY <1>2, <1>4
  <2>2. SubSeq(c, 1, n) \o SubSeq(c, n + 1, u) = SubSeq(c, 1, u)
    BY <1>4, <2>1, ConcatAdjacentSubSeq
  <2>3. SubSeq(c, 1, u) = c
    BY <1>4, SubSeqFull
  <2> QED
    BY <1>5, <2>2, <2>3
<1>8. og \in Seq(Byte) /\ Len(og) = Len(out) + n
  <2>1. og \in Seq(Byte) /\ Len(og) = Len(out) + Len(g)
    BY <1>1, <1>6, ConcatProperties
  <2> QED
    BY <1>6, <2>1
<1>9. og \o cc = out \o c
  <2>1. out \in Seq(Byte) /\ g \in Seq(Byte) /\ cc \in Seq(Byte)
    BY <1>1, <1>6
  <2>2. (out \o g) \o cc = out \o (g \o cc)
    BY <2>1, ConcatAssociative
  <2> QED
    BY <1>7, <2>2
<1> HIDE DEF og
<1>10. CASE n = 0
  <2>1. t = [rp |-> r, out |-> out] /\ Wrap(r + n) = r
    BY <1>1, <1>2, <1>3, <1>10, BufferAssumption DEF Wrap
  <2>2. t \in Turns /\ Len(t.out) = Len(out) + n /\ t.rp = Wrap(r + n) /\ t = st
    BY <1>1, <1>10, <2>1 DEF Turns
  <2>3. UsedBetween(t.rp, wp) = u - n
    BY <1>5, <2>2
  <2>4. AllBytes(t) = AllBytes(st)
    BY <2>2
  <2> QED
    BY <1>2, <2>2, <2>3, <2>4 DEF n, t, r, out, u
<1>11. CASE n # 0
  <2>1. t = [rp |-> Wrap(r + n), out |-> og]
    BY <1>1, <1>2, <1>3, <1>11
  <2>2. t \in Turns /\ t.rp = Wrap(r + n) /\ t.out = og
    BY <1>5, <1>8, <2>1 DEF Turns
  <2>3. AllBytes(t) = og \o cc
    BY <2>2 DEF AllBytes, cc
  <2>4. AllBytes(st) = out \o c
    BY DEF AllBytes, out, r, c
  <2>5. AllBytes(t) = AllBytes(st)
    BY <1>9, <2>3, <2>4
  <2>6. Len(t.out) = Len(out) + n /\ UsedBetween(t.rp, wp) = u - n
    BY <1>5, <1>8, <2>2
  <2> QED
    BY <1>2, <2>2, <2>5, <2>6 DEF n, t, r, out, u
<1> QED
  BY <1>10, <1>11

(* A concatenation is cut where its first part ends. *)
LEMMA CutConcat ==
  ASSUME NEW s \in Seq(Byte), NEW t \in Seq(Byte), NEW c \in Seq(Byte), c = s \o t
  PROVE  s = SubSeq(c, 1, Len(s)) /\ t = SubSeq(c, Len(s) + 1, Len(c))
<1>1. /\ Len(c) = Len(s) + Len(t) /\ Len(s) \in Nat /\ Len(t) \in Nat
      /\ \A i \in 1 .. Len(s) + Len(t) :
           c[i] = IF i <= Len(s) THEN s[i] ELSE t[i - Len(s)]
  BY ConcatProperties
<1>2. \A i \in 1 .. Len(c) : c[i] \in Byte
  OBVIOUS
<1>3. s = SubSeq(c, 1, Len(s))
  <2>1. /\ SubSeq(c, 1, Len(s)) \in Seq(Byte) /\ Len(SubSeq(c, 1, Len(s))) = Len(s)
        /\ \A i \in 1 .. Len(s) : SubSeq(c, 1, Len(s))[i] = c[i]
    BY <1>1, <1>2
  <2>2. \A i \in 1 .. Len(s) : c[i] = s[i]
    BY <1>1
  <2> QED
    BY <2>1, <2>2, SeqEqual
<1>4. t = SubSeq(c, Len(s) + 1, Len(c))
  <2>1. /\ SubSeq(c, Len(s) + 1, Len(c)) \in Seq(Byte)
        /\ Len(SubSeq(c, Len(s) + 1, Len(c))) = Len(t)
        /\ \A i \in 1 .. Len(t) : SubSeq(c, Len(s) + 1, Len(c))[i] = c[Len(s) + i]
    BY <1>1, <1>2
  <2>2. \A i \in 1 .. Len(t) : c[Len(s) + i] = t[i]
    BY <1>1
  <2> QED
    BY <2>1, <2>2, SeqEqual
<1> QED
  BY <1>3, <1>4

(* Two turns hand out any stored prefix: it lies in at most two parts of   *)
(* the array, and each turn takes one.                                     *)
LEMMA LoopTakes ==
  ASSUME TypeOK, NEW length \in 1 .. usedSpace
  PROVE  /\ FetchLoop(length) \in Turns
         /\ Len(FetchLoop(length).out) = length
         /\ FetchLoop(length).out = SubSeq(Content, 1, length)
         /\ ContentOf(mem, FetchLoop(length).rp, wp) = SubSeq(Content, length + 1, Len(Content))
<1> DEFINE t0 == [rp |-> rp, out |-> NoBytes]
           t1 == FetchTurn(t0, length)
           t2 == FetchTurn(t1, length)
           n1 == TurnSize(t0, length)
           n2 == TurnSize(t1, length)
           u == UsedBetween(rp, wp)
<1>1. /\ mem \in [Offsets -> Byte] /\ rp \in Offsets /\ wp \in Offsets
      /\ u \in 0 .. BufferSize - 1 /\ length \in 1 .. u /\ length \in Nat
  <2>1. u \in 0 .. BufferSize - 1
    BY BufferAssumption DEF TypeOK, UsedBetween
  <2> QED
    BY <2>1 DEF TypeOK, usedSpace
<1>2. t0 \in Turns /\ t0.rp = rp /\ t0.out = << >> /\ Len(t0.out) = 0
  BY <1>1, EmptySeq DEF Turns
<1> HIDE DEF t0
<1>3. /\ n1 \in Nat /\ t1 \in Turns /\ Len(t1.out) = n1 /\ t1.rp = Wrap(rp + n1)
      /\ UsedBetween(t1.rp, wp) = u - n1
      /\ AllBytes(t1) = AllBytes(t0)
  <2>1. Len(t0.out) <= length /\ length - Len(t0.out) <= UsedBetween(t0.rp, wp)
    BY <1>1, <1>2
  <2>2. /\ n1 \in Nat /\ t1 \in Turns /\ Len(t1.out) = Len(t0.out) + n1
        /\ t1.rp = Wrap(t0.rp + n1)
        /\ UsedBetween(t1.rp, wp) = UsedBetween(t0.rp, wp) - n1
        /\ AllBytes(t1) = AllBytes(t0)
    BY <1>1, <1>2, <2>1, TurnTakes
  <2> HIDE DEF n1, t1
  <2> QED
    BY <1>2, <2>2
<1>4. n1 = AtMost(length, Readable(rp)) /\ n1 <= length
  <2>1. n1 = AtMost(length - 0, Readable(rp))
    BY <1>2 DEF TurnSize
  <2> HIDE DEF n1
  <2> QED
    BY <1>1, <2>1, BufferAssumption DEF AtMost, Readable
<1> HIDE DEF n1, t1
<1>5. /\ n2 \in Nat /\ t2 \in Turns /\ Len(t2.out) = n1 + n2
      /\ AllBytes(t2) = AllBytes(t1)
  <2>1. Len(t1.out) <= length /\ length - Len(t1.out) <= UsedBetween(t1.rp, wp)
    BY <1>1, <1>3, <1>4
  <2>2. /\ n2 \in Nat /\ t2 \in Turns /\ Len(t2.out) = Len(t1.out) + n2
        /\ AllBytes(t2) = AllBytes(t1)
    BY <1>1, <1>3, <2>1, TurnTakes
  <2> QED
    BY <1>3, <2>2
<1>6. n1 + n2 = length
  <2>1. n2 = AtMost(length - n1, Readable(Wrap(rp + n1)))
    BY <1>3 DEF TurnSize
  <2> HIDE DEF n2
  <2>2. CASE wp > rp
    BY <1>1, <1>3, <1>4, <1>5, <2>1, <2>2, BufferAssumption DEF AtMost, Readable, UsedBetween, Wrap
  <2>3. CASE wp <= rp /\ length <= BufferSize - rp
    BY <1>1, <1>3, <1>4, <1>5, <2>1, <2>3, BufferAssumption DEF AtMost, Readable, UsedBetween, Wrap
  <2>4. CASE wp <= rp /\ length > BufferSize - rp
    <3>1. n1 = BufferSize - rp /\ Wrap(rp + n1) = 0
      BY <1>1, <1>4, <2>4, BufferAssumption DEF AtMost, Readable, Wrap
    <3>2. u = wp + BufferSize - rp
      BY <1>1, <2>4, BufferAssumption DEF UsedBetween
    <3>3. length - n1 <= wp /\ wp > 0
      BY <1>1, <2>4, <3>1, <3>2, BufferAssumption
    <3> QED
      BY <1>1, <2>1, <3>1, <3>3 DEF AtMost, Readable
  <2> QED
    BY <1>1, <2>2, <2>3, <2>4, BufferAssumption
<1> HIDE DEF t2, n2, u
<1>7. t2.out \o ContentOf(mem, t2.rp, wp) = Content
  <2>1. Content \in Seq(Byte)
    BY <1>1, ContentType DEF Content
  <2>2. AllBytes(t0) = Content
    BY <1>2, <2>1, ConcatEmptySeq DEF AllBytes, Content
  <2> QED
    BY <1>3, <1>5, <2>2 DEF AllBytes
<1>8. /\ t2.out = SubSeq(Content, 1, length)
      /\ ContentOf(mem, t2.rp, wp) = SubSeq(Content, length + 1, Len(Content))
  <2> DEFINE s == t2.out
             t == ContentOf(mem, t2.rp, wp)
             c == Content
  <2>1. s \in Seq(Byte) /\ t \in Seq(Byte) /\ c \in Seq(Byte) /\ Len(s) = length
    BY <1>1, <1>5, <1>6, ContentType DEF Turns, Content
  <2>2. c = s \o t
    BY <1>7
  <2> HIDE DEF s, t, c
  <2>3. s = SubSeq(c, 1, Len(s)) /\ t = SubSeq(c, Len(s) + 1, Len(c))
    BY <2>1, <2>2, CutConcat
  <2> QED
    BY <2>1, <2>3 DEF s, t, c
<1>9. t2 = FetchLoop(length)
  BY DEF FetchLoop, t0, t1, t2
<1> QED
  BY <1>5, <1>6, <1>8, <1>9
-----------------------------------------------------------------------------
(* The abstract room is the free space of the ring. *)
LEMMA RoomIsFree ==
  ASSUME TypeOK
  PROVE  /\ Content \in Seq(Byte) /\ Len(Content) = usedSpace
         /\ Fifo!Room = freeSpace
         /\ usedSpace \in Nat /\ freeSpace \in Nat /\ usedSpace + freeSpace = BufferSize - 1
<1>1. mem \in [Offsets -> Byte] /\ rp \in Offsets /\ wp \in Offsets
  BY DEF TypeOK
<1>2. Content \in Seq(Byte) /\ Len(Content) = usedSpace
  BY <1>1, ContentType DEF Content, usedSpace
<1>3. usedSpace \in Nat /\ freeSpace \in Nat /\ usedSpace + freeSpace = BufferSize - 1
  BY <1>1, BufferAssumption DEF usedSpace, freeSpace, UsedBetween, FreeBetween
<1> QED
  BY <1>2, <1>3, BufferAssumption DEF Fifo!Room

(* The empty buffer. *)
LEMMA Emptied ==
  ASSUME TypeOK, reset
  PROVE  TypeOK' /\ Fifo!Reset
<1>1. TypeOK'
  BY BufferAssumption, EmptySeq DEF TypeOK, reset
<1>2. Content' \in Seq(Byte) /\ Len(Content') = 0
  <2>1. Content' = ContentOf(mem', 0, 0)
    BY DEF Content, reset
  <2>2. mem' \in [Offsets -> Byte] /\ 0 \in Offsets /\ UsedBetween(0, 0) = 0
    BY <1>1, BufferAssumption DEF TypeOK, UsedBetween
  <2> QED
    BY <2>1, <2>2, ContentType
<1>3. Content' = << >>
  BY <1>2, EmptySeq
<1> QED
  BY <1>1, <1>3 DEF reset, Fifo!Reset

(* A call that moves no pointer and hands out nothing takes nothing. *)
LEMMA NothingMoved ==
  ASSUME TypeOK, UNCHANGED <<mem, wp, rp>>, ret' = << >>
  PROVE  TypeOK' /\ Content' = Content /\ Fifo!Refuse
         /\ Fifo!HandOut(0) /\ Fifo!Accept(<< >>)
<1>1. TypeOK' /\ Content' = Content
  BY EmptySeq DEF TypeOK, Content
<1>2. Content \in Seq(Byte)
  BY RoomIsFree
<1>3. Content \o << >> = Content
  BY <1>2, ConcatEmptySeq
<1>4. SubSeq(Content, 0 + 1, Len(Content)) = Content /\ SubSeq(Content, 1, 0) = << >>
  BY <1>2, SubSeqFull, SubSeqEmpty
<1> QED
  BY <1>1, <1>3, <1>4 DEF Fifo!Refuse, Fifo!HandOut, Fifo!Rest, Fifo!First, Fifo!Accept

(* Moving the read pointer over the n bytes handed out takes them. *)
LEMMA Taken ==
  ASSUME TypeOK, NEW n \in Nat, n <= usedSpace, n <= BufferSize - rp,
         UNCHANGED <<mem, wp>>, rp' = Wrap(rp + n), ret' = Segment(mem, rp, n)
  PROVE  TypeOK' /\ Fifo!HandOut(n) /\ n <= Len(Content)
<1>1. mem \in [Offsets -> Byte] /\ rp \in Offsets /\ wp \in Offsets
  BY DEF TypeOK
<1>2. /\ Wrap(rp + n) \in Offsets
      /\ Segment(mem, rp, n) = SubSeq(Content, 1, n)
      /\ ContentOf(mem, Wrap(rp + n), wp) = SubSeq(Content, n + 1, usedSpace)
  BY <1>1, TakeFromFront DEF Content, usedSpace
<1>3. Content \in Seq(Byte) /\ Len(Content) = usedSpace /\ usedSpace \in Nat
  BY RoomIsFree
<1>4. Content' = SubSeq(Content, n + 1, Len(Content))
  BY <1>2, <1>3 DEF Content
<1>5. ret' = SubSeq(Content, 1, n)
  BY <1>2
<1>6. ret' \in Seq(Byte)
  <2>1. \A i \in 1 .. usedSpace : Content[i] \in Byte
    BY <1>3
  <2> QED
    BY <1>3, <1>5, <2>1
<1> QED
  BY <1>1, <1>2, <1>3, <1>4, <1>5, <1>6 DEF TypeOK, Fifo!HandOut, Fifo!First, Fifo!Rest

(* read hands out the oldest byte. *)
LEMMA ReadPromise ==
  ASSUME TypeOK, read
  PROVE  TypeOK' /\ Fifo!Take(1)
<1>1. CASE usedSpace = 0 /\ UNCHANGED rp /\ ret' = NoBytes
  <2>1. TypeOK' /\ Fifo!HandOut(0) /\ Len(Content) = 0 /\ Content \in Seq(Byte)
    BY <1>1, NothingMoved, RoomIsFree DEF read
  <2> QED
    BY <2>1, EmptySeq DEF Fifo!Take
<1>2. CASE usedSpace > 0 /\ rp' = Wrap(rp + 1) /\ ret' = <<mem[rp]>>
  <2>1. usedSpace \in Nat /\ 1 <= usedSpace /\ 1 <= BufferSize - rp
    BY <1>2, RoomIsFree, BufferAssumption DEF TypeOK
  <2>2. Segment(mem, rp, 1) = <<mem[rp]>>
    BY BufferAssumption DEF Segment, TypeOK
  <2>3. TypeOK' /\ Fifo!HandOut(1) /\ 1 <= Len(Content)
    BY <1>2, <2>1, <2>2, Taken DEF read
  <2> QED
    BY <2>3 DEF Fifo!Take
<1> QED
  BY <1>1, <1>2 DEF read

(* peek shows the oldest byte and leaves it. *)
LEMMA PeekPromise ==
  ASSUME TypeOK, peek
  PROVE  TypeOK' /\ Fifo!Look
<1>1. /\ Content \in Seq(Byte) /\ Len(Content) = usedSpace /\ usedSpace \in Nat
      /\ Content' = Content
  BY RoomIsFree DEF peek, Content
<1>2. CASE usedSpace = 0
  <2>1. ret' = << >> /\ Content = << >>
    BY <1>1, <1>2, EmptySeq DEF peek
  <2>2. SubSeq(Content, 1, 0) = << >>
    BY SubSeqEmpty
  <2>3. TypeOK'
    BY <1>2, NothingMoved DEF peek
  <2> QED
    BY <1>1, <2>1, <2>2, <2>3 DEF Fifo!Look, Fifo!First
<1>3. CASE usedSpace # 0
  <2>1. ret' = <<mem[rp]>> /\ rp \in Offsets /\ mem[rp] \in Byte
    BY <1>3 DEF peek, TypeOK
  <2>2. Content # << >> /\ 1 \in 1 .. usedSpace
    BY <1>1, <1>3
  <2>3. Content[1] = mem[rp]
    <3>1. Wrap(rp + 1 - 1) = rp
      BY <2>1, BufferAssumption DEF Wrap
    <3> QED
      BY <2>2, <3>1 DEF Content, ContentOf, usedSpace
  <2>4. SubSeq(Content, 1, 1) = <<Content[1]>>
    <3> DEFINE s == SubSeq(Content, 1, 1)
    <3>1. Content[1] \in Byte
      BY <2>1, <2>3
    <3>2. s \in Seq(Byte) /\ Len(s) = 1 /\ s[1] = Content[1]
      BY <1>1, <3>1
    <3> HIDE DEF s
    <3>3. s = <<Content[1]>>
      BY <3>1, <3>2
    <3> QED
      BY <3>3 DEF s
  <2>5. TypeOK'
    BY <2>1 DEF peek, TypeOK
  <2> QED
    BY <1>1, <2>1, <2>2, <2>3, <2>4, <2>5 DEF Fifo!Look, Fifo!First
<1> QED
  BY <1>2, <1>3

(* addData stores a chunk whole or refuses it; with addPartial it stores   *)
(* as much as fits.                                                        *)
LEMMA AddPromise ==
  ASSUME TypeOK, NEW d \in Chunks, NEW addPartial \in BOOLEAN, addData(d, addPartial)
  PROVE  /\ TypeOK'
         /\ ~addPartial => Fifo!PutWhole(d)
         /\ addPartial => Fifo!PutPart(d)
<1>1. /\ d \in Seq(Byte) /\ Len(d) \in Nat
      /\ freeSpace \in Nat /\ Fifo!Room = freeSpace
      /\ Content \in Seq(Byte)
  BY RoomIsFree, BufferAssumption
<1>2. CASE /\ d = NoBytes \/ (freeSpace < Len(d) /\ ~addPartial)
           /\ UNCHANGED <<mem, wp, rp>> /\ ret' = NoBytes
  <2>1. TypeOK' /\ Fifo!Refuse /\ Fifo!Accept(<< >>)
    BY <1>2, NothingMoved
  <2>2. CASE d = << >>
    BY <1>1, <2>1, <2>2, EmptySeq DEF Fifo!PutWhole, Fifo!PutPart
  <2>3. CASE freeSpace < Len(d) /\ ~addPartial
    BY <1>1, <2>1, <2>3 DEF Fifo!PutWhole
  <2> QED
    BY <1>2, <2>2, <2>3
<1>3. CASE /\ d # NoBytes /\ (freeSpace >= Len(d) \/ addPartial)
           /\ mem' = AddRounds(d).m /\ wp' = AddRounds(d).wp
           /\ ret' = SubSeq(d, 1, AddRounds(d).written)
           /\ UNCHANGED rp
  <2> DEFINE k == AtMost(Len(d), freeSpace)
  <2>1. /\ AddRounds(d) \in Rounds(d) /\ AddRounds(d).written = k
        /\ ContentOf(AddRounds(d).m, rp, AddRounds(d).wp)
             = Content \o SubSeq(d, 1, AddRounds(d).written)
    BY <1>1, TwoRoundsStore
  <2>2. k \in Nat /\ k <= Len(d)
    BY <1>1 DEF AtMost
  <2>3. \A i \in 1 .. Len(d) : d[i] \in Byte
    BY <1>1
  <2>4. SubSeq(d, 1, k) \in Seq(Byte)
    BY <1>1, <2>2, <2>3
  <2>5. TypeOK'
    BY <1>3, <2>1, <2>4 DEF TypeOK, Rounds
  <2>6. Content' = Content \o SubSeq(d, 1, k) /\ ret' = SubSeq(d, 1, k)
    BY <1>3, <2>1 DEF Content
  <2>7. Fifo!Accept(SubSeq(d, 1, k))
    BY <2>6 DEF Fifo!Accept
  <2>8. CASE freeSpace >= Len(d)
    <3>1. k = Len(d) /\ SubSeq(d, 1, Len(d)) = d
      BY <1>1, <2>8, SubSeqFull DEF AtMost
    <3> HIDE DEF k
    <3>2. SubSeq(d, 1, k) = d
      BY <3>1
    <3> QED
      BY <1>1, <2>5, <2>7, <2>8, <3>2 DEF Fifo!PutWhole, Fifo!PutPart
  <2>9. CASE freeSpace < Len(d)
    <3>1. k = freeSpace /\ addPartial
      BY <1>1, <1>3, <2>9 DEF AtMost
    <3> HIDE DEF k
    <3> QED
      BY <1>1, <2>5, <2>7, <2>9, <3>1 DEF Fifo!PutPart, Fifo!First
  <2> QED
    BY <1>1, <2>8, <2>9
<1> QED
  BY <1>2, <1>3 DEF addData

(* fetchData moves at least one byte to a device that asks for some, and   *)
(* no more than it asked for.                                              *)
LEMMA FetchPromise ==
  ASSUME TypeOK, NEW maxLen \in MaxLens, NEW want \in Lengths, fetchData(maxLen, want)
  PROVE  TypeOK' /\ Fifo!Take(Limit(maxLen, want))
<1> DEFINE most == Limit(maxLen, want)
           k == AtMost(want, Limit(maxLen, Readable(rp)))
<1>1. /\ most \in Nat /\ maxLen \in Int /\ want \in Nat
      /\ mem \in [Offsets -> Byte] /\ rp \in Offsets /\ wp \in Offsets
  BY BufferAssumption DEF MaxLens, Lengths, Limit, AtMost, TypeOK
<1>2. Content \in Seq(Byte) /\ Len(Content) = usedSpace /\ usedSpace \in Nat
  BY RoomIsFree
<1>3. CASE usedSpace < 1 /\ UNCHANGED rp /\ ret' = NoBytes
  <2>1. TypeOK' /\ Fifo!HandOut(0) /\ Len(Content) = 0
    BY <1>2, <1>3, NothingMoved DEF fetchData
  <2>2. Content = << >>
    BY <1>2, <2>1, EmptySeq
  <2> QED
    BY <1>1, <2>1, <2>2 DEF Fifo!Take
<1>4. CASE usedSpace >= 1 /\ rp' = Wrap(rp + k) /\ ret' = Segment(mem, rp, k)
  <2>1. /\ Readable(rp) \in Nat \ {0} /\ Readable(rp) <= usedSpace
        /\ Readable(rp) <= BufferSize - rp
    BY <1>1, <1>4, BufferAssumption DEF Readable, usedSpace, UsedBetween
  <2>2. /\ k \in Nat /\ k <= usedSpace /\ k <= BufferSize - rp /\ k <= most
        /\ most > 0 => k > 0
    <3> DEFINE avail == Readable(rp)
    <3>1. avail \in Nat \ {0} /\ avail <= usedSpace /\ avail <= BufferSize - rp
      BY <2>1
    <3> HIDE DEF avail
    <3>2. k = AtMost(want, Limit(maxLen, avail))
      BY DEF avail
    <3> HIDE DEF k
    <3> QED
      BY <1>1, <1>2, <3>1, <3>2, BufferAssumption DEF Limit, AtMost
  <2> HIDE DEF k, most
  <2>3. TypeOK' /\ Fifo!HandOut(k) /\ k <= Len(Content)
    BY <1>4, <2>2, Taken DEF fetchData
  <2> QED
    BY <1>1, <2>2, <2>3 DEF Fifo!Take, most
<1> QED
  BY <1>3, <1>4 DEF fetchData

(* fillData stores a prefix of what the device has, and something unless   *)
(* there is no room.                                                       *)
LEMMA FillPromise ==
  ASSUME TypeOK, NEW maxLen \in MaxLens, NEW d \in Chunks, fillData(maxLen, d)
  PROVE  TypeOK' /\ Fifo!Fill(Fifo!First(d, Limit(maxLen, Len(d))))
<1> DEFINE most == Limit(maxLen, Len(d))
           offered == SubSeq(d, 1, most)
           k == AtMost(Len(d), Limit(maxLen, Writable))
<1>1. /\ maxLen \in Int /\ d \in Seq(Byte) /\ Len(d) \in Nat
      /\ \A i \in 1 .. Len(d) : d[i] \in Byte
      /\ mem \in [Offsets -> Byte] /\ rp \in Offsets /\ wp \in Offsets
  BY BufferAssumption DEF MaxLens, Lengths, TypeOK
<1>2. /\ freeSpace \in Nat /\ Fifo!Room = freeSpace
  BY RoomIsFree
<1>3. most \in Nat /\ most <= Len(d)
  BY <1>1, BufferAssumption DEF MaxLens, Lengths, Limit, AtMost
<1>4. /\ Writable \in Nat /\ Writable <= freeSpace /\ Writable <= BufferSize - wp
      /\ freeSpace >= 1 => Writable >= 1
  BY <1>1, BufferAssumption DEF Writable, freeSpace, FreeBetween
<1>5. /\ k \in Nat /\ k <= most /\ k <= freeSpace /\ k <= BufferSize - wp
      /\ freeSpace > 0 /\ most > 0 => k > 0
  <2> DEFINE avail == Writable
             len == Len(d)
  <2>1. /\ avail \in Nat /\ avail <= freeSpace /\ avail <= BufferSize - wp
        /\ freeSpace >= 1 => avail >= 1
        /\ len \in Nat /\ most = Limit(maxLen, len)
        /\ k = AtMost(len, Limit(maxLen, avail))
    BY <1>1, <1>4
  <2> HIDE DEF avail, len, k, most
  <2> QED
    BY <1>1, <1>2, <2>1, BufferAssumption DEF Limit, AtMost
<1> HIDE DEF most, k
<1>6. offered \in Seq(Byte) /\ Len(offered) = most
  BY <1>1, <1>3
<1>7. SubSeq(offered, 1, k) = SubSeq(d, 1, k)
  <2>1. /\ SubSeq(offered, 1, k) \in Seq(Byte) /\ Len(SubSeq(offered, 1, k)) = k
        /\ \A i \in 1 .. k : SubSeq(offered, 1, k)[i] = d[i]
    BY <1>1, <1>3, <1>5
  <2>2. /\ SubSeq(d, 1, k) \in Seq(Byte) /\ Len(SubSeq(d, 1, k)) = k
        /\ \A i \in 1 .. k : SubSeq(d, 1, k)[i] = d[i]
    BY <1>1, <1>3, <1>5
  <2> QED
    BY <2>1, <2>2, SeqEqual
<1>8. CASE /\ freeSpace < 1 \/ Limit(maxLen, Writable) = 0
           /\ UNCHANGED <<mem, wp>> /\ ret' = NoBytes
  <2>1. TypeOK' /\ Fifo!Accept(<< >>)
    BY <1>8, NothingMoved DEF fillData
  <2>2. k = 0
    <3>1. CASE freeSpace < 1
      BY <1>2, <1>5, <3>1
    <3>2. CASE Limit(maxLen, Writable) = 0
      BY <1>1, <3>2 DEF k, AtMost
    <3> QED
      BY <1>8, <3>1, <3>2
  <2>3. SubSeq(offered, 1, 0) = << >>
    BY SubSeqEmpty
  <2>4. offered # << >> => most > 0
    BY <1>3, <1>6, EmptySeq
  <2>5. ~(freeSpace > 0 /\ offered # << >>)
    BY <1>5, <2>2, <2>4
  <2> HIDE DEF offered
  <2>6. Fifo!Fill(offered)
    <3>1. 0 \in 0 .. Len(offered) /\ 0 <= Fifo!Room
      BY <1>2, <1>3, <1>6
    <3>2. Fifo!Accept(SubSeq(offered, 1, 0))
      BY <2>1, <2>3
    <3> QED
      BY <1>2, <2>5, <3>1, <3>2 DEF Fifo!Fill, Fifo!First
  <2> QED
    BY <2>1, <2>6 DEF offered, most, Fifo!First
<1>9. CASE /\ mem' = CopyIn(mem, wp, d, 0, k) /\ wp' = Wrap(wp + k)
           /\ ret' = SubSeq(d, 1, k)
  <2>1. 0 + k <= Len(d) /\ k <= FreeBetween(rp, wp) /\ 0 \in Nat
    BY <1>1, <1>3, <1>5 DEF freeSpace
  <2>2. /\ CopyIn(mem, wp, d, 0, k) \in [Offsets -> Byte]
        /\ Wrap(wp + k) \in Offsets
        /\ ContentOf(CopyIn(mem, wp, d, 0, k), rp, Wrap(wp + k)) = Appended(mem, rp, wp, d, 0, k)
    BY <1>1, <1>5, <2>1, CopyAppends
  <2>3. 0 + 1 = 1 /\ 0 + k = k
    BY <1>5
  <2>4. Appended(mem, rp, wp, d, 0, k) = Content \o SubSeq(d, 1, k)
    BY <2>3 DEF Appended, Content
  <2>5. Content' = Content \o SubSeq(d, 1, k)
    BY <1>9, <2>2, <2>4 DEF Content, fillData
  <2>6. SubSeq(d, 1, k) \in Seq(Byte)
    BY <1>1, <1>3, <1>5
  <2>7. TypeOK'
    BY <1>1, <1>9, <2>2, <2>6 DEF TypeOK, fillData
  <2>8. Fifo!Accept(SubSeq(offered, 1, k))
    BY <1>7, <1>9, <2>5 DEF Fifo!Accept
  <2>9. freeSpace > 0 /\ offered # << >> => k > 0
    BY <1>3, <1>5, <1>6, EmptySeq
  <2> HIDE DEF offered
  <2>10. Fifo!Fill(offered)
    BY <1>2, <1>3, <1>5, <1>6, <2>8, <2>9 DEF Fifo!Fill, Fifo!First
  <2> QED
    BY <2>7, <2>10 DEF offered, most, Fifo!First
<1> QED
  BY <1>8, <1>9 DEF fillData, k

(* The least-number principle, from the well-foundedness of < on Nat. *)
LEMMA LeastNatural ==
  ASSUME NEW T \in SUBSET Nat, T # {}
  PROVE  \E n \in T : \A i \in T : n <= i
<1> DEFINE R == {ss \in Nat \X Nat : ss[1] < ss[2]}
<1>1. IsWellFoundedOn(R, Nat)
  BY NatLessThanWellFounded DEF OpToRel
<1>2. \A m, n \in Nat : m < n => <<m, n>> \in R
  OBVIOUS
<1> HIDE DEF R
<1>3. PICK n \in T : \A i \in T : ~ (<<i, n>> \in R)
  BY <1>1, WFMin
<1>4. \A i \in T : i \in Nat /\ n \in Nat /\ ~ (i < n)
  BY <1>2, <1>3
<1>5. \A i \in T : n <= i
  BY <1>4
<1> QED
  BY <1>5

(* findChar finds the end of the first message, if there is one. *)
LEMMA FindsFirst ==
  ASSUME TypeOK
  PROVE  \/ findChar(Delimiter) = -1 /\ ~Fifo!HasMessage
         \/ /\ findChar(Delimiter) \in 0 .. usedSpace - 1
            /\ Fifo!FirstMessageIs(findChar(Delimiter) + 1)
            /\ Fifo!HasMessage
<1> DEFINE found(of) == FoundAt(Delimiter, of)
           offset == findChar(Delimiter)
<1>1. /\ Content \in Seq(Byte) /\ Len(Content) = usedSpace /\ usedSpace \in Nat
      /\ \A i \in 1 .. usedSpace : Content[i] = mem[Wrap(rp + i - 1)]
  BY RoomIsFree, ContentType DEF Content, usedSpace, TypeOK
<1>2. rp \in Int
  BY BufferAssumption DEF TypeOK
<1>3. \A i \in 0 .. usedSpace - 1 : mem[Wrap(rp + i)] = Content[i + 1]
  <2> SUFFICES ASSUME NEW i \in 0 .. usedSpace - 1
               PROVE  mem[Wrap(rp + i)] = Content[i + 1]
    OBVIOUS
  <2>1. i + 1 \in 1 .. usedSpace /\ rp + (i + 1) - 1 = rp + i
    BY <1>1, <1>2
  <2> QED
    BY <1>1, <2>1
<1>4. CASE ~ \E of \in 0 .. usedSpace - 1 : found(of)
  <2>1. offset = -1
    BY <1>4 DEF findChar
  <2>2. ASSUME Fifo!HasMessage
        PROVE  FALSE
    <3> DEFINE T == {i \in 0 .. usedSpace - 1 : mem[Wrap(rp + i)] = Delimiter}
    <3>1. PICK j \in 1 .. usedSpace : Content[j] = Delimiter
      BY <1>1, <2>2 DEF Fifo!HasMessage
    <3>2. j - 1 \in 0 .. usedSpace - 1 /\ (j - 1) + 1 = j
      BY <1>1
    <3>3. j - 1 \in T
      BY <1>3, <3>1, <3>2
    <3>0. \A i \in T : i \in Nat
      BY <1>1
    <3> HIDE DEF T
    <3>4. T \in SUBSET Nat /\ T # {}
      BY <3>0, <3>3
    <3>5. PICK n \in T : \A i \in T : n <= i
      BY <3>4, LeastNatural
    <3>6. n \in 0 .. usedSpace - 1 /\ mem[Wrap(rp + n)] = Delimiter
      BY <3>5 DEF T
    <3>7. \A i \in 0 .. n - 1 : i \in 0 .. usedSpace - 1 /\ ~ (n <= i)
      BY <1>1, <3>6
    <3>8. \A i \in 0 .. n - 1 : mem[Wrap(rp + i)] # Delimiter
      BY <3>5, <3>7 DEF T
    <3> QED
      BY <1>4, <3>6, <3>8 DEF FoundAt
  <2> QED
    BY <2>1, <2>2
<1>5. CASE \E of \in 0 .. usedSpace - 1 : found(of)
  <2>1. offset \in 0 .. usedSpace - 1 /\ found(offset)
    BY <1>5 DEF findChar
  <2> HIDE DEF offset
  <2>2. Content[offset + 1] = Delimiter
    BY <1>3, <2>1 DEF FoundAt
  <2>3. \A i \in 1 .. offset : Content[i] # Delimiter
    <3> SUFFICES ASSUME NEW i \in 1 .. offset
                 PROVE  Content[i] # Delimiter
      OBVIOUS
    <3>1. i - 1 \in 0 .. offset - 1 /\ i - 1 \in 0 .. usedSpace - 1 /\ (i - 1) + 1 = i
      BY <1>1, <2>1
    <3>2. mem[Wrap(rp + (i - 1))] # Delimiter
      BY <2>1, <3>1 DEF FoundAt
    <3> QED
      BY <1>3, <3>1, <3>2
  <2>4. offset + 1 \in 1 .. Len(Content) /\ (offset + 1) - 1 = offset
    BY <1>1, <2>1
  <2>5. Fifo!FirstMessageIs(offset + 1)
    BY <2>2, <2>3, <2>4 DEF Fifo!FirstMessageIs
  <2>6. Fifo!HasMessage
    BY <2>2, <2>4 DEF Fifo!HasMessage
  <2> QED
    BY <2>1, <2>5, <2>6 DEF offset
<1> QED
  BY <1>4, <1>5

(* fetchMessageToBuffer hands out exactly the first message, or discards a *)
(* full buffer that holds none.                                            *)
LEMMA MessagePromise ==
  ASSUME TypeOK, fetchMessageToBuffer
  PROVE  TypeOK' /\ Fifo!TakeMessage
<1> DEFINE offset == findChar(Delimiter)
           message == FetchLoop(offset + 1)
<1>1. /\ Content \in Seq(Byte) /\ Len(Content) = usedSpace /\ usedSpace \in Nat
      /\ usedSpace < BufferSize /\ freeSpace \in Nat /\ Fifo!Room = freeSpace
  BY RoomIsFree, BufferAssumption
<1>2. CASE offset = -1 /\ ~Fifo!HasMessage
  <2>1. CASE freeSpace > 0
    <3>1. UNCHANGED <<mem, wp, rp>> /\ ret' = NoBytes
      BY <1>2, <2>1 DEF fetchMessageToBuffer
    <3>2. TypeOK' /\ Fifo!Refuse
      BY <3>1, NothingMoved
    <3> QED
      BY <1>1, <1>2, <2>1, <3>2 DEF Fifo!TakeMessage
  <2>2. CASE freeSpace = 0
    <3>1. reset
      BY <1>2, <2>2 DEF fetchMessageToBuffer
    <3>2. TypeOK' /\ Fifo!Reset
      BY <3>1, Emptied
    <3> QED
      BY <1>1, <1>2, <2>2, <3>2 DEF Fifo!TakeMessage
  <2> QED
    BY <1>1, <2>1, <2>2
<1>3. CASE offset \in 0 .. usedSpace - 1 /\ Fifo!FirstMessageIs(offset + 1) /\ Fifo!HasMessage
  <2> HIDE DEF offset
  <2>1. offset >= 0 /\ offset + 1 \in 1 .. usedSpace /\ offset + 1 < MessageSize
    BY <1>1, <1>3, BufferAssumption
  <2>0. offset \in Int /\ MessageSize \in Nat
    BY <1>3, BufferAssumption
  <2>2. /\ message \in Turns /\ Len(message.out) = offset + 1
        /\ message.out = SubSeq(Content, 1, offset + 1)
        /\ ContentOf(mem, message.rp, wp) = SubSeq(Content, (offset + 1) + 1, Len(Content))
    BY <2>1, LoopTakes
  <2> HIDE DEF message
  <2>3. rp' = message.rp /\ ret' = message.out /\ UNCHANGED <<mem, wp>>
    <3>1. /\ ~(offset < 0) /\ ~(offset + 1 >= MessageSize)
          /\ ~(Len(message.out) < offset + 1)
      BY <2>0, <2>1, <2>2
    <3> QED
      BY <3>1 DEF fetchMessageToBuffer, offset, message
  <2>4. TypeOK'
    BY <2>2, <2>3 DEF TypeOK, Turns
  <2>5. Fifo!HandOut(offset + 1)
    BY <2>2, <2>3 DEF Fifo!HandOut, Fifo!First, Fifo!Rest, Content
  <2>6. Fifo!TakeMessage
    BY <1>1, <1>3, <2>1, <2>5 DEF Fifo!TakeMessage
  <2> QED
    BY <2>4, <2>6
<1> QED
  BY <1>2, <1>3, FindsFirst
-----------------------------------------------------------------------------
(* A step keeps the offsets in range. *)
LEMMA StepType ==
  ASSUME TypeOK, [Next]_vars
  PROVE  TypeOK'
<1>1. CASE reset
  BY <1>1, Emptied
<1>2. CASE read
  BY <1>2, ReadPromise
<1>3. CASE peek
  BY <1>3, PeekPromise
<1>4. CASE \E d \in Chunks, addPartial \in BOOLEAN : addData(d, addPartial)
  BY <1>4, AddPromise
<1>5. CASE \E maxLen \in MaxLens, want \in Lengths : fetchData(maxLen, want)
  BY <1>5, FetchPromise
<1>6. CASE \E maxLen \in MaxLens, d \in Chunks : fillData(maxLen, d)
  BY <1>6, FillPromise
<1>7. CASE fetchMessageToBuffer
  BY <1>7, MessagePromise
<1>8. CASE UNCHANGED vars
  BY <1>8 DEF TypeOK, vars
<1> QED
  BY <1>1, <1>2, <1>3, <1>4, <1>5, <1>6, <1>7, <1>8 DEF Next

(* Read and write pointer never leave the array, whatever the callers do   *)
(* (GwBuffer.cpp moves them with unchecked pointer arithmetic).            *)
THEOREM TypeCorrect == Spec => []TypeOK
<1>1. Init => TypeOK
  BY BufferAssumption, EmptySeq DEF Init, TypeOK
<1>2. TypeOK /\ [Next]_vars => TypeOK'
  BY StepType
<1> QED
  BY <1>1, <1>2, PTL DEF Spec

(* The copy loop of fetchMessageToBuffer always copies the whole message   *)
(* with two calls of fetchData, so "internal fetch error" is unreachable.  *)
THEOREM MessagesAreCopied == Spec => []TwoTurnsSuffice
<1>1. TypeOK => TwoTurnsSuffice
  BY LoopTakes DEF TwoTurnsSuffice
<1> QED
  BY <1>1, TypeCorrect, PTL

(* Each call of the ring buffer does what the store promises for it. *)
THEOREM CallsCorrect == Spec => CallsKeepPromise
<1> DEFINE Promise ==
      /\ reset => Fifo!Reset
      /\ read => Fifo!Take(1)
      /\ peek => Fifo!Look
      /\ \A d \in Chunks :
           /\ addData(d, FALSE) => Fifo!PutWhole(d)
           /\ addData(d, TRUE) => Fifo!PutPart(d)
           /\ \A maxLen \in MaxLens :
                fillData(maxLen, d) => Fifo!Fill(Fifo!First(d, Limit(maxLen, Len(d))))
      /\ \A maxLen \in MaxLens, want \in Lengths :
           fetchData(maxLen, want) => Fifo!Take(Limit(maxLen, want))
      /\ fetchMessageToBuffer => Fifo!TakeMessage
<1>1. TypeOK => Promise
  <2> SUFFICES ASSUME TypeOK PROVE Promise
    OBVIOUS
  <2>1. (reset => Fifo!Reset) /\ (read => Fifo!Take(1)) /\ (peek => Fifo!Look)
    BY Emptied, ReadPromise, PeekPromise
  <2>2. ASSUME NEW d \in Chunks
        PROVE  /\ addData(d, FALSE) => Fifo!PutWhole(d)
               /\ addData(d, TRUE) => Fifo!PutPart(d)
    BY AddPromise
  <2>3. ASSUME NEW d \in Chunks, NEW maxLen \in MaxLens, fillData(maxLen, d)
        PROVE  Fifo!Fill(Fifo!First(d, Limit(maxLen, Len(d))))
    BY <2>3, FillPromise
  <2>4. ASSUME NEW maxLen \in MaxLens, NEW want \in Lengths, fetchData(maxLen, want)
        PROVE  Fifo!Take(Limit(maxLen, want))
    BY <2>4, FetchPromise
  <2>5. fetchMessageToBuffer => Fifo!TakeMessage
    BY MessagePromise
  <2> QED
    BY <2>1, <2>2, <2>3, <2>4, <2>5
<1>2. TypeOK => [Promise]_vars
  BY <1>1
<1> HIDE DEF Promise
<1>3. Spec => [][Promise]_vars
  BY <1>2, TypeCorrect, PTL
<1> QED
  BY <1>3 DEF CallsKeepPromise, Promise

(* The ring buffer implements the first-in first-out store. *)
THEOREM Refinement == Spec => RingIsFifo
<1>1. Init => Fifo!Init
  <2> SUFFICES ASSUME Init PROVE Fifo!Init
    OBVIOUS
  <2>1. TypeOK /\ wp = rp
    BY BufferAssumption, EmptySeq DEF Init, TypeOK
  <2>2. Len(Content) = 0 /\ Content \in Seq(Byte)
    BY <2>1, RoomIsFree DEF usedSpace, UsedBetween, TypeOK
  <2> QED
    BY <2>2, EmptySeq DEF Init, Fifo!Init
<1>2. TypeOK /\ [Next]_vars => [Fifo!Next]_(Fifo!vars)
  <2> SUFFICES ASSUME TypeOK, [Next]_vars PROVE [Fifo!Next]_(Fifo!vars)
    OBVIOUS
  <2>1. CASE reset
    BY <2>1, Emptied DEF Fifo!Next
  <2>2. CASE read
    <3>1. 1 \in 0 .. (BufferSize - 1) + 1
      BY BufferAssumption
    <3> QED
      BY <2>2, <3>1, ReadPromise DEF Fifo!Next
  <2>3. CASE peek
    BY <2>3, PeekPromise DEF Fifo!Next
  <2>4. CASE \E d \in Chunks, addPartial \in BOOLEAN : addData(d, addPartial)
    BY <2>4, AddPromise DEF Fifo!Next
  <2>5. CASE \E maxLen \in MaxLens, want \in Lengths : fetchData(maxLen, want)
    <3>1. PICK maxLen \in MaxLens, want \in Lengths : fetchData(maxLen, want)
      BY <2>5
    <3>2. Limit(maxLen, want) \in 0 .. (BufferSize - 1) + 1
      BY BufferAssumption DEF MaxLens, Lengths, Limit, AtMost
    <3>3. Fifo!Take(Limit(maxLen, want))
      BY <3>1, FetchPromise
    <3> QED
      BY <3>2, <3>3 DEF Fifo!Next
  <2>6. CASE \E maxLen \in MaxLens, d \in Chunks : fillData(maxLen, d)
    <3>1. PICK maxLen \in MaxLens, d \in Chunks : fillData(maxLen, d)
      BY <2>6
    <3>2. Fifo!Fill(Fifo!First(d, Limit(maxLen, Len(d))))
      BY <3>1, FillPromise
    <3>3. Limit(maxLen, Len(d)) \in 0 .. Len(d)
      BY BufferAssumption DEF MaxLens, Lengths, Limit, AtMost
    <3> QED
      BY <3>2, <3>3 DEF Fifo!Next
  <2>7. CASE fetchMessageToBuffer
    BY <2>7, MessagePromise DEF Fifo!Next
  <2>8. CASE UNCHANGED vars
    <3>1. Content' = Content /\ ret' = ret
      BY <2>8 DEF vars, Content
    <3> QED
      BY <3>1 DEF Fifo!vars
  <2> QED
    BY <2>1, <2>2, <2>3, <2>4, <2>5, <2>6, <2>7, <2>8 DEF Next
<1> QED
  BY <1>1, <1>2, TypeCorrect, PTL DEF Spec, RingIsFifo, Fifo!Spec
=============================================================================
