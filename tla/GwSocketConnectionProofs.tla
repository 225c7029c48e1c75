---------------------- MODULE GwSocketConnectionProofs ----------------------
(***************************************************************************)
(* What the operators of GwSocketConnection do to the type, the buffer     *)
(* sizes and the socket of a connection, and to a stream of pieces that    *)
(* runs through it: S are the sockets, O and I the pieces that are sent    *)
(* and received.                                                           *)
(***************************************************************************)
EXTENDS GwSocketConnection, SequenceTheorems, TLAPS

ConnectionOf(S, O, I) ==
  [fd : S \cup {NoClient}, out : Seq(O), in : Seq(I),
   pendingWrite : BOOLEAN, writeError : BOOLEAN, age : 0 .. WriteTimeout]

IsConnectionOf(c, S, O, I) ==
  c \in ConnectionOf(S, O, I) /\ Len(c.out) <= TxSize /\ Len(c.in) <= RxSize
-----------------------------------------------------------------------------
(* The operators of GwSocketConnection keep the type and the buffer sizes, *)
(* and change fd only to close the connection.                             *)
LEMMA SetClientTyped ==
  ASSUME NEW S, NEW O, NEW I, NEW fd \in S \cup {NoClient}
  PROVE  IsConnectionOf(setClient(fd), S, O, I) /\ setClient(fd).fd = fd
<1>1. << >> \in Seq(O) /\ << >> \in Seq(I) /\ Len(<< >>) = 0
  BY EmptySeq
<1> QED
  BY <1>1, ConnectionAssumption DEF IsConnectionOf, ConnectionOf, setClient

LEMMA StopTyped ==
  ASSUME NEW S, NEW O, NEW I, NEW c, IsConnectionOf(c, S, O, I)
  PROVE  IsConnectionOf(stop(c), S, O, I) /\ stop(c).fd = NoClient
BY DEF IsConnectionOf, ConnectionOf, stop

(* A rest of a sequence is a shorter sequence. *)
LEMMA RestOfSequence ==
  ASSUME NEW S, NEW s \in Seq(S), NEW k \in Nat
  PROVE  SubSeq(s, k + 1, Len(s)) \in Seq(S) /\ Len(SubSeq(s, k + 1, Len(s))) <= Len(s)
<1>1. Len(s) \in Nat /\ \A i \in k + 1 .. Len(s) : s[i] \in S
  BY ElementOfSeq, LenProperties
<1> QED
  BY <1>1, SubSeqProperties

(* The first n elements of a sequence. *)
LEMMA FrontOfSequence ==
  ASSUME NEW S, NEW s \in Seq(S), NEW n \in 1 .. Len(s)
  PROVE  SubSeq(s, 1, n) \in Seq(S) /\ Len(SubSeq(s, 1, n)) = n
<1>1. Len(s) \in Nat /\ \A i \in 1 .. n : s[i] \in S
  BY ElementOfSeq, LenProperties
<1> QED
  BY <1>1, SubSeqProperties

LEMMA EnqueueTyped ==
  ASSUME NEW S, NEW O, NEW I, NEW c, IsConnectionOf(c, S, O, I), NEW m \in Seq(O)
  PROVE  IsConnectionOf(enqueue(c, m), S, O, I) /\ enqueue(c, m).fd = c.fd
<1>1. c.out \o m \in Seq(O) /\ Len(c.out \o m) = Len(c.out) + Len(m)
  BY ConcatProperties DEF IsConnectionOf, ConnectionOf
<1> QED
  BY <1>1 DEF IsConnectionOf, ConnectionOf, enqueue

LEMMA WriteTyped ==
  ASSUME NEW S, NEW O, NEW I, NEW c, IsConnectionOf(c, S, O, I), NEW n \in 1 .. Len(c.out),
         NEW res \in (1 .. n) \cup {Again, Failed}
  PROVE  /\ IsConnectionOf(writeOrClose(c, n, res), S, O, I)
         /\ writeOrClose(c, n, res).fd \in {c.fd, NoClient}
<1> DEFINE w == SendResult(c, n, res)
<1>1. /\ c \in ConnectionOf(S, O, I) /\ c.out \in Seq(O) /\ Len(c.out) \in Nat
      /\ Len(c.out) <= TxSize /\ Len(c.in) <= RxSize
  BY LenProperties DEF IsConnectionOf, ConnectionOf
<1>2. IsConnectionOf(w, S, O, I) /\ w.fd \in {c.fd, NoClient}
  <2>1. CASE res = Again
    BY <2>1 DEF SendResult, Again, Failed
  <2>2. CASE res = Failed
    BY <2>2, StopTyped DEF SendResult, Again, Failed
  <2>3. CASE res \in 1 .. n
    <3> DEFINE s == [c EXCEPT !.out = SubSeq(@, res + 1, Len(@))]
    <3>1. res \in Nat /\ res > 0 /\ res # Again /\ res # Failed
      BY <2>3, <1>1 DEF Again, Failed
    <3>2. SubSeq(c.out, res + 1, Len(c.out)) \in Seq(O)
          /\ Len(SubSeq(c.out, res + 1, Len(c.out))) <= TxSize
      <4>1. Len(SubSeq(c.out, res + 1, Len(c.out))) \in Nat
        BY <3>1, <1>1, RestOfSequence, LenProperties
      <4> QED
        BY <4>1, <3>1, <1>1, RestOfSequence, ConnectionAssumption
    <3>3. IsConnectionOf(s, S, O, I) /\ s.fd = c.fd
      BY <3>2, <1>1 DEF IsConnectionOf, ConnectionOf
    <3>4. w = IF res >= n THEN [s EXCEPT !.pendingWrite = FALSE]
              ELSE IF ~c.pendingWrite THEN [s EXCEPT !.pendingWrite = TRUE, !.age = 0]
              ELSE [s EXCEPT !.writeError = @ \/ c.age >= WriteTimeout]
      BY <3>1 DEF SendResult
    <3> HIDE DEF s, w
    <3>5. CASE res >= n
      BY <3>3, <3>4, <3>5 DEF IsConnectionOf, ConnectionOf
    <3>6. CASE res < n /\ ~c.pendingWrite
      <4> DEFINE t == [s EXCEPT !.pendingWrite = TRUE]
      <4>1. IsConnectionOf(t, S, O, I) /\ t.fd = c.fd
        BY <3>3 DEF IsConnectionOf, ConnectionOf
      <4>2. w = [t EXCEPT !.age = 0]
        BY <3>1, <3>4, <3>6
      <4>3. 0 \in 0 .. WriteTimeout
        BY ConnectionAssumption
      <4> HIDE DEF t
      <4> QED
        BY <4>1, <4>2, <4>3 DEF IsConnectionOf, ConnectionOf
    <3>7. CASE res < n /\ c.pendingWrite
      <4>1. (s.writeError \/ c.age >= WriteTimeout) \in BOOLEAN
        OBVIOUS
      <4>2. w = [s EXCEPT !.writeError = @ \/ c.age >= WriteTimeout]
        BY <3>1, <3>4, <3>7
      <4> QED
        BY <3>3, <4>1, <4>2 DEF IsConnectionOf, ConnectionOf
    <3> QED
      BY <3>1, <3>5, <3>6, <3>7
  <2> QED
    BY <2>1, <2>2, <2>3
<1>3. c.out # << >>
  BY <1>1, EmptySeq
<1> QED
  BY <1>2, <1>3, StopTyped DEF writeOrClose

(* With nothing to send, the pending write is over. *)
LEMMA NothingPendingTyped ==
  ASSUME NEW S, NEW O, NEW I, NEW c, IsConnectionOf(c, S, O, I)
  PROVE  LET d == [c EXCEPT !.pendingWrite = FALSE]
         IN  IsConnectionOf(d, S, O, I) /\ d.fd = c.fd
BY DEF IsConnectionOf, ConnectionOf

LEMMA ReadTyped ==
  ASSUME NEW S, NEW O, NEW I, NEW c, IsConnectionOf(c, S, O, I), NEW n \in Nat \ {0}, NEW data \in Seq(I),
         Len(data) <= RxSize - Len(c.in)
  PROVE  IsConnectionOf(read(c, n, data), S, O, I) /\ read(c, n, data).fd = c.fd
<1>1. /\ c.in \o data \in Seq(I) /\ Len(c.in \o data) = Len(c.in) + Len(data)
      /\ Len(c.in) \in Nat /\ Len(data) \in Nat
  BY ConcatProperties, LenProperties DEF IsConnectionOf, ConnectionOf
<1>2. n # Again /\ n # Failed /\ n # Shutdown
  BY DEF Again, Failed, Shutdown
<1>3. read(c, n, data) \in {c, [c EXCEPT !.in = @ \o data]}
  BY <1>2 DEF read
<1>4. Len(c.in \o data) <= RxSize
  BY <1>1, ConnectionAssumption
<1>5. LET r == [c EXCEPT !.in = @ \o data] IN IsConnectionOf(r, S, O, I) /\ r.fd = c.fd
  BY <1>1, <1>4 DEF IsConnectionOf, ConnectionOf
<1> QED
  BY <1>3, <1>5

LEMMA WithoutFirstTyped ==
  ASSUME NEW S, NEW O, NEW I, NEW c, IsConnectionOf(c, S, O, I), HasMessage(c)
  PROVE  IsConnectionOf(withoutFirst(c), S, O, I) /\ withoutFirst(c).fd = c.fd
<1> DEFINE k == CHOOSE j \in 1 .. Len(c.in) : EndOfMessage(c, j)
           rest == SubSeq(c.in, Len(FirstMessage(c)) + 1, Len(c.in))
<1>1. c.in \in Seq(I) /\ Len(c.in) \in Nat /\ Len(c.in) <= RxSize /\ c \in ConnectionOf(S, O, I)
  BY LenProperties DEF IsConnectionOf, ConnectionOf
<1>2. k \in 1 .. Len(c.in)
  BY DEF HasMessage
<1>3. Len(FirstMessage(c)) \in Nat
  BY <1>1, <1>2, FrontOfSequence DEF FirstMessage
<1>4. rest \in Seq(I) /\ Len(rest) <= Len(c.in)
  BY <1>1, <1>3, RestOfSequence
<1>5. Len(rest) <= RxSize
  <2>1. Len(rest) \in Nat
    BY <1>4, LenProperties
  <2> QED
    BY <2>1, <1>1, <1>4, ConnectionAssumption
<1>6. withoutFirst(c) = [c EXCEPT !.in = rest]
  BY DEF withoutFirst
<1> HIDE DEF rest
<1> QED
  BY <1>1, <1>4, <1>5, <1>6 DEF IsConnectionOf, ConnectionOf

LEMMA AgedTyped ==
  ASSUME NEW S, NEW O, NEW I, NEW c, IsConnectionOf(c, S, O, I)
  PROVE  IsConnectionOf(aged(c), S, O, I) /\ aged(c).fd = c.fd
BY ConnectionAssumption DEF IsConnectionOf, ConnectionOf, aged
-----------------------------------------------------------------------------
(* Pieces of one source p that are numbered without a gap after b; if b is *)
(* even they are whole messages, the last of which may be incomplete.      *)
Numbered(s, p, b) == \A k \in 1 .. Len(s) : s[k] = <<p, b + k>>

(* An odd number after an even one. *)
LEMMA OddAfterEven ==
  ASSUME NEW b \in Nat, NEW k \in Nat, b % 2 = 0, k % 2 = 1
  PROVE  (b + k) % 2 = 1
BY SMTT(30)

(* Concatenation and a last element. *)
LEMMA ConcatAppend ==
  ASSUME NEW S, NEW s \in Seq(S), NEW t \in Seq(S), NEW x \in S
  PROVE  s \o Append(t, x) = Append(s \o t, x)
<1>1. Append(t, x) = t \o <<x>> /\ Append(s \o t, x) = (s \o t) \o <<x>> /\ <<x>> \in Seq(S)
  BY AppendIsConcat, ConcatProperties
<1> QED
  BY <1>1, ConcatAssociative

(* One more piece. *)
LEMMA NumberedAppend ==
  ASSUME NEW I, NEW p, NEW s \in Seq(I), NEW b \in Nat, Numbered(s, p, b),
         NEW x, x = <<p, b + Len(s) + 1>>, x \in I
  PROVE  Numbered(Append(s, x), p, b) /\ Len(Append(s, x)) = Len(s) + 1
<1>1. /\ Len(s) \in Nat /\ Len(Append(s, x)) = Len(s) + 1
      /\ \A k \in 1 .. Len(s) : Append(s, x)[k] = s[k]
      /\ Append(s, x)[Len(s) + 1] = x
  BY AppendProperties, LenProperties
<1>2. b + Len(s) + 1 = b + (Len(s) + 1)
  BY <1>1
<1>3. ASSUME NEW k \in 1 .. Len(s) + 1 PROVE Append(s, x)[k] = <<p, b + k>>
  <2>1. CASE k \in 1 .. Len(s)
    BY <1>1, <2>1 DEF Numbered
  <2>2. CASE k = Len(s) + 1
    BY <1>1, <1>2, <2>2
  <2> QED
    BY <1>1, <2>1, <2>2
<1> QED
  BY <1>1, <1>3 DEF Numbered

(* The first pieces of a numbered sequence are numbered. *)
LEMMA NumberedFront ==
  ASSUME NEW I, NEW p, NEW b, NEW s \in Seq(I), NEW t \in Seq(I), Numbered(s \o t, p, b)
  PROVE  Numbered(s, p, b)
<1>1. /\ Len(s) \in Nat /\ Len(t) \in Nat /\ Len(s \o t) = Len(s) + Len(t)
      /\ \A k \in 1 .. Len(s) : (s \o t)[k] = s[k]
  BY ConcatProperties, LenProperties
<1> QED
  BY <1>1 DEF Numbered

(* The first k elements of a moved to the end of u. *)
LEMMA PiecesMoved ==
  ASSUME NEW I, NEW u \in Seq(I), NEW a \in Seq(I), NEW k \in 0 .. Len(a)
  PROVE  /\ Len(u \o SubSeq(a, 1, k)) - Len(u) = k
         /\ (u \o SubSeq(a, 1, k)) \o SubSeq(a, k + 1, Len(a)) = u \o a
<1> DEFINE x == SubSeq(a, 1, k)
           y == SubSeq(a, k + 1, Len(a))
<1>1. Len(u) \in Nat /\ Len(a) \in Nat /\ k \in Nat
  BY LenProperties
<1>2. x \in Seq(I) /\ Len(x) = k
  <2>1. \A j \in 1 .. k : a[j] \in I
    BY <1>1, ElementOfSeq
  <2> QED
    BY <1>1, <2>1, SubSeqProperties
<1>3. y \in Seq(I)
  BY <1>1, RestOfSequence
<1>4. x \o y = a
  <2>1. 1 \in 1 .. Len(a) + 1 /\ k \in 1 - 1 .. Len(a) /\ Len(a) \in k .. Len(a)
    BY <1>1
  <2>2. x \o y = SubSeq(a, 1, Len(a))
    BY <2>1, ConcatAdjacentSubSeq
  <2> QED
    BY <2>2, SubSeqFull
<1> HIDE DEF x, y
<1>5. Len(u \o x) = Len(u) + k
  BY <1>2, ConcatProperties
<1>6. (u \o x) \o y = u \o (x \o y)
  BY <1>2, <1>3, ConcatAssociative
<1>7. Len(u \o x) - Len(u) = k /\ (u \o x) \o y = u \o a
  BY <1>1, <1>4, <1>5, <1>6
<1> QED
  BY <1>7 DEF x, y

(* The elements of a concatenation. *)
LEMMA ConcatParts ==
  ASSUME NEW S, NEW s \in Seq(S), NEW t \in Seq(S)
  PROVE  /\ Len(s) \in Nat /\ Len(t) \in Nat /\ Len(s \o t) = Len(s) + Len(t)
         /\ \A j \in 1 .. Len(s) : (s \o t)[j] = s[j]
         /\ \A j \in 1 .. Len(t) : (s \o t)[Len(s) + j] = t[j]
BY ConcatProperties, LenProperties

(* A numbered sequence without its first k elements. *)
LEMMA RestNumbered ==
  ASSUME NEW I, NEW p, NEW b \in Nat, NEW s \in Seq(I), NEW k \in 1 .. Len(s),
         NEW a \in Seq(I), Numbered(s \o a, p, b)
  PROVE  LET r == SubSeq(s, k + 1, Len(s))
         IN  Numbered(r \o a, p, b + k) /\ b + k + Len(r \o a) = b + Len(s \o a)
<1> DEFINE r == SubSeq(s, k + 1, Len(s))
           m == Len(r)
           n == Len(a)
<1> DEFINE l == Len(s)
<1>1. l \in Nat /\ k \in 1 .. l /\ \A j \in k + 1 .. l : s[j] \in I
  <2>1. l \in Nat
    BY LenProperties
  <2> QED
    BY <2>1, ElementOfSeq
<1>2. /\ r \in Seq(I) /\ m = IF k + 1 <= l THEN l - (k + 1) + 1 ELSE 0
      /\ \A j \in 1 .. l - (k + 1) + 1 : r[j] = s[k + 1 + j - 1]
  BY <1>1, SubSeqProperties
<1> HIDE DEF r
<1>3. /\ n \in Nat /\ Len(s \o a) = l + n /\ Len(r \o a) = m + n
      /\ \A j \in 1 .. l : (s \o a)[j] = s[j]
      /\ \A j \in 1 .. n : (s \o a)[l + j] = a[j]
      /\ \A j \in 1 .. m : (r \o a)[j] = r[j]
      /\ \A j \in 1 .. n : (r \o a)[m + j] = a[j]
  <2>1. /\ n \in Nat /\ Len(s \o a) = l + n
        /\ \A j \in 1 .. l : (s \o a)[j] = s[j]
        /\ \A j \in 1 .. n : (s \o a)[l + j] = a[j]
    BY ConcatParts
  <2>2. r \in Seq(I)
    BY <1>2
  <2>3. /\ Len(r \o a) = m + n
        /\ \A j \in 1 .. m : (r \o a)[j] = r[j]
        /\ \A j \in 1 .. n : (r \o a)[m + j] = a[j]
    BY <2>2, ConcatParts
  <2> HIDE DEF l, m, n
  <2> QED
    BY <2>1, <2>3
<1> HIDE DEF l, m, n
<1>4. l = k + m /\ m \in Nat /\ k \in Nat /\ l - (k + 1) + 1 = m
  BY <1>1, <1>2
<1>5. ASSUME NEW j \in 1 .. m PROVE r[j] = s[k + j]
  <2>1. j \in 1 .. l - (k + 1) + 1 /\ k + 1 + j - 1 = k + j
    BY <1>4
  <2> QED
    BY <1>2, <2>1
<1>6. /\ k \in Nat /\ r \in Seq(I) /\ m \in Nat /\ \A j \in 1 .. m : r[j] = s[k + j]
  BY <1>2, <1>4, <1>5
<1>7. /\ n \in Nat /\ Len(s \o a) = k + m + n /\ Len(r \o a) = m + n
      /\ \A j \in 1 .. k + m : (s \o a)[j] = s[j]
      /\ \A j \in 1 .. n : (s \o a)[k + m + j] = a[j]
  BY <1>3, <1>4
<1>8. /\ \A j \in 1 .. m : (r \o a)[j] = r[j]
      /\ \A j \in 1 .. n : (r \o a)[m + j] = a[j]
  BY <1>3
<1>9. \A j \in 1 .. k + m + n : (s \o a)[j] = <<p, b + j>>
  BY <1>7 DEF Numbered
<1>10. ASSUME NEW j \in 1 .. m + n PROVE (r \o a)[j] = <<p, b + k + j>>
  <2>1. CASE j \in 1 .. m
    <3>1. k + j \in 1 .. k + m /\ k + j \in 1 .. k + m + n /\ b + (k + j) = b + k + j
      BY <1>6, <1>7, <2>1
    <3>2. (r \o a)[j] = (s \o a)[k + j]
      BY <1>6, <1>7, <1>8, <2>1, <3>1
    <3> QED
      BY <1>9, <3>1, <3>2
  <2>2. CASE j \in m + 1 .. m + n
    <3>1. j - m \in 1 .. n /\ m + (j - m) = j
      BY <1>6, <1>7, <2>2
    <3>2. k + m + (j - m) = k + j /\ k + j \in 1 .. k + m + n /\ b + (k + j) = b + k + j
      BY <1>6, <1>7, <2>2
    <3>3. (r \o a)[j] = a[j - m] /\ (s \o a)[k + j] = a[j - m]
      BY <1>7, <1>8, <3>1, <3>2
    <3> QED
      BY <1>9, <3>2, <3>3
  <2>3. j \in 1 .. m \/ j \in m + 1 .. m + n
    <3>1. n \in Nat
      BY <1>3
    <3> QED
      BY <1>4, <3>1
  <2> QED
    BY <2>1, <2>2, <2>3
<1>11. Numbered(r \o a, p, b + k)
  BY <1>7, <1>10 DEF Numbered
<1>12. b + k + Len(r \o a) = b + Len(s \o a)
  BY <1>6, <1>7
<1> QED
  BY <1>11, <1>12 DEF r

LEMMA NumberedIsFramed ==
  ASSUME NEW I, NEW p, NEW s \in Seq(I), NEW b \in Nat, b % 2 = 0, Numbered(s, p, b)
  PROVE  IsMessageStream(s)
<1>1. Len(s) \in Nat /\ \A k \in 1 .. Len(s) : s[k] = <<p, b + k>>
  BY LenProperties DEF Numbered
<1> SUFFICES ASSUME NEW k \in 1 .. Len(s)
             PROVE  IF k % 2 = 1 THEN s[k][2] % 2 = 1
                    ELSE s[k] = <<s[k - 1][1], s[k - 1][2] + 1>>
  BY DEF IsMessageStream
<1>2. CASE k % 2 = 1
  <2>1. s[k][2] = b + k
    BY <1>1
  <2>2. (b + k) % 2 = 1
    <3>1. k \in Nat
      BY <1>1
    <3> QED
      BY <1>2, <3>1, OddAfterEven
  <2> QED
    BY <1>2, <2>1, <2>2
<1>3. CASE k % 2 # 1
  <2>1. k - 1 \in 1 .. Len(s)
    BY <1>1, <1>3
  <2>2. s[k - 1] = <<p, b + (k - 1)>> /\ s[k] = <<p, b + k>>
    BY <1>1, <2>1
  <2>3. b + (k - 1) + 1 = b + k
    BY <1>1
  <2> QED
    BY <1>3, <2>2, <2>3
<1> QED
  BY <1>2, <1>3

(* The number after an even one is odd, the next one even. *)
LEMMA OddThenEven ==
  ASSUME NEW b \in Nat, b % 2 = 0
  PROVE  (b + 1) % 2 = 1 /\ (b + 2) % 2 = 0
BY SMTT(30)

(* The first message of a connection is its first two pieces; without it   *)
(* what follows is numbered after an even number again.                    *)
LEMMA FirstOfNumbered ==
  ASSUME NEW I, NEW c, "in" \in DOMAIN c, c.in \in Seq(I), HasMessage(c), NEW p,
         NEW a \in Seq(I), NEW b \in Nat, b % 2 = 0, Numbered(c.in \o a, p, b)
  PROVE  /\ FirstMessage(c) = <<<<p, b + 1>>, <<p, b + 2>>>>
         /\ Numbered(withoutFirst(c).in \o a, p, b + 2)
         /\ b + 2 + Len(withoutFirst(c).in \o a) = b + Len(c.in \o a)
<1> DEFINE s == c.in
<1>1. s \in Seq(I) /\ "in" \in DOMAIN c /\ Len(s) \in Nat
  BY LenProperties
<1>2. PICK k \in 1 .. Len(s) : /\ k = CHOOSE j \in 1 .. Len(s) : EndOfMessage(c, j)
                               /\ s[k][2] % 2 = 0
                               /\ \A j \in 1 .. k - 1 : s[j][2] % 2 = 1
  BY DEF HasMessage, EndOfMessage
<1>3. b % 2 = 0 /\ Numbered(s \o a, p, b)
  OBVIOUS
<1>4. \A j \in 1 .. Len(s) : s[j] = <<p, b + j>>
  <2> HIDE DEF s
  <2>1. Numbered(s, p, b)
    BY <1>1, <1>3, NumberedFront
  <2> QED
    BY <2>1 DEF Numbered
<1>5. k = 2
  <2>0. (b + 1) % 2 = 1 /\ (b + 2) % 2 = 0 /\ k \in Nat /\ k >= 1 /\ k <= Len(s)
    BY <1>1, <1>2, <1>3, OddThenEven
  <2>1. k # 1
    <3>1. s[1] = <<p, b + 1>>
      BY <1>1, <1>4, <2>0
    <3>2. s[1][2] % 2 = 1
      BY <2>0, <3>1
    <3>3. k = 1 => s[1][2] % 2 = 0
      BY <1>2
    <3> QED
      BY <3>2, <3>3
  <2>2. ~(k > 2)
    <3> SUFFICES ASSUME k > 2 PROVE FALSE
      OBVIOUS
    <3>1. s[2] = <<p, b + 2>> /\ 2 \in 1 .. k - 1
      BY <1>1, <1>4, <2>0
    <3>2. s[2][2] % 2 = 0
      BY <2>0, <3>1
    <3>3. s[2][2] % 2 = 1
      BY <1>2, <3>1
    <3> QED
      BY <3>2, <3>3
  <2> QED
    BY <2>0, <2>1, <2>2
<1> DEFINE m == SubSeq(s, 1, 2)
<1>6. FirstMessage(c) = m /\ Len(m) = 2 /\ 2 \in 1 .. Len(s)
  <2>1. FirstMessage(c) = m /\ 2 \in 1 .. Len(s)
    BY <1>2, <1>5 DEF FirstMessage
  <2> HIDE DEF s
  <2> QED
    BY <1>1, <2>1, FrontOfSequence
<1>7. m = <<<<p, b + 1>>, <<p, b + 2>>>>
  <2> HIDE DEF s
  <2>1. m \in Seq(I) /\ m[1] = s[1] /\ m[2] = s[2]
    BY <1>1, <1>6, FrontOfSequence
  <2>2. m[1] = <<p, b + 1>> /\ m[2] = <<p, b + 2>>
    BY <1>1, <1>4, <1>6, <2>1
  <2> HIDE DEF m
  <2> QED
    BY <1>6, <2>1, <2>2
<1> DEFINE r == SubSeq(s, 2 + 1, Len(s))
<1>8. withoutFirst(c).in = r
  <2>1. withoutFirst(c).in = SubSeq(s, Len(FirstMessage(c)) + 1, Len(s))
    BY <1>1 DEF withoutFirst
  <2>2. Len(FirstMessage(c)) + 1 = 3
    BY <1>6
  <2> HIDE DEF s
  <2> QED
    BY <2>1, <2>2
<1> HIDE DEF s
<1>9. Numbered(r \o a, p, b + 2) /\ b + 2 + Len(r \o a) = b + Len(s \o a)
  <2> HIDE DEF m
  <2>1. 2 \in 1 .. Len(s)
    BY <1>6
  <2> QED
    BY <1>1, <1>3, <2>1, RestNumbered
<1> QED
  BY <1>6, <1>7, <1>8, <1>9 DEF s

(* The same, with the number of the last piece. *)
NumberedUpTo(s, p, e) == \E b \in Nat : b % 2 = 0 /\ Numbered(s, p, b) /\ b + Len(s) = e

LEMMA WithoutFirstUpTo ==
  ASSUME NEW I, NEW c, "in" \in DOMAIN c, c.in \in Seq(I), HasMessage(c), NEW p,
         NEW a \in Seq(I), NEW e, NumberedUpTo(c.in \o a, p, e)
  PROVE  NumberedUpTo(withoutFirst(c).in \o a, p, e)
<1>1. PICK b \in Nat : b % 2 = 0 /\ Numbered(c.in \o a, p, b) /\ b + Len(c.in \o a) = e
  BY DEF NumberedUpTo
<1>2. /\ Numbered(withoutFirst(c).in \o a, p, b + 2)
      /\ b + 2 + Len(withoutFirst(c).in \o a) = b + Len(c.in \o a)
  BY <1>1, FirstOfNumbered, ZenonT(30)
<1>3. b + 2 \in Nat /\ (b + 2) % 2 = 0
  BY <1>1, OddThenEven
<1> QED
  BY <1>1, <1>2, <1>3 DEF NumberedUpTo
=============================================================================
