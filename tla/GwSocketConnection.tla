------------------------- MODULE GwSocketConnection -------------------------
(***************************************************************************)
(* One TCP connection with its send and receive buffer                     *)
(* (lib/socketserver/GwSocketConnection.cpp), as operators on a record.    *)
(* The socket server keeps one per slot, the TCP client has one.           *)
(*                                                                         *)
(* The buffers are the first-in first-out stores of BoundedFifo.  Data are *)
(* pieces of messages, <<source, n>>; every message has two pieces, an odd *)
(* and the following even one, so that a message can be torn.  age is the  *)
(* time since lastWrite, counted while a write is pending.                 *)
(***************************************************************************)
EXTENDS Integers, Sequences

CONSTANTS
  NoClient,       (* fd = -1                                               *)
  TxSize, RxSize, (* capacities of buffer and readBuffer, in pieces        *)
  WriteTimeout    (* writeTimeout, in clock ticks                          *)

ASSUME ConnectionAssumption ==
  TxSize \in Nat /\ RxSize \in Nat /\ WriteTimeout \in Nat

(* Results of send and recv other than a number of pieces. *)
Shutdown == 0   (* of recv                   *)
Again == -1     (* -1 with errno EAGAIN      *)
Failed == -2    (* -1 with any other errno   *)

setClient(fd) ==
  [fd |-> fd, out |-> << >>, in |-> << >>,
   pendingWrite |-> FALSE, writeError |-> FALSE, age |-> 0]

hasClient(c) == c.fd # NoClient

stop(c) == [c EXCEPT !.fd = NoClient]

(* Faulty variant for enqueue: ignores the space that is left. *)
enqueueAlways(c, m) == [c EXCEPT !.out = @ \o m]

(* Whole messages only: addData without addPartial. *)
enqueue(c, m) ==
  IF Len(c.out) + Len(m) <= TxSize THEN [c EXCEPT !.out = @ \o m] ELSE c

(* write(): send was offered the first n pieces and returned res.          *)
(* handleError passes neither EAGAIN nor an error on, so only a partial    *)
(* success starts or checks the timeout.                                   *)
SendResult(c, n, res) ==
  CASE res = Again  -> c
    [] res = Failed -> stop(c)
    [] res > 0 ->
       LET sent == [c EXCEPT !.out = SubSeq(@, res + 1, Len(@))]
       IN  IF res >= n THEN [sent EXCEPT !.pendingWrite = FALSE]
           ELSE IF ~c.pendingWrite THEN [sent EXCEPT !.pendingWrite = TRUE, !.age = 0]
           ELSE [sent EXCEPT !.writeError = @ \/ c.age >= WriteTimeout]

(* ... and its callers close the connection on GwBuffer::ERROR. *)
writeOrClose(c, n, res) ==
  IF c.out = << >> THEN [c EXCEPT !.pendingWrite = FALSE]
  ELSE LET w == SendResult(c, n, res) IN IF w.writeError THEN stop(w) ELSE w

(* Faulty variant for read: treats recv = 0 as nothing to read. *)
readIgnoresShutdown(c, res, data) ==
  IF Len(c.in) >= RxSize \/ res \in {Again, Shutdown} THEN c
  ELSE IF res = Failed THEN stop(c)
  ELSE [c EXCEPT !.in = @ \o data]

(* read(): recv returned the pieces data, or res. *)
read(c, res, data) ==
  IF Len(c.in) >= RxSize \/ res = Again THEN c
  ELSE IF res \in {Failed, Shutdown} THEN stop(c)
  ELSE [c EXCEPT !.in = @ \o data]

(* handleBuffer takes the first complete message out of readBuffer. *)
EndOfMessage(c, k) ==
  /\ k \in 1 .. Len(c.in) /\ c.in[k][2] % 2 = 0
  /\ \A j \in 1 .. k - 1 : c.in[j][2] % 2 = 1
HasMessage(c) == \E k \in 1 .. Len(c.in) : EndOfMessage(c, k)
FirstMessage(c) == SubSeq(c.in, 1, CHOOSE k \in 1 .. Len(c.in) : EndOfMessage(c, k))
withoutFirst(c) == [c EXCEPT !.in = SubSeq(@, Len(FirstMessage(c)) + 1, Len(@))]

(* The clock: time since lastWrite, up to the timeout. *)
aged(c) == IF c.pendingWrite /\ c.age < WriteTimeout THEN [c EXCEPT !.age = @ + 1] ELSE c
-----------------------------------------------------------------------------
(* Pieces in whole messages, the last of which may still be incomplete. *)
IsMessageStream(s) ==
  \A k \in 1 .. Len(s) :
    IF k % 2 = 1 THEN s[k][2] % 2 = 1
    ELSE s[k] = <<s[k - 1][1], s[k - 1][2] + 1>>

(* What one source sent arrives in the order it was sent, at most once. *)
InSourceOrder(s) ==
  \A j, k \in 1 .. Len(s) : j < k /\ s[j][1] = s[k][1] => s[j][2] < s[k][2]
=============================================================================
