------------------------------ MODULE GwBuffer ------------------------------
(***************************************************************************)
(* The ring buffer of lib/queue/GwBuffer.cpp and the message extraction of *)
(* GwMessageFetcher.  The code keeps two pointers into an array of         *)
(* bufferSize bytes; here they are the offsets rp and wp.  One byte stays  *)
(* free, so that equal offsets mean an empty buffer.  Every operation is   *)
(* one step: a buffer is used by one thread (the main loop), except the    *)
(* USB buffer, which is the subject of another module.                     *)
(***************************************************************************)
EXTENDS Integers, Sequences

CONSTANTS
  Byte,         (* the values of one byte                                  *)
  Delimiter,    (* '\n' in GwChannelMessageReceiver::handleBuffer          *)
  BufferSize,   (* TX_BUFFER_SIZE or RX_BUFFER_SIZE                        *)
  MessageSize,  (* bufferLen of fetchMessageToBuffer                       *)
  Chunks        (* what callers store and devices deliver in one call      *)

(* The message buffer of a channel is as large as its receive buffer       *)
(* (GwChannelMessageReceiver passes RX_BUFFER_SIZE).                       *)
ASSUME BufferAssumption ==
  /\ BufferSize \in Nat \ {0}
  /\ MessageSize \in Nat /\ MessageSize >= BufferSize
  /\ Delimiter \in Byte
  /\ Chunks \subseteq Seq(Byte)

VARIABLES
  mem,          (* the array                                               *)
  wp, rp,       (* offsets of writePointer and readPointer                 *)
  ret           (* the bytes the last call accepted or handed out          *)

vars == <<mem, wp, rp, ret>>

Offsets == 0 .. BufferSize - 1
NoBytes == << >>

AtMost(a, b) == IF a <= b THEN a ELSE b

(* Faulty variants of the definitions below; each breaks a property. *)
WrapLate(o) == IF o > BufferSize THEN o - BufferSize ELSE o
ReadableShort(r) == IF wp > r THEN wp - r ELSE BufferSize - r - 1
WritableNoGap == IF wp >= rp THEN BufferSize - wp ELSE rp - wp - 1
resetReadOnly == rp' = 0 /\ UNCHANGED <<mem, wp>> /\ ret' = NoBytes

(* The adjustment after every pointer move. *)
Wrap(o) == IF o >= BufferSize THEN o - BufferSize ELSE o

UsedBetween(r, w) == IF r <= w THEN w - r ELSE w + BufferSize - r
FreeBetween(r, w) == IF r <= w THEN r + BufferSize - w - 1 ELSE r - w - 1

usedSpace == UsedBetween(rp, wp)
freeSpace == FreeBetween(rp, wp)

(* n bytes of the array from offset o, what a handler is given. *)
Segment(m, o, n) == [i \in 1 .. n |-> m[o + i - 1]]

(* memcpy of the n bytes of d that follow the first k to offset o. *)
CopyIn(m, o, d, k, n) ==
  [i \in Offsets |-> IF o <= i /\ i < o + n THEN d[k + i - o + 1] ELSE m[i]]

(* The bytes stored and not yet taken, oldest first. *)
ContentOf(m, r, w) == [i \in 1 .. UsedBetween(r, w) |-> m[Wrap(r + i - 1)]]
Content == ContentOf(mem, rp, wp)
-----------------------------------------------------------------------------
Init ==
  /\ mem \in [Offsets -> Byte]   (* new uint8_t[]: whatever was there *)
  /\ wp = 0 /\ rp = 0
  /\ ret = NoBytes

reset == wp' = 0 /\ rp' = 0 /\ UNCHANGED mem /\ ret' = NoBytes

read ==
  /\ UNCHANGED <<mem, wp>>
  /\ \/ usedSpace = 0 /\ UNCHANGED rp /\ ret' = NoBytes
     \/ usedSpace > 0 /\ rp' = Wrap(rp + 1) /\ ret' = <<mem[rp]>>

peek ==
  /\ UNCHANGED <<mem, wp, rp>>
  /\ ret' = IF usedSpace = 0 THEN NoBytes ELSE <<mem[rp]>>

(* One round of addData: as much as is free and lies before the array's    *)
(* end.  A round is the array, the write offset and the bytes written.     *)
toWrite(st, d) ==
  AtMost(AtMost(Len(d) - st.written, FreeBetween(rp, st.wp)), BufferSize - st.wp)

AddRound(st, d) ==
  LET n == toWrite(st, d)
  IN  [m |-> CopyIn(st.m, st.wp, d, st.written, n),
       wp |-> Wrap(st.wp + n),
       written |-> st.written + n]

AddRounds(d) == AddRound(AddRound([m |-> mem, wp |-> wp, written |-> 0], d), d)

addData(d, addPartial) ==
  \/ /\ d = NoBytes \/ (freeSpace < Len(d) /\ ~addPartial)
     /\ UNCHANGED <<mem, wp, rp>> /\ ret' = NoBytes
  \/ /\ d # NoBytes /\ (freeSpace >= Len(d) \/ addPartial)
     /\ LET end == AddRounds(d)
        IN  /\ mem' = end.m /\ wp' = end.wp
            /\ ret' = SubSeq(d, 1, end.written)
     /\ UNCHANGED rp

(* The length of the part that fetchData and fillData offer to the handler *)
(* (no maxLen: -1).  Only one contiguous part is offered per call.         *)
Limit(maxLen, n) == IF maxLen >= 0 THEN AtMost(maxLen, n) ELSE n
Readable(r) == IF wp > r THEN wp - r ELSE BufferSize - r
Writable ==
  IF wp >= rp THEN (IF rp = 0 THEN BufferSize - wp - 1 ELSE BufferSize - wp)
              ELSE rp - wp - 1

(* The handler consumes up to want bytes of the part it is offered. *)
fetchData(maxLen, want) ==
  /\ UNCHANGED <<mem, wp>>
  /\ \/ usedSpace < 1 /\ UNCHANGED rp /\ ret' = NoBytes
     \/ /\ usedSpace >= 1
        /\ LET handled == AtMost(want, Limit(maxLen, Readable(rp)))
           IN  /\ rp' = Wrap(rp + handled)
               /\ ret' = Segment(mem, rp, handled)

(* The handler stores up to Len(d) bytes in the part it is offered. *)
fillData(maxLen, d) ==
  /\ UNCHANGED rp
  /\ \/ /\ freeSpace < 1 \/ Limit(maxLen, Writable) = 0
        /\ UNCHANGED <<mem, wp>> /\ ret' = NoBytes
     \/ /\ freeSpace >= 1 /\ Limit(maxLen, Writable) > 0
        /\ LET handled == AtMost(Len(d), Limit(maxLen, Writable))
           IN  /\ mem' = CopyIn(mem, wp, d, 0, handled)
               /\ wp' = Wrap(wp + handled)
               /\ ret' = SubSeq(d, 1, handled)
-----------------------------------------------------------------------------
(* findChar: the distance of the first x from the read pointer, or -1. *)
FoundAt(x, of) ==
  /\ of \in 0 .. usedSpace - 1
  /\ mem[Wrap(rp + of)] = x
  /\ \A i \in 0 .. of - 1 : mem[Wrap(rp + i)] # x

findChar(x) ==
  IF \E of \in 0 .. usedSpace - 1 : FoundAt(x, of)
  THEN CHOOSE of \in 0 .. usedSpace - 1 : FoundAt(x, of) ELSE -1

(* One turn of the copy loop of fetchMessageToBuffer: a fetchData of at    *)
(* most what is missing, into the message buffer behind what is there.     *)
FetchTurn(st, length) ==
  LET n == AtMost(length - Len(st.out), Readable(st.rp))
  IN  IF Len(st.out) >= length \/ UsedBetween(st.rp, wp) < 1 THEN st
      ELSE [rp |-> Wrap(st.rp + n), out |-> st.out \o Segment(mem, st.rp, n)]

(* The loop runs while bytes are missing.  A message lies in one or two    *)
(* contiguous parts, so two turns end it (TwoTurnsSuffice below); a third  *)
(* turn would find the buffer empty, the code's "internal fetch error".    *)
FetchLoop(length) == FetchTurn(FetchTurn([rp |-> rp, out |-> NoBytes], length), length)

fetchMessageToBuffer ==
  LET offset == findChar(Delimiter)
      message == FetchLoop(offset + 1)
  IN  \/ /\ offset < 0 /\ freeSpace > 0
         /\ UNCHANGED <<mem, wp, rp>> /\ ret' = NoBytes
      \/ offset < 0 /\ freeSpace = 0 /\ reset
      \/ /\ offset >= 0
         /\ IF offset + 1 >= MessageSize \/ Len(message.out) < offset + 1
            THEN reset
            ELSE /\ rp' = message.rp /\ ret' = message.out
                 /\ UNCHANGED <<mem, wp>>
-----------------------------------------------------------------------------
Lengths == 0 .. BufferSize
MaxLens == {-1} \cup Lengths   (* -1: no limit *)

Next ==
  \/ reset
  \/ read
  \/ peek
  \/ \E d \in Chunks, addPartial \in BOOLEAN : addData(d, addPartial)
  \/ \E maxLen \in MaxLens, want \in Lengths : fetchData(maxLen, want)
  \/ \E maxLen \in MaxLens, d \in Chunks : fillData(maxLen, d)
  \/ fetchMessageToBuffer

Spec == Init /\ [][Next]_vars
-----------------------------------------------------------------------------
(* Offsets stay inside the array and the array holds bytes. *)
TypeOK ==
  /\ mem \in [Offsets -> Byte]
  /\ wp \in Offsets /\ rp \in Offsets
  /\ ret \in Seq(Byte)

(* However the pointers have wrapped, the two turns of the copy loop of    *)
(* fetchMessageToBuffer hand out any stored prefix completely, so the      *)
(* "internal fetch error" that would drop the buffer never happens.        *)
TwoTurnsSuffice ==
  \A length \in 1 .. usedSpace : Len(FetchLoop(length).out) = length

(* The promise to the users, with the stored bytes as content. *)
Fifo == INSTANCE BoundedFifo WITH content <- Content, Capacity <- BufferSize - 1

(* The ring buffer is a first-in first-out store: partial and whole        *)
(* storing, partial reads by a slow device, wrap-around and message        *)
(* extraction never lose, repeat or reorder a byte, and nothing is thrown  *)
(* away except by reset or when the buffer is full without a message.      *)
RingIsFifo == Fifo!Spec

(* Every call does what it promises for its own arguments: a chunk is      *)
(* stored whole or not at all, a part only where the caller allows it and  *)
(* then as much as fits; a device that may move bytes moves some unless    *)
(* there are none; an attempt to extract a message hands out exactly the   *)
(* first one and discards only a buffer that is full without any.          *)
CallsKeepPromise == [][
  /\ reset => Fifo!Reset
  /\ read => Fifo!Take(1)
  /\ peek => Fifo!Look
  /\ \A d \in Chunks :
       /\ addData(d, FALSE) => Fifo!PutWhole(d)
       /\ addData(d, TRUE) => Fifo!PutPart(d)
       /\ \A maxLen \in MaxLens :
            fillData(maxLen, d) => Fifo!Fill(Fifo!First(d, Limit(maxLen, Len(d))))
  /\ \A maxLen \in MaxLens, want \in Lengths :
       fetchData(maxLen, want) => Fifo!Take(Limit(maxLen, want))
  /\ fetchMessageToBuffer => Fifo!TakeMessage]_vars
=============================================================================
