---------------------------- MODULE RingBuffer ----------------------------
(***************************************************************************)
(* The ring in which a connection of the management server keeps bytes     *)
(* that were received and not read, and bytes that were sent and not       *)
(* acknowledged.  Both positions run modulo twice the size, so that a full *)
(* ring differs from an empty one.  ServerTcp uses the ring as the bounded *)
(* queue that it is shown to be here.                                      *)
(*                                                                         *)
(* size_t differences that pass below zero are brought back above it by    *)
(* the addition that follows them: they are integers here.                 *)
(***************************************************************************)
EXTENDS Integers, Sequences

CONSTANTS
  Size, \* buffer_size
  Byte,
  Texts \* bound: what is written at once

ASSUME SizeAssumption == Size \in Nat \ {0}
ASSUME TextsAssumption == Texts \subseteq Seq(Byte)

VARIABLES
  read, write, \* the fields of TRing
  buffer,
  queue        \* history: what was written and not read yet

ringVars == <<read, write, buffer, queue>>

Least(a, b) == IF a < b THEN a ELSE b

Page(pos) == pos \div Size
Offset(pos) == pos % Size

\* alloc: the memory is not cleared.
RingInit ==
  /\ read = 0 /\ write = 0
  /\ buffer \in [0..(Size - 1) -> Byte]
  /\ queue = <<>>

Available ==
  LET l == Offset(write) - Offset(read)
  IN IF Page(write) # Page(read) THEN l + Size ELSE l

Free ==
  LET l == Offset(read) - Offset(write)
  IN IF Page(write) = Page(read) THEN l + Size ELSE l

\* memcpy out of the buffer, and into it.
Bytes(from, l) == [k \in 1..l |-> buffer[from + k - 1]]

Copied(b, to, data, from, l) ==
  [i \in 0..(Size - 1) |-> IF i \in to..(to + l - 1) THEN data[from + i - to + 1] ELSE b[i]]

\* peek(offset, bytes): what comes into the caller's buffer.
Peek(offset, bytes) ==
  LET r == (read + offset) % (2 * Size)
      l == Size - Offset(r)
  IN IF Page(write) = Page(r)
     THEN Bytes(Offset(r), Least(bytes, Offset(write) - Offset(r)))
     ELSE IF bytes <= l THEN Bytes(Offset(r), bytes)
     ELSE Bytes(Offset(r), l) \o Bytes(0, Least(bytes - l, Offset(write)))

EndRead(bytes) == (read + bytes) % (2 * Size)

\* (A wrong variant: the position is kept within the buffer.)
EndWriteWithin(bytes) == (write + bytes) % Size

EndWrite(bytes) == (write + bytes) % (2 * Size)

\* write(): the bytes taken, and the buffer that holds them.
Stored(data) ==
  LET room == Offset(read) - Offset(write)
      l == Size - Offset(write)
      l2 == Least(Len(data) - l, Offset(read))
      bytes == Least(Len(data), room)
  IN IF Page(write) # Page(read)
     THEN [bytes |-> bytes, buffer |-> Copied(buffer, Offset(write), data, 0, bytes)]
     ELSE IF Len(data) <= l
     THEN [bytes |-> Len(data), buffer |-> Copied(buffer, Offset(write), data, 0, Len(data))]
     ELSE [bytes |-> l + l2,
           buffer |-> Copied(Copied(buffer, Offset(write), data, 0, l), 0, data, l, l2)]

Write(data) ==
  /\ buffer' = Stored(data).buffer
  /\ write' = EndWrite(Stored(data).bytes)
  /\ queue' = queue \o SubSeq(data, 1, Stored(data).bytes)
  /\ UNCHANGED read

\* read(): peek and end_read.
Read(bytes) ==
  LET l == Len(Peek(0, bytes)) IN
  /\ read' = EndRead(l)
  /\ queue' = SubSeq(queue, l + 1, Len(queue))
  /\ UNCHANGED <<write, buffer>>

RingNext ==
  \/ \E data \in Texts : Write(data)
  \/ \E bytes \in 1..(Size + 1) : Read(bytes)

RingSpec == RingInit /\ [][RingNext]_ringVars

-----------------------------------------------------------------------------
\* However often the positions have gone around, the ring is a queue of at most Size
\* bytes: available() and free() are exact, and a peek at any place that was written
\* gives the bytes written there, in order, over the end of the buffer too.
Fifo ==
  /\ Available = Len(queue) /\ Free = Size - Len(queue)
  /\ \A offset \in 0..Len(queue), bytes \in 0..(Size + 1) :
       Peek(offset, bytes) = SubSeq(queue, offset + 1, Least(offset + bytes, Len(queue)))
===========================================================================
