------------------------------ MODULE Messages ------------------------------
(***************************************************************************)
(* A message on its way: packed by a serializer into a growing Buffer,     *)
(* framed by a header with the size of its body, sent through the MPI or   *)
(* the socket channel, received into a buffer that is used again and       *)
(* again, unpacked by the callback.  Memory is bytes: byte k of value x is *)
(* <<x, k>>, so what was written with one width and is read with another,  *)
(* or somewhere else, does not come out right.  Widths are scaled down;    *)
(* the check sum is left out, finalizePack aborts when it is asked for.    *)
(***************************************************************************)
EXTENDS Integers, Sequences, SequencesExt

CONSTANTS
  NumProcs,    \* process 0 receives from the others
  Types(_),    \* sender: the types of the messages it sends, one after the other
  Values(_)    \* sender: and their values

CHAR == 1
INT == 2
SIZE == 4                          \* sizeof( size_type )
MAX_HEADER_SIZE == SIZE + 2
FIRST_SIZE == 8                    \* m_size = 32, before it is doubled
BUFF_SIZE_Full == 64
BUFF_SIZE == 64 - MAX_HEADER_SIZE
JUNK == <<-1, 0>>
MaxDoublings == 8

\* The member of a singleton: {f(c) : c \in {e}} evaluates e once.
The(S) == CHOOSE x \in S : TRUE

-----------------------------------------------------------------------------
\* Buffer.  Pointers are offsets from m_buf; there is no memory while size = 0.
NoBuffer(addSize) == [mem |-> <<>>, size |-> 0, header |-> 0, body |-> 0, curr |-> 0, addSize |-> addSize]
getHeaderSize(b) == IF b.addSize THEN SIZE ELSE 0
getBodySize(b) == b.curr - b.body
capacity(b) == b.size - b.header

Grown(size, newSz) ==
  LET first == IF size = 0 THEN FIRST_SIZE ELSE size
      enough(k) == first * 2 ^ k >= newSz
  IN first * 2 ^ (CHOOSE k \in 1..MaxDoublings : enough(k) /\ \A j \in 1..(k - 1) : ~enough(j))

\* What has been written so far and the room for the header move along.
Moved_BodyOnly(b, size) ==
  LET oldSz == b.curr - b.body
  IN [b EXCEPT !.size = size,
               !.mem = [o \in 0..(size - 1) |-> IF o \in DOMAIN b.mem /\ o < oldSz THEN b.mem[o] ELSE JUNK],
               !.body = MAX_HEADER_SIZE, !.header = MAX_HEADER_SIZE - getHeaderSize(b),
               !.curr = MAX_HEADER_SIZE + oldSz]
Moved(b, size) ==
  LET oldSz == b.curr - b.body
      copied(o) == o \in DOMAIN b.mem /\ o < oldSz + MAX_HEADER_SIZE
  IN [b EXCEPT !.size = size,
               !.mem = [o \in 0..(size - 1) |-> IF copied(o) THEN b.mem[o] ELSE JUNK],
               !.body = MAX_HEADER_SIZE, !.header = MAX_HEADER_SIZE - getHeaderSize(b),
               !.curr = MAX_HEADER_SIZE + oldSz]
ensure_capacity_FromHeader(b, n) == IF n <= b.size /\ b.size > 0 THEN b ELSE Moved(b, The({Grown(b.size, n)}))
ensure_capacity(b, n) ==
  LET newSz == n + b.header
  IN IF newSz <= b.size /\ b.size > 0 THEN b ELSE Moved(b, The({Grown(b.size, newSz)}))

\* The acquired bytes are the len bytes before the new curr.
acquire(b, len) == The({[c EXCEPT !.curr = @ + len] : c \in {ensure_capacity(a, a.curr - a.header + len) : a \in {b}}})

reset(b, addSize, forceNonEmpty) ==
  LET a == [b EXCEPT !.addSize = addSize]
      c == IF forceNonEmpty THEN acquire([a EXCEPT !.curr = a.body], 2 * MAX_HEADER_SIZE) ELSE a
      begin(d) == [d EXCEPT !.body = MAX_HEADER_SIZE, !.header = MAX_HEADER_SIZE - getHeaderSize(d), !.curr = MAX_HEADER_SIZE]
  IN The({IF d.size = 0 THEN d ELSE begin(d) : d \in {c}})

\* memcpy of values xs of width w to position pos, and of n values from there.
Poke(b, pos, w, xs) ==
  LET in(o) == o \in pos..(pos + w * Len(xs) - 1)
      put(mem) == [o \in DOMAIN mem |-> IF in(o) THEN <<xs[((o - pos) \div w) + 1], (o - pos) % w>> ELSE mem[o]]
  IN The({[a EXCEPT !.mem = put(@)] : a \in {b}})
ByteAt(b, o) == IF o \in DOMAIN b.mem THEN b.mem[o] ELSE JUNK
Peek(b, pos, w, n) ==
  [i \in 1..n |-> LET at == pos + w * (i - 1)
                      val == ByteAt(b, at)[1]
                  IN IF \A k \in 0..(w - 1) : ByteAt(b, at + k) = <<val, k>> THEN val ELSE JUNK[1]]

finalizePack(b) ==
  LET c == IF b.size = 0 THEN ensure_capacity(b, 0) ELSE b
  IN The({IF d.addSize THEN Poke(d, d.header, SIZE, <<getBodySize(d)>>) ELSE d : d \in {c}})
unpackSizeFromHeader(b) == Peek(b, b.body - SIZE, SIZE, 1)[1]
\* The size in the header is the size of what was received, else SizeError.
SizeRight(b) == b.addSize => unpackSizeFromHeader(b) = getBodySize(b)
initUnpack(b) == [b EXCEPT !.curr = b.body]

-----------------------------------------------------------------------------
\* serializer.  A type is <<"bits", width>>, <<"array", type, length>>,
\* <<"vector" or "pointer" or "shared" or "counted", type>>, <<"pair", types>>,
\* <<"string">> or <<"cstr">>; arrays, vectors, strings and (possibly null)
\* pointers have sequences as values.
PackBits(w, xs, b) == The({Poke(c, c.curr - w * Len(xs), w, xs) : c \in {acquire(b, w * Len(xs))}})

RECURSIVE PackAs(_, _, _)
PackAs(t, x, b) ==
  LET all(u, xs, c) == IF u[1] = "bits" THEN PackBits(u[2], xs, c)
                       ELSE FoldLeft(LAMBDA a, y : The({PackAs(u, y, d) : d \in {a}}), c, xs)
      chunk(u, xs, c) == all(u, xs, PackBits(SIZE, <<Len(xs)>>, c))
      sized(u, xs) == chunk(u, xs, PackBits(SIZE, <<Len(xs)>>, b))
  IN CASE t[1] = "bits" -> PackBits(t[2], <<x>>, b)
       [] t[1] \in {"array", "shared"} -> chunk(t[2], x, b)
       [] t[1] = "vector" -> sized(t[2], x)
       [] t[1] \in {"string", "cstr"} -> sized(<<"bits", CHAR>>, x \o <<0>>)
       [] t[1] = "pointer" -> IF x = <<>> THEN PackBits(INT, <<0>>, b) ELSE chunk(t[2], x, PackBits(INT, <<1>>, b))
       [] t[1] = "pair" -> PackAs(t[2][2], x[2], PackAs(t[2][1], x[1], b))
       \* r = reserve( n ); ... complete( r, n )
       [] t[1] = "counted" -> The({Poke(all(t[2], x, r), r.curr - INT, INT, <<Len(x)>>) : r \in {acquire(b, INT)}})

\* ok: the assertions on the lengths of arrays hold.
UnpackBits(w, n, b) ==
  The({[val |-> Peek(c, c.curr - w * n, w, n), buf |-> c, ok |-> TRUE] : c \in {acquire(b, w * n)}})
UnpackOne(w, b) == The({[r EXCEPT !.val = @[1]] : r \in {UnpackBits(w, 1, b)}})

RECURSIVE UnpackAs(_, _)
UnpackAs(t, b) ==
  LET after(a, y) == [val |-> Append(a.val, y.val), buf |-> y.buf, ok |-> a.ok /\ y.ok]
      each(u, n, c) == FoldLeft(LAMBDA a, k : The({after(d, The({UnpackAs(u, d.buf)})) : d \in {a}}),
                                [val |-> <<>>, buf |-> c, ok |-> TRUE], [k \in 1..n |-> k])
      all(u, n, c) == IF u[1] = "bits" THEN UnpackBits(u[2], n, c) ELSE each(u, n, c)
      broken(c) == [val |-> <<>>, buf |-> c, ok |-> FALSE]
      chunk(u, len, c) == The({IF n.val = len THEN all(u, len, n.buf) ELSE broken(n.buf) : n \in {UnpackOne(SIZE, c)}})
      sized(u, w) == The({chunk(u, n.val, n.buf) : n \in {UnpackOne(w, b)}})
      text(w) == The({[r EXCEPT !.val = IF @ = <<>> THEN @ ELSE Front(@)] : r \in {sized(<<"bits", CHAR>>, w)}})
      both(x) == The({[val |-> <<x.val, y.val>>, buf |-> y.buf, ok |-> x.ok /\ y.ok] : y \in {UnpackAs(t[2][2], x.buf)}})
      pointee(n) == IF n.val = 0 THEN [n EXCEPT !.val = <<>>] ELSE chunk(t[2], 1, n.buf)
  IN CASE t[1] = "bits" -> UnpackOne(t[2], b)
       [] t[1] = "array" -> chunk(t[2], t[3], b)
       [] t[1] = "shared" -> chunk(t[2], 1, b)
       [] t[1] = "vector" -> sized(t[2], SIZE)
       [] t[1] = "string" -> text(SIZE)
       [] t[1] = "cstr" -> text(INT)
       [] t[1] = "pointer" -> The({pointee(n) : n \in {UnpackOne(INT, b)}})
       [] t[1] = "pair" -> The({both(x) : x \in {UnpackAs(t[2][1], b)}})
       [] t[1] = "counted" -> The({all(t[2], n.val, n.buf) : n \in {UnpackOne(INT, b)}})

-----------------------------------------------------------------------------
VARIABLES
  channel,    \* "mpi" or "socket"
  nSent,      \* sender -> messages sent (the one after the last: termination)
  bodyLeft,   \* sender -> body that sendBytes still has to send (mpi)
  wire,       \* sender -> messages (mpi: [first, second]) or bytes (socket)
  sers,       \* the receive buffers: m_ser1, m_ser2; the socket channel has one
  request,    \* mpi: who has filled m_ser1, and with how many bytes
  handed,     \* the sender whose message the callback has to unpack, or 0
  got,        \* sender -> values unpacked so far
  over,       \* senders that have sent their termination request
  prevClient, \* socket: where the search for the next client begins
  passed      \* sender -> messages of others taken since it became ready

vars == <<channel, nSent, bodyLeft, wire, sers, request, handed, got, over, prevClient, passed>>
Senders == 1..(NumProcs - 1)
NumMsgs(p) == Len(Values(p))
NOBODY == [from |-> 0, cnt |-> 0]

Init ==
  /\ channel \in {"mpi", "socket"}
  /\ nSent = [p \in Senders |-> 0] /\ bodyLeft = [p \in Senders |-> <<>>]
  /\ wire = [p \in Senders |-> [first |-> <<>>, second |-> <<>>]]
  /\ sers = IF channel = "socket" THEN <<reset(NoBuffer(FALSE), TRUE, TRUE)>>
            ELSE [n \in 1..2 |-> reset(ensure_capacity(NoBuffer(FALSE), BUFF_SIZE), TRUE, TRUE)]
  /\ request = NOBODY /\ handed = 0 /\ over = {}
  /\ got = [p \in Senders |-> <<>>]
  /\ prevClient = 0 /\ passed = [p \in Senders |-> 0]

\* distributor::new_serializer, the values, distributor::send_msg; and the
\* header that SendThread::sendTerminationRequest sends at the end.
Packed(p, n) ==
  LET empty == reset(NoBuffer(TRUE), TRUE, FALSE)
  IN finalizePack(IF n > NumMsgs(p) THEN empty ELSE PackAs(Types(p)[n], Values(p)[n], empty))
Bytes(b, from, to) == [k \in 1..(to - from) |-> ByteAt(b, from + k - 1)]

\* sendBytes: the one sender thread of p; a large message goes in two pieces.
OnePiece(b) == getHeaderSize(b) + getBodySize(b) < BUFF_SIZE
SendBytes(p, b) ==
  LET all == Bytes(b, b.header, b.curr)
  IN IF channel = "socket"
     THEN wire' = [wire EXCEPT ![p].first = @ \o all] /\ UNCHANGED bodyLeft
     ELSE IF OnePiece(b)
     THEN wire' = [wire EXCEPT ![p].first = Append(@, all)] /\ UNCHANGED bodyLeft
     ELSE /\ wire' = [wire EXCEPT ![p].first = Append(@, Bytes(b, b.header, b.body))]
          /\ bodyLeft' = [bodyLeft EXCEPT ![p] = Bytes(b, b.body, b.curr)]
Send(p) ==
  /\ nSent[p] <= NumMsgs(p) /\ bodyLeft[p] = <<>>
  /\ nSent' = [nSent EXCEPT ![p] = @ + 1]
  /\ \E b \in {Packed(p, nSent[p] + 1)} : SendBytes(p, b)
  /\ UNCHANGED <<channel, sers, request, handed, got, over, prevClient, passed>>

SendBody(p) ==
  /\ bodyLeft[p] # <<>>
  /\ wire' = [wire EXCEPT ![p].second = Append(@, bodyLeft[p])]
  /\ bodyLeft' = [bodyLeft EXCEPT ![p] = <<>>]
  /\ UNCHANGED <<channel, nSent, sers, request, handed, got, over, prevClient, passed>>

Fill(b, pos, bytes) ==
  [b EXCEPT !.mem = [o \in DOMAIN @ |-> IF o \in pos..(pos + Len(bytes) - 1) THEN bytes[o - pos + 1] ELSE @[o]]]

\* MPI_Irecv into m_ser1 ends whenever MPI likes, the callback may be at work.
Arrive(p) ==
  /\ channel = "mpi" /\ request = NOBODY /\ wire[p].first # <<>>
  /\ sers' = [sers EXCEPT ![1] = Fill(@, @.header, wire[p].first[1])]
  /\ request' = [from |-> p, cnt |-> Len(wire[p].first[1])]
  /\ wire' = [wire EXCEPT ![p].first = Tail(@)]
  /\ UNCHANGED <<channel, nSent, bodyLeft, handed, got, over, prevClient, passed>>

\* What waitForAnyClient returns: NULL, the termination request, for no body.
Returns(p, bodySize) ==
  /\ handed' = IF bodySize = 0 THEN 0 ELSE p
  /\ over' = IF bodySize = 0 THEN over \cup {p} ELSE over

TakesBody_Always(b) == unpackSizeFromHeader(b) # 0
TakesBody(b) == request.cnt = getHeaderSize(b) /\ unpackSizeFromHeader(b) # 0
Swapped(b) == <<reset(sers[2], sers[2].addSize, TRUE), b>>
WaitForAnyClientMpi ==
  LET p == request.from
      bodySize == unpackSizeFromHeader(sers[1])
  IN /\ channel = "mpi" /\ handed = 0 /\ request # NOBODY
     /\ \E c \in {IF bodySize = 0 THEN sers[1] ELSE acquire(sers[1], bodySize)} :
          IF TakesBody(sers[1])
          THEN /\ wire[p].second # <<>>
               /\ sers' = Swapped(Fill(c, c.body, wire[p].second[1]))
               /\ wire' = [wire EXCEPT ![p].second = Tail(@)]
          ELSE sers' = Swapped(c) /\ UNCHANGED wire
     /\ request' = NOBODY
     /\ Returns(p, bodySize)
     /\ UNCHANGED <<channel, nSent, bodyLeft, got, prevClient, passed>>

\* PAL_Select, the search from prevClient on, header and body from the stream.
Ready(p) == p \in Senders /\ wire[p].first # <<>>
Pick(p) ==
  LET from(c) == \A q \in c..(p - 1) : ~Ready(q)
  IN Ready(p) /\ IF p >= prevClient THEN from(prevClient)
                 ELSE from(0) /\ \A q \in prevClient..(NumProcs - 1) : ~Ready(q)
NextStart_Same == prevClient
NextStart == (prevClient + 1) % NumProcs
Header(p, b) == Fill(b, b.header, SubSeq(wire[p].first, 1, getHeaderSize(b)))
WaitForAnyClientSocket(p) ==
  /\ channel = "socket" /\ handed = 0 /\ Pick(p)
  /\ \E b \in {Header(p, c) : c \in {reset(sers[1], sers[1].addSize, TRUE)}} :
       LET bodySize == unpackSizeFromHeader(b)
           end == getHeaderSize(b) + bodySize
       IN /\ \E c \in {IF bodySize = 0 THEN b ELSE acquire(b, bodySize)} :
               sers' = <<Fill(c, c.body, SubSeq(wire[p].first, getHeaderSize(b) + 1, end))>>
          /\ wire' = [wire EXCEPT ![p].first = SubSeq(@, end + 1, Len(@))]
          /\ Returns(p, bodySize)
  /\ prevClient' = NextStart
  /\ passed' = [q \in Senders |-> IF q = p \/ ~Ready(q) THEN 0 ELSE passed[q] + 1]
  /\ UNCHANGED <<channel, nSent, bodyLeft, request, got>>

\* recv_msg_callback and distributor::recv_msg.
HandedSer == IF channel = "mpi" THEN 2 ELSE 1
Callback ==
  /\ handed # 0
  /\ \E r \in {UnpackAs(Types(handed)[Len(got[handed]) + 1], initUnpack(sers[HandedSer]))} :
       /\ sers' = [sers EXCEPT ![HandedSer] = r.buf]
       /\ got' = [got EXCEPT ![handed] = Append(@, <<r.ok /\ SizeRight(sers[HandedSer]), r.val>>)]
  /\ handed' = 0
  /\ UNCHANGED <<channel, nSent, bodyLeft, wire, request, over, prevClient, passed>>

Ended == over = Senders
Terminated == Ended /\ UNCHANGED vars

RecvThread == WaitForAnyClientMpi \/ (\E p \in Senders : WaitForAnyClientSocket(p)) \/ Callback
SendThread(p) == Send(p) \/ SendBody(p)
Next == (\E p \in Senders : SendThread(p) \/ Arrive(p)) \/ RecvThread \/ Terminated

-----------------------------------------------------------------------------
\* The pointers of the receive buffers are in order and inside the memory
\* (Buffer::verifyIntegrity): before, between and after the calls.
InBounds ==
  \A n \in DOMAIN sers : LET b == sers[n]
    IN /\ b.header \in 0..b.body /\ b.body <= b.curr /\ b.curr <= b.size
       /\ DOMAIN b.mem = 0..(b.size - 1)

\* What a process sends in one piece fits into the buffer that the receiver has
\* posted, whatever that buffer was used for before: MPI does not truncate it.
FitsPosted ==
  channel = "mpi" => \A p \in Senders : request = NOBODY /\ wire[p].first # <<>> =>
    Len(wire[p].first[1]) <= capacity(sers[1])

\* From every sender the callback unpacks, in order and without an assertion
\* failing, what was packed: across growing buffers, values filled in later,
\* messages in two pieces, pieces of other senders and reused receive buffers.
AsSent ==
  \A p \in Senders : /\ Len(got[p]) <= NumMsgs(p)
                     /\ \A n \in DOMAIN got[p] : got[p][n] = <<TRUE, Values(p)[n]>>
                     /\ p \in over => Len(got[p]) = NumMsgs(p)

\* No client that has something to say is passed over for more than one round.
NotPassedOver == \A p \in Senders : passed[p] < NumProcs
=============================================================================
