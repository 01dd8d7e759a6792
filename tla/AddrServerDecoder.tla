------------------------- MODULE AddrServerDecoder -------------------------
(***************************************************************************)
(* The request decoder of the address server: conn_data_handler() of      *)
(* src/src/addr_server.c with name_by_ip() and ip_by_name(), for one      *)
(* connection from the driver.                                            *)
(*                                                                         *)
(* The driver writes requests as query_addr_number() frames them:         *)
(* DATALEN, the length of the rest, the message type, the query string    *)
(* and its NUL, every integer W bytes little-endian.  Each read of the    *)
(* server takes some of the bytes that have arrived into the connection's *)
(* buffer after the leftover of the previous read; the buffer is a real   *)
(* array whose cells keep what earlier reads left in them, because        *)
(* strlen() and the NUL test can look past the bytes just read.           *)
(***************************************************************************)
EXTENDS Naturals, Integers, Sequences, SequencesExt

CONSTANTS
  W,             \* sizeof(int)
  IN_BUF_SIZE,   \* size of all_conns[i].buf
  DATALEN, NAMEBYIP, IPBYNAME,  \* message tags (addr_server.h)
  Requests,      \* [type, q] records the driver may send
  Resolvable,    \* query strings the resolver answers successfully
  Digits,        \* bytes inet_addr() accepts
  MaxRequests,   \* bound on the number of requests sent
  SplitReads     \* may a read end inside a write of the driver?

ASSUME W \in Nat \ {0} /\ IN_BUF_SIZE \in Nat \ {0, 1}
ASSUME {DATALEN, NAMEBYIP, IPBYNAME} \subseteq 1 .. 255

Idx == 0 .. IN_BUF_SIZE - 1

VARIABLES
  wire,     \* the driver's writes not yet read, the first possibly in part
  conn,     \* buf, leftover and state of all_conns[i]
  replies,  \* the reply lines the server wrote, as [q, ok] records
  sent      \* the requests the driver wrote

vars == <<wire, conn, replies, sent>>

(***************************************************************************)
(* Framing.                                                               *)
(***************************************************************************)
\* A small integer in W bytes, little-endian.
Word(v) == <<v>> \o [i \in 1 .. W - 1 |-> 0]

\* What query_addr_number() writes for request r.
Frame(r) == Word(DATALEN) \o Word(W + Len(r.q) + 1) \o Word(r.type) \o r.q \o <<0>>

Stream == FlattenSeq(wire)

\* The writes left after k bytes of them have been read.
RECURSIVE DropBytes(_, _)
DropBytes(ws, k) ==
  IF k = 0 THEN ws
  ELSE IF k >= Len(Head(ws)) THEN DropBytes(Tail(ws), k - Len(Head(ws)))
  ELSE <<SubSeq(Head(ws), k + 1, Len(Head(ws)))>> \o Tail(ws)

\* How many bytes one read may return when space bytes fit into the buffer:
\* all that has arrived, up to space; what has arrived is a prefix of the
\* writes, ending anywhere when SplitReads and at the end of a write if not.
ReadSizes(space) ==
  LET arrived == IF SplitReads THEN 1 .. Len(Stream)
                 ELSE {Len(FlattenSeq(SubSeq(wire, 1, j))) : j \in 1 .. Len(wire)}
  IN {IF a < space THEN a ELSE space : a \in arrived} \ {0}

(***************************************************************************)
(* Buffer access.  A cell past the array reads as 0.                      *)
(***************************************************************************)
Cell(buf, i) == IF i \in Idx THEN buf[i] ELSE 0

WordAt(buf, i) ==
  LET F[k \in 0 .. W] == IF k = 0 THEN 0 ELSE F[k - 1] + Cell(buf, i + k - 1) * 256^(k - 1)
  IN F[W]

\* The C string at buf + i.
CString(buf, i) ==
  LET stop == CHOOSE e \in i .. IN_BUF_SIZE :
                Cell(buf, e) = 0 /\ \A j \in i .. e - 1 : Cell(buf, j) # 0
  IN [j \in 1 .. stop - i |-> Cell(buf, i + j - 1)]

IsAddress(q) == q # <<>> /\ \A j \in 1 .. Len(q) : q[j] \in Digits

(***************************************************************************)
(* The lookups: res and the reply written, if any.                        *)
(***************************************************************************)
name_by_ip(q) ==
  IF ~IsAddress(q) THEN [res |-> 0, out |-> <<>>]
  ELSE [res |-> IF q \in Resolvable THEN 1 ELSE 0,
        out |-> <<[q |-> q, ok |-> q \in Resolvable]>>]

ip_by_name(q) ==
  [res |-> IF q \in Resolvable THEN 1 ELSE 0,
   out |-> <<[q |-> q, ok |-> q \in Resolvable]>>]

(***************************************************************************)
(* The while loop of conn_data_handler().  s has the buffer, buf_index,   *)
(* num_bytes, expecting and the replies written; unread is what FIONREAD  *)
(* reports.                                                               *)
(***************************************************************************)
\* num_bytes > sizeof(int): the int is converted to size_t, so a negative
\* count compares as huge.
SizeGt(n, k) == n < 0 \/ n > k

Skip(s) == [s EXCEPT !.idx = @ + 1, !.num = @ - 1]

\* After a failed lookup: was the message complete?  Either more bytes
\* follow it, or DATALEN announced exactly its length.
Complete(s, msglen) == msglen < s.num \/ (s.expecting # 0 /\ s.expecting = msglen)

RECURSIVE DecodeLoop(_, _)
DecodeLoop(s, unread) ==
  IF ~(SizeGt(s.num, W) /\ s.idx < IN_BUF_SIZE - 1) THEN s
  ELSE LET msgtype == WordAt(s.buf, s.idx) IN
  CASE msgtype \in {NAMEBYIP, IPBYNAME} ->
         IF Cell(s.buf, s.idx + W) = 0 THEN DecodeLoop(Skip(s), unread)
         ELSE IF s.expecting # 0 /\ s.num < s.expecting
         THEN [s EXCEPT !.idx = @ - 2 * W, !.num = @ + 2 * W]
         ELSE LET q      == CString(s.buf, s.idx + W)
                  r      == IF msgtype = NAMEBYIP THEN name_by_ip(q) ELSE ip_by_name(q)
                  msglen == W + Len(q) + 1
                  s1     == [s EXCEPT !.out = @ \o r.out]
              IN IF r.res = 1
                 THEN DecodeLoop([s1 EXCEPT !.idx = @ + msglen, !.num = @ - msglen], unread)
                 ELSE IF Complete(s, msglen)
                 THEN DecodeLoop([s1 EXCEPT !.idx = @ + msglen, !.num = @ - msglen,
                                            !.expecting = 0], unread)
                 ELSE IF unread > 0 THEN s1
                 ELSE [s1 EXCEPT !.idx = 0, !.num = 0]
    [] msgtype = DATALEN ->
         IF SizeGt(s.num, 2 * W)
         THEN LET e == WordAt(s.buf, s.idx + W) IN
              DecodeLoop([s EXCEPT !.expecting = IF e > IN_BUF_SIZE \/ e <= 0 THEN 0 ELSE e,
                                   !.idx = @ + 2 * W, !.num = @ - 2 * W], unread)
         ELSE s
    [] OTHER -> DecodeLoop(Skip(s), unread)

\* After the loop: move the rest to the front and NUL-terminate it.
KeepLeftover(s) ==
  LET moved == IF s.num # 0 /\ s.idx # 0
               THEN [i \in Idx |-> IF i < s.num THEN Cell(s.buf, s.idx + i) ELSE s.buf[i]]
               ELSE s.buf
  IN IF s.num \in Idx THEN [moved EXCEPT ![s.num] = 0] ELSE moved

\* A negative num_bytes reaches memmove() as a huge size_t (buf_index is
\* past the bytes read, so not 0): the server dies there, after the
\* replies of this read were written, and the kernel closes its end of
\* the connection.
Crashes(s) == s.num < 0

Init ==
  /\ wire = <<>>
  /\ conn = [buf |-> [i \in Idx |-> 0], leftover |-> 0, open |-> TRUE]
  /\ replies = <<>>
  /\ sent = <<>>

\* query_addr_number() writes one request.
DriverWrites(r) ==
  /\ Len(sent) < MaxRequests
  /\ wire' = Append(wire, Frame(r))
  /\ sent' = Append(sent, r)
  /\ UNCHANGED <<conn, replies>>

\* Mutant: the read may fill the last cell of the buffer.
ReadSpaceNoNul(leftover) == IN_BUF_SIZE - leftover

\* Room for a read: the last cell of buf is kept for the NUL.
ReadSpace(leftover) == (IN_BUF_SIZE - 1) - leftover

\* conn_data_handler(), default case: read k bytes after the leftover and
\* decode.
conn_data_handler ==
  /\ conn.open
  /\ wire # <<>>
  /\ LET space == ReadSpace(conn.leftover)
     IN \E k \in ReadSizes(space) :
          LET buf  == [i \in Idx |-> IF i >= conn.leftover /\ i < conn.leftover + k
                                     THEN Stream[i - conn.leftover + 1] ELSE conn.buf[i]]
              rest == DropBytes(wire, k)
              s    == DecodeLoop([buf |-> buf, idx |-> 0, num |-> conn.leftover + k,
                                  expecting |-> 0, out |-> <<>>], Len(FlattenSeq(rest)))
          IN /\ wire' = rest
             /\ conn' = [conn EXCEPT !.buf = KeepLeftover(s), !.leftover = s.num,
                                     !.open = ~Crashes(s)]
             /\ replies' = replies \o s.out
  /\ UNCHANGED sent

\* conn_data_handler(), case 0: with no room left the read asks for zero
\* bytes, gets 0 and terminate() closes the connection.
ReadNoRoom ==
  /\ conn.open
  /\ wire # <<>>
  /\ ReadSpace(conn.leftover) = 0
  /\ conn' = [conn EXCEPT !.open = FALSE]
  /\ UNCHANGED <<wire, replies, sent>>

Next ==
  \/ \E r \in Requests : DriverWrites(r)
  \/ conn_data_handler
  \/ ReadNoRoom

Spec == Init /\ [][Next]_vars

(***************************************************************************)
(* Properties.                                                            *)
(***************************************************************************)
\* Types, and the NUL in the last cell of buf that every strlen() relies on.
TypeOK ==
  /\ conn.buf \in [Idx -> 0 .. 255]
  /\ conn.buf[IN_BUF_SIZE - 1] = 0
  /\ conn.leftover \in Int
  /\ conn.open \in BOOLEAN
  /\ Len(sent) <= MaxRequests

(* After every read the count of leftover bytes lies inside the buffer:  *)
(* conn_data_handler() passes it to memmove() as a size and writes the    *)
(* NUL at buf[num_bytes], so a negative count crashes the server.  The    *)
(* loop compares num_bytes with sizeof(int), a size_t, and so keeps going *)
(* once a lookup has advanced past the bytes read.                        *)
LeftoverWithinBuffer == conn.leftover \in 0 .. IN_BUF_SIZE - 1

\* The reply spec.md 4.5 prescribes for a request.
Answer(r) == [q |-> r.q, ok |-> r.q \in Resolvable]

(* spec.md 4.5/8: however the driver's writes are split into reads, the   *)
(* server answers every request once, in the order sent, and answers      *)
(* nothing else: the replies written so far are a prefix of the answers   *)
(* to the requests sent, and all of them once every byte has been read.   *)
AnsweredOnceInOrder ==
  LET answers == [i \in 1 .. Len(sent) |-> Answer(sent[i])] IN
  /\ IsPrefix(replies, answers)
  /\ (wire = <<>> /\ conn.open) => replies = answers
=============================================================================
