---------------------------- MODULE OutputBuffer ----------------------------
(***************************************************************************)
(* The output ring buffer of one interactive connection: add_message(),   *)
(* add_vmessage() and flush_message() of src/src/comm.c, the abort-output *)
(* reply of copy_chars() that sends with MSG_OOB, and the write half of   *)
(* process_io().                                                          *)
(*                                                                         *)
(* The socket is a kernel send buffer of KernelCap bytes that the peer    *)
(* drains; send() on a non-blocking socket takes as many bytes as fit,    *)
(* fails with EWOULDBLOCK when none fit and fails hard once the peer has  *)
(* reset the connection.  Every call is one atomic step: the driver is    *)
(* single-threaded and nothing else runs during add_message().            *)
(***************************************************************************)
EXTENDS Naturals, Sequences, SequencesExt

CONSTANTS
  MESSAGE_BUF_SIZE, \* size of ip->message_buf
  KernelCap,        \* bytes the kernel send buffer holds
  Messages,         \* texts the driver passes to add_message()
  MaxCalls          \* bound on the number of calls

ASSUME MESSAGE_BUF_SIZE \in Nat \ {0, 1} /\ KernelCap \in Nat \ {0}
ASSUME MaxCalls \in Nat

Bytes == {"x", "CR", "LF", "IAC", "DM"}

VARIABLES
  ip,        \* message_buf, message_producer/consumer/length, out_of_band, NET_DEAD
  kernel,    \* bytes send() accepted that the peer has not read yet
  peer,      \* bytes the peer has read
  urgent,    \* the byte each send(.., MSG_OOB) marked urgent (its last byte)
  gone,      \* the peer reset the connection: send() returns -1
  requested, \* history: translation of every message added while alive
  calls      \* number of calls so far (bounded by MaxCalls)

vars == <<ip, kernel, peer, urgent, gone, requested, calls>>

Slots == 0 .. MESSAGE_BUF_SIZE - 1

(* The queued bytes, oldest first. *)
RingContents == [k \in 1 .. ip.length |->
                   ip.buf[(ip.consumer + k - 1) % MESSAGE_BUF_SIZE]]

OS == INSTANCE OutputStream WITH CAP <- MESSAGE_BUF_SIZE,
        Messages <- Messages \cup {<<"IAC", "DM">>},
        queue <- RingContents, wire <- peer \o kernel, dead <- ip.net_dead

Init ==
  /\ ip = [buf |-> [i \in Slots |-> "x"], producer |-> 0, consumer |-> 0,
           length |-> 0, out_of_band |-> FALSE, net_dead |-> FALSE]
  /\ kernel = <<>> /\ peer = <<>> /\ urgent = <<>>
  /\ gone = FALSE /\ requested = <<>> /\ calls = 0

(***************************************************************************)
(* flush_message(): the operators work on a record s with fields ip,     *)
(* kernel, urgent and ok (the return value).                              *)
(***************************************************************************)
\* Bytes one send() may write: up to the producer, or up to the buffer end.
ContiguousLen(i) == IF i.consumer < i.producer THEN i.producer - i.consumer
                    ELSE MESSAGE_BUF_SIZE - i.consumer

\* Mutant: the cursors move as if send() had written the whole chunk.
AdvanceWhole(s, n) ==
  [s EXCEPT !.ip.consumer = (@ + ContiguousLen(s.ip)) % MESSAGE_BUF_SIZE,
            !.ip.length = @ - ContiguousLen(s.ip),
            !.ip.out_of_band = FALSE]

\* After send() wrote n bytes: move the consumer, shrink the length, clear
\* the out-of-band flag.
Advance(s, n) ==
  [s EXCEPT !.ip.consumer = (@ + n) % MESSAGE_BUF_SIZE,
            !.ip.length = @ - n,
            !.ip.out_of_band = FALSE]

\* The loop of flush_message(): stop at an empty buffer, fail on a hard
\* error, return 1 on EWOULDBLOCK, otherwise write and go round again.
RECURSIVE FlushLoop(_)
FlushLoop(s) ==
  IF s.ip.length = 0 THEN s
  ELSE LET len  == ContiguousLen(s.ip)
           room == KernelCap - Len(s.kernel)
       IN IF gone THEN [s EXCEPT !.ip.net_dead = TRUE, !.ok = FALSE]
          ELSE IF room = 0 THEN s
          ELSE LET n   == IF len < room THEN len ELSE room
                   out == [k \in 1 .. n |-> s.ip.buf[s.ip.consumer + k - 1]]
               IN FlushLoop(Advance([s EXCEPT
                    !.kernel = @ \o out,
                    !.urgent = IF s.ip.out_of_band THEN Append(@, out[n]) ELSE @], n))

Flush(s) == FlushLoop([s EXCEPT !.ok = TRUE])

(***************************************************************************)
(* The copy loop of add_message(): status "done" when the whole text was *)
(* queued, "break" when the buffer stayed full and the rest was dropped,  *)
(* "return" when a flush failed.                                          *)
(***************************************************************************)
Put(s, c) == [s EXCEPT !.ip.buf[s.ip.producer] = c,
                       !.ip.producer = (@ + 1) % MESSAGE_BUF_SIZE,
                       !.ip.length = @ + 1]

\* Mutant: a newline is queued without making room for its CR.
RECURSIVE CopyNoNewlineCheck(_, _)
CopyNoNewlineCheck(s, d) ==
  IF d = <<>> THEN [s EXCEPT !.status = "done"]
  ELSE LET s1 == IF s.ip.length = MESSAGE_BUF_SIZE THEN Flush(s) ELSE s
       IN IF ~s1.ok THEN [s1 EXCEPT !.status = "return"]
          ELSE IF s1.ip.length = MESSAGE_BUF_SIZE THEN [s1 EXCEPT !.status = "break"]
          ELSE IF Head(d) = "LF"
               THEN CopyNoNewlineCheck(Put(Put(s1, "CR"), "LF"), Tail(d))
               ELSE CopyNoNewlineCheck(Put(s1, Head(d)), Tail(d))

RECURSIVE Copy(_, _)
Copy(s, d) ==
  IF d = <<>> THEN [s EXCEPT !.status = "done"]
  ELSE LET s1 == IF s.ip.length = MESSAGE_BUF_SIZE THEN Flush(s) ELSE s
       IN IF ~s1.ok THEN [s1 EXCEPT !.status = "return"]
          ELSE IF s1.ip.length = MESSAGE_BUF_SIZE THEN [s1 EXCEPT !.status = "break"]
          ELSE IF Head(d) = "LF"
               THEN LET s2 == IF s1.ip.length = MESSAGE_BUF_SIZE - 1
                              THEN Flush(s1) ELSE s1
                    IN IF ~s2.ok THEN [s2 EXCEPT !.status = "return"]
                       ELSE IF s2.ip.length = MESSAGE_BUF_SIZE - 1
                            THEN [s2 EXCEPT !.status = "break"]
                       ELSE Copy(Put(Put(s2, "CR"), "LF"), Tail(d))
               ELSE Copy(Put(s1, Head(d)), Tail(d))

Start == [ip |-> ip, kernel |-> kernel, urgent |-> urgent, ok |-> TRUE,
          status |-> "done"]

Commit(s) == ip' = s.ip /\ kernel' = s.kernel /\ urgent' = s.urgent

Translate(m) == OS!Translate(m)

(***************************************************************************)
(* Actions.                                                               *)
(***************************************************************************)
\* add_message(who, data): a no-op once NET_DEAD is set.
AddMessage(m) ==
  /\ calls < MaxCalls
  /\ calls' = calls + 1
  /\ IF ip.net_dead
     THEN UNCHANGED <<ip, kernel, urgent, requested>>
     ELSE /\ Commit(Copy(Start, m))
          /\ requested' = requested \o Translate(m)
  /\ UNCHANGED <<peer, gone>>

\* add_vmessage(): the same copy loop, then a flush unless a flush failed.
AddVMessage(m) ==
  /\ calls < MaxCalls
  /\ calls' = calls + 1
  /\ IF ip.net_dead
     THEN UNCHANGED <<ip, kernel, urgent, requested>>
     ELSE LET r == Copy(Start, m)
          IN /\ Commit(IF r.status # "return" /\ r.ip.length # 0 THEN Flush(r) ELSE r)
             /\ requested' = requested \o Translate(m)
  /\ UNCHANGED <<peer, gone>>

\* copy_chars(), IAC AO: out_of_band = MSG_OOB; add_message(IAC DM); flush.
AbortOutput ==
  /\ calls < MaxCalls
  /\ calls' = calls + 1
  /\ LET s0 == [Start EXCEPT !.ip.out_of_band = TRUE]
         r  == IF ip.net_dead THEN s0 ELSE Copy(s0, <<"IAC", "DM">>)
     IN Commit(Flush(r))
  /\ requested' = IF ip.net_dead THEN requested ELSE requested \o <<"IAC", "DM">>
  /\ UNCHANGED <<peer, gone>>

\* process_io(): the socket is in the write mask because length != 0 and
\* select() reported it writable; flush_message().
ProcessIoFlush ==
  /\ ~ip.net_dead
  /\ ip.length # 0
  /\ KernelCap - Len(kernel) > 0 \/ gone
  /\ Commit(Flush(Start))
  /\ UNCHANGED <<peer, gone, requested, calls>>

\* The peer reads some of what the kernel holds.
PeerRead ==
  /\ kernel # <<>>
  /\ \E k \in 1 .. Len(kernel) :
       /\ peer' = peer \o SubSeq(kernel, 1, k)
       /\ kernel' = SubSeq(kernel, k + 1, Len(kernel))
  /\ UNCHANGED <<ip, urgent, gone, requested, calls>>

\* The peer resets the connection; later writes fail.
PeerReset ==
  /\ ~gone
  /\ gone' = TRUE
  /\ UNCHANGED <<ip, kernel, peer, urgent, requested, calls>>

Next ==
  \/ \E m \in Messages : AddMessage(m) \/ AddVMessage(m)
  \/ AbortOutput
  \/ ProcessIoFlush
  \/ PeerRead
  \/ PeerReset

Spec == Init /\ [][Next]_vars

(***************************************************************************)
(* Properties.                                                            *)
(***************************************************************************)
TypeOK ==
  /\ ip.buf \in [Slots -> Bytes]
  /\ ip.producer \in Slots /\ ip.consumer \in Slots
  /\ ip.length \in 0 .. MESSAGE_BUF_SIZE
  /\ ip.out_of_band \in BOOLEAN /\ ip.net_dead \in BOOLEAN
  /\ kernel \in Seq(Bytes) /\ Len(kernel) <= KernelCap
  /\ peer \in Seq(Bytes) /\ urgent \in Seq(Bytes)
  /\ gone \in BOOLEAN /\ requested \in Seq(Bytes) /\ calls \in 0 .. MaxCalls

(* The ring buffer, the flush loop and the wrap-around arithmetic of     *)
(* add_message()/flush_message() implement the output stream of          *)
(* OutputStream: bytes reach the kernel in the order they were added,     *)
(* each once, CR before every LF, never more than MESSAGE_BUF_SIZE queued,*)
(* a message cut only when the buffer is full or a write failed.         *)
OutputStreamRefined == OS!Spec

(* spec.md 4.3/8: an append either completes (flushing transparently) or *)
(* the connection is reported dead.  add_message() instead drops the rest *)
(* of the text when the buffer is full and send() would block.            *)
NoSilentTruncation ==
  ~ip.net_dead => peer \o kernel \o RingContents = requested

(* spec.md 4.3: the abort-output reply IAC DM is the urgent data.  The   *)
(* MSG_OOB flag of flush_message() marks the last byte of whatever the    *)
(* first send() writes.                                                   *)
UrgentByteIsDataMark == \A k \in 1 .. Len(urgent) : urgent[k] = "DM"
=============================================================================
