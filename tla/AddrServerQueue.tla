--------------------------- MODULE AddrServerQueue ---------------------------
(***************************************************************************)
(* The address server's main loop and event queue (src/src/addr_server.c) *)
(* with several clients.  Each pass of main() builds the read mask from   *)
(* conn_fd and the CONN_OPEN slots, selects, and aserv_process_io()       *)
(* enqueues a NEW_CONN event if conn_fd is readable and a CONN event for   *)
(* every slot whose fd is readable; process_queue() then handles at most  *)
(* MAX_EVENTS_TO_PROCESS events.  Queue elements come from a free-list    *)
(* stack and are malloc()ed when it is empty.                             *)
(*                                                                         *)
(* A client connection is an element of Conns, used once.  What the       *)
(* decoder does with the bytes (AddrServerDecoder) is left out: a read    *)
(* takes all the bytes a connection has sent.  Sockets that accept()      *)
(* returns are left blocking, so reading one with nothing to read and no  *)
(* EOF blocks the whole server: ProcessTop is then not enabled.           *)
(***************************************************************************)
EXTENDS Integers, Sequences, FiniteSets

CONSTANTS
  Conns,                  \* client connections, each made at most once
  MAX_CONNS,              \* size of all_conns[]
  MAX_EVENTS_TO_PROCESS,  \* batch limit of process_queue()
  ConnFd,                 \* the listening socket's fd
  FirstFd,                \* the lowest fd accept() can return
  MaxData,                \* bound on the writes of one connection
  NoFd

Slots == 0 .. MAX_CONNS - 1
Fds == FirstFd .. FirstFd + MAX_CONNS

VARIABLES
  cst,          \* the client's side: "idle", "conn", or "hup" after close()
  data,         \* writes of the client the server has not read
  sent,         \* writes of the client so far
  backlog,      \* connections waiting in listen()'s queue
  fd,           \* the server's fd of an accepted connection
  sclosed,      \* connections whose fd the server has closed
  all_conns,    \* [fd, open] per slot; state CONN_OPEN is open
  total_conns,
  queue,        \* queue_head .. queue_tail, as [type, fd] records
  stack,        \* elements on the free-list stack
  mallocs,      \* elements malloc()ed so far
  phase,        \* "poll" before select(), "process" in process_queue()
  handled       \* the loop counter i of process_queue()

vars == <<cst, data, sent, backlog, fd, sclosed, all_conns, total_conns,
          queue, stack, mallocs, phase, handled>>

\* all_conns[] is static and init_conns() is called only on the Amiga, so
\* every slot starts as zeroes: fd 0 and (CONN_CLOSED being 0) closed.
Init ==
  /\ cst = [k \in Conns |-> "idle"]
  /\ data = [k \in Conns |-> 0]
  /\ sent = [k \in Conns |-> 0]
  /\ backlog = <<>>
  /\ fd = [k \in Conns |-> NoFd]
  /\ sclosed = {}
  /\ all_conns = [i \in Slots |-> [fd |-> 0, open |-> FALSE]]
  /\ total_conns = 0
  /\ queue = <<>>
  /\ stack = 0
  /\ mallocs = 0
  /\ phase = "poll"
  /\ handled = 0

(***************************************************************************)
(* Sockets.                                                               *)
(***************************************************************************)
\* The connections whose fd is open in the server.
Live == {k \in Conns : fd[k] # NoFd /\ k \notin sclosed}

\* The connection an open fd belongs to.
Owner(f) == CHOOSE k \in Live : fd[k] = f

\* Readable for select(): bytes to read, or the peer's EOF.
Readable(f) ==
  IF f = ConnFd THEN backlog # <<>>
  ELSE \E k \in Live : fd[k] = f /\ (data[k] > 0 \/ cst[k] = "hup")

\* accept() returns the lowest fd not open in the process.
LowestFreeFd ==
  CHOOSE f \in Fds : /\ \A k \in Live : fd[k] # f
                     /\ \A g \in FirstFd .. f - 1 : \E k \in Live : fd[k] = g

(***************************************************************************)
(* The queue and its free-list.                                           *)
(***************************************************************************)
\* n calls of pop_queue_element(): from the stack while it lasts, then
\* malloc().
Pop(n) ==
  /\ stack' = IF n <= stack THEN stack - n ELSE 0
  /\ mallocs' = IF n <= stack THEN mallocs ELSE mallocs + n - stack

\* dequeue_top_event() pushes the element back on the stack.
Push(s) == s + 1

\* enqueue_datapending() of each event in turn: a pop_queue_element() and
\* a link at queue_tail.
enqueue_datapending(ev) ==
  /\ queue' = queue \o ev
  /\ Pop(Len(ev))

\* dequeue_top_event(): unlink queue_head and push it on the stack.
dequeue_top_event ==
  /\ queue' = Tail(queue)
  /\ stack' = Push(stack)

\* Mutant: the for loop of aserv_process_io() stops one slot early.
ScanSlotsShort == [n \in 1 .. MAX_CONNS - 1 |-> n - 1]

\* for (i = 0; i < MAX_CONNS; i++), in order.
ScanSlots == [n \in 1 .. MAX_CONNS |-> n - 1]

\* aserv_process_io() after select(): conn_fd first, then every slot whose
\* fd is in the read mask and readable.  FD_ISSET is applied to the fd of
\* every slot, closed ones included; the read mask holds conn_fd and the
\* fds of open slots.
PollEvents ==
  LET mask     == {ConnFd} \cup {all_conns[i].fd : i \in {j \in Slots : all_conns[j].open}}
      isset(f) == f \in mask /\ Readable(f)
      conns    == SelectSeq(ScanSlots, LAMBDA i : isset(all_conns[i].fd))
  IN (IF isset(ConnFd) THEN <<[type |-> "NEW_CONN", fd |-> ConnFd]>> ELSE <<>>)
     \o [n \in 1 .. Len(conns) |-> [type |-> "CONN", fd |-> all_conns[conns[n]].fd]]

\* One pass of main()'s loop up to process_queue(): build the mask,
\* select() and enqueue_datapending() each event found.
Poll ==
  /\ phase = "poll"
  /\ enqueue_datapending(PollEvents)
  /\ phase' = "process"
  /\ handled' = 0
  /\ UNCHANGED <<cst, data, sent, backlog, fd, sclosed, all_conns, total_conns>>

(***************************************************************************)
(* The handlers.                                                          *)
(***************************************************************************)
\* index_by_fd(): the first open slot with fd f, or -1.
index_by_fd(f) ==
  IF \E i \in Slots : all_conns[i].open /\ all_conns[i].fd = f
  THEN CHOOSE i \in Slots : all_conns[i].open /\ all_conns[i].fd = f
                            /\ \A j \in 0 .. i - 1 : ~(all_conns[j].open /\ all_conns[j].fd = f)
  ELSE -1

\* Mutant: new_conn_handler() takes slot total_conns, as if slots were
\* freed in order.
SlotByCount == total_conns

\* The first CONN_CLOSED slot.
FirstClosedSlot == CHOOSE i \in Slots : ~all_conns[i].open /\ \A j \in 0 .. i - 1 : all_conns[j].open

\* new_conn_handler(): accept() the first waiting connection (none: the
\* non-blocking listening socket gives EWOULDBLOCK); when total_conns has
\* reached MAX_CONNS write the message and close it, else put it into the
\* first closed slot.
new_conn_handler ==
  IF backlog = <<>> THEN UNCHANGED <<backlog, fd, sclosed, all_conns, total_conns>>
  ELSE LET k == Head(backlog)
           f == LowestFreeFd
       IN /\ backlog' = Tail(backlog)
          /\ fd' = [fd EXCEPT ![k] = f]
          /\ IF total_conns >= MAX_CONNS
             THEN /\ sclosed' = sclosed \cup {k}
                  /\ UNCHANGED <<all_conns, total_conns>>
             ELSE /\ all_conns' = [all_conns EXCEPT ![FirstClosedSlot] = [fd |-> f, open |-> TRUE]]
                  /\ total_conns' = total_conns + 1
                  /\ UNCHANGED sclosed

\* Mutant: terminate() does not count the connection down.
TerminateKeepCount(i) ==
  /\ sclosed' = sclosed \cup {Owner(all_conns[i].fd)}
  /\ all_conns' = [all_conns EXCEPT ![i].open = FALSE]
  /\ UNCHANGED total_conns

\* terminate(i): close the fd and mark the slot closed; the slot keeps
\* the fd's number.
terminate(i) ==
  /\ sclosed' = sclosed \cup {Owner(all_conns[i].fd)}
  /\ all_conns' = [all_conns EXCEPT ![i].open = FALSE]
  /\ total_conns' = total_conns - 1

\* The read of conn_data_handler(fd): it takes what was sent, or 0 at
\* EOF, which terminate()s; with neither the blocking read() waits, and
\* this is not enabled.
conn_data_handler(f) ==
  LET i == index_by_fd(f) IN
  IF i = -1 THEN UNCHANGED <<data, sclosed, all_conns, total_conns>>
  ELSE LET k == Owner(f) IN
       \/ /\ data[k] > 0
          /\ data' = [data EXCEPT ![k] = 0]
          /\ UNCHANGED <<sclosed, all_conns, total_conns>>
       \/ /\ data[k] = 0 /\ cst[k] = "hup"
          /\ terminate(i)
          /\ UNCHANGED data

\* Mutant: process_queue() stops one event early.
BatchLimitShort(h) == h < MAX_EVENTS_TO_PROCESS - 1

\* i < MAX_EVENTS_TO_PROCESS
BatchLimit(h) == h < MAX_EVENTS_TO_PROCESS

\* handle_top_event(): the handler of the event's type.
handle_top_event(e) ==
  IF e.type = "NEW_CONN"
  THEN new_conn_handler /\ UNCHANGED data
  ELSE conn_data_handler(e.fd) /\ UNCHANGED <<backlog, fd>>

\* One iteration of process_queue(): handle_top_event(), then
\* dequeue_top_event().
ProcessTop ==
  /\ phase = "process"
  /\ queue # <<>>
  /\ BatchLimit(handled)
  /\ handle_top_event(Head(queue))
  /\ dequeue_top_event
  /\ handled' = handled + 1
  /\ UNCHANGED <<cst, sent, mallocs, phase>>

\* process_queue() returns: the queue is empty or the batch is done.
EndBatch ==
  /\ phase = "process"
  /\ queue = <<>> \/ ~BatchLimit(handled)
  /\ phase' = "poll"
  /\ UNCHANGED <<cst, data, sent, backlog, fd, sclosed, all_conns, total_conns,
                 queue, stack, mallocs, handled>>

(***************************************************************************)
(* Clients.                                                               *)
(***************************************************************************)
\* connect(): the connection waits in the listen queue.
Connect(k) ==
  /\ cst[k] = "idle"
  /\ cst' = [cst EXCEPT ![k] = "conn"]
  /\ backlog' = Append(backlog, k)
  /\ UNCHANGED <<data, sent, fd, sclosed, all_conns, total_conns, queue, stack,
                 mallocs, phase, handled>>

\* A write of a request (a driver's query_addr_number()).
Send(k) ==
  /\ cst[k] = "conn"
  /\ sent[k] < MaxData
  /\ sent' = [sent EXCEPT ![k] = @ + 1]
  /\ data' = [data EXCEPT ![k] = @ + 1]
  /\ UNCHANGED <<cst, backlog, fd, sclosed, all_conns, total_conns, queue, stack,
                 mallocs, phase, handled>>

\* close() by the client.
Hangup(k) ==
  /\ cst[k] = "conn"
  /\ cst' = [cst EXCEPT ![k] = "hup"]
  /\ UNCHANGED <<data, sent, backlog, fd, sclosed, all_conns, total_conns, queue,
                 stack, mallocs, phase, handled>>

Server == Poll \/ ProcessTop \/ EndBatch

Next ==
  \/ Server
  \/ \E k \in Conns : Connect(k) \/ Send(k) \/ Hangup(k)

\* main() loops for ever, select() returning at the latest after its
\* two-second timeout; the clients get no fairness.
Spec == Init /\ [][Next]_vars /\ WF_vars(Server)

(***************************************************************************)
(* Properties.                                                            *)
(***************************************************************************)
\* Types; total_conns counts the open slots, and every element is on the
\* queue or on the free-list stack.
TypeOK ==
  /\ cst \in [Conns -> {"idle", "conn", "hup"}]
  /\ data \in [Conns -> 0 .. MaxData]
  /\ fd \in [Conns -> Fds \cup {NoFd}]
  /\ all_conns \in [Slots -> [fd : Fds \cup {0}, open : BOOLEAN]]
  /\ total_conns = Cardinality({i \in Slots : all_conns[i].open})
  /\ queue \in Seq([type : {"NEW_CONN", "CONN"}, fd : Fds \cup {ConnFd, 0}])
  /\ mallocs = stack + Len(queue)
  /\ handled \in 0 .. MAX_EVENTS_TO_PROCESS

(* aserv_process_io() tests FD_ISSET on the fd of closed slots too.  That *)
(* is harmless only while a closed slot's old fd is never the fd of an    *)
(* open slot: accept() returns the lowest free fd and new_conn_handler()  *)
(* takes the lowest closed slot, and this must keep the two in step.      *)
StaleFdNotLive ==
  \A i, j \in Slots : ~all_conns[i].open /\ all_conns[j].open
                        => all_conns[i].fd # all_conns[j].fd

\* The server is inside read() on a connection with nothing to read and
\* no EOF: an accepted socket blocks, and the whole server waits.
Blocked ==
  /\ phase = "process"
  /\ queue # <<>>
  /\ BatchLimit(handled)
  /\ Head(queue).type = "CONN"
  /\ index_by_fd(Head(queue).fd) # -1
  /\ LET k == Owner(Head(queue).fd) IN data[k] = 0 /\ cst[k] = "conn"

(* spec.md 5: no operation blocks indefinitely, every socket being        *)
(* non-blocking.  new_conn_handler() never makes an accepted socket       *)
(* non-blocking, so this rests on conn_data_handler() being called only   *)
(* for a connection select() reported readable and nobody read since.     *)
NeverBlocks == ~Blocked

(* Every write of a client is eventually read by the server, unless the  *)
(* server has closed the connection (full table, or EOF): main() keeps    *)
(* selecting and the queue keeps being drained.                           *)
RequestsRead ==
  \A k \in Conns : (data[k] > 0) ~> (data[k] = 0 \/ k \in sclosed)
=============================================================================
