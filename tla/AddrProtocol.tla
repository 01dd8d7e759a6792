---------------------------- MODULE AddrProtocol ----------------------------
(***************************************************************************)
(* The driver's side of the address-resolution protocol, composed with    *)
(* the address server's decoder (AddrServerDecoder) over the one TCP      *)
(* connection the driver opens at startup.                                *)
(*                                                                         *)
(* Driver side (src/src/comm.c): query_addr_number() writes a request and *)
(* takes a slot of ipnumbertable; query_addr_name() writes the NAMEBYIP   *)
(* request of a logging-in user; hname_handler() reads reply lines from   *)
(* addr_server_fd and hands the first of them to got_addr_number(), which *)
(* sweeps the entries of destructed objects and calls back every entry    *)
(* whose query equals the reply's; add_ip_entry() caches resolved names.  *)
(*                                                                         *)
(* The requests the driver writes are the decoder's wire and sent; the   *)
(* replies the server writes are the decoder's replies, which the driver  *)
(* reads from position readPos on.  The server writes each reply line     *)
(* with one write(); a read of the driver returns whole lines, several of *)
(* them when CoalescedReads.                                              *)
(***************************************************************************)
EXTENDS Naturals, Sequences, FiniteSets

CONSTANTS
  W, IN_BUF_SIZE, DATALEN, NAMEBYIP, IPBYNAME, Resolvable, Digits,
  MaxRequests, SplitReads,   \* the decoder's constants
  Queries,        \* strings the mudlib asks query_addr_number() to resolve
  UserAddrs,      \* addresses of users whose login calls query_addr_name()
  ResolveTo,      \* the resolver's answer for each string of Resolvable
  QBUF,           \* size of query_addr_number()'s static buf (100)
  IPSIZE,         \* size of ipnumbertable and of iptable (200)
  Objects,        \* objects that call query_addr_number()
  NoObject, Undef,
  MaxQueries,     \* bound on calls of query_addr_number()
  CoalescedReads  \* may one read return several reply lines?

VARIABLES
  wire, conn, replies, sent,  \* the decoder's state (AddrServerDecoder)
  fdOpen,      \* addr_server_fd >= 0
  readPos,     \* reply lines the driver has read
  pending,     \* ipnumbertable: [name, ob] per slot, name <<>> when NULL
  iptable,     \* the cache: [addr, name] per slot
  ipcur,       \* the cache's next slot
  destructed,  \* objects with O_DESTRUCTED
  calls,       \* history: the callbacks made, as records
  queries      \* calls of query_addr_number() so far

vars == <<wire, conn, replies, sent, fdOpen, readPos, pending, iptable, ipcur,
          destructed, calls, queries>>

\* The driver is the decoder's only client: its writes replace the
\* decoder's own DriverWrites, so the decoder's Requests is not used.
D == INSTANCE AddrServerDecoder WITH Requests <- {}

Slots == 0 .. IPSIZE - 1
Free == [name |-> <<>>, ob |-> NoObject]
Zero == <<48>>   \* the string "0"

\* isdigit() and the hname_buf[0] >= '0' && <= '9' test.
IsDigit(b) == b \in Digits \cup {48}

\* The reply the server writes for decoder reply r: the query, then the
\* resolver's answer or "0".
Answer(r) == IF r.ok THEN ResolveTo[r.q] ELSE Zero

Init ==
  /\ D!Init
  /\ fdOpen = TRUE
  /\ readPos = 0
  /\ pending = [i \in Slots |-> Free]
  /\ iptable = [i \in Slots |-> [addr |-> <<>>, name |-> <<>>]]
  /\ ipcur = 0
  /\ destructed = {}
  /\ calls = {}
  /\ queries = 0

(***************************************************************************)
(* Driver side.                                                           *)
(***************************************************************************)
\* The request query_addr_number() and query_addr_name() frame for q.
Request(q) == [type |-> IF IsDigit(q[1]) THEN NAMEBYIP ELSE IPBYNAME, q |-> q]

\* OS_socket_write() of a request: into the connection while the server
\* holds it open; once the server has closed it, the write either fails
\* (ok FALSE) or is accepted and lost.
WriteRequest(q, ok) ==
  IF conn.open
  THEN ok /\ D!DriverWrites(Request(q))
  ELSE UNCHANGED <<wire, sent>>

\* The callback of a request that fails at once: (name, undefined).
FailNow(o, q) == [ob |-> o, id |-> 0, q |-> q, live |-> TRUE, name |-> q, number |-> Undef]

\* The first free slot of ipnumbertable, or IPSIZE.
FirstFreeEntry ==
  IF \E i \in Slots : pending[i] = Free
  THEN CHOOSE i \in Slots : pending[i] = Free /\ \A j \in 0 .. i - 1 : pending[j] # Free
  ELSE IPSIZE

\* query_addr_number(name, call_back) made by object o.
query_addr_number(o, q) ==
  /\ o \notin destructed
  /\ queries < MaxQueries
  /\ queries' = queries + 1
  /\ IF ~fdOpen \/ Len(q) >= QBUF - 3 * W
     THEN /\ calls' = calls \cup {FailNow(o, q)}
          /\ UNCHANGED <<wire, sent, pending>>
     ELSE \E ok \in BOOLEAN :
            /\ WriteRequest(q, ok)
            /\ IF ~ok \/ FirstFreeEntry = IPSIZE
               THEN /\ calls' = calls \cup {FailNow(o, q)}
                    /\ UNCHANGED pending
               ELSE /\ pending' = [pending EXCEPT ![FirstFreeEntry] = [name |-> q, ob |-> o]]
                    /\ UNCHANGED calls
  /\ UNCHANGED <<conn, replies, fdOpen, readPos, iptable, ipcur, destructed>>

\* query_addr_name(ob) at a user's login: a NAMEBYIP request for its
\* address, with no slot.  (EBADF, which would close addr_server_fd,
\* cannot happen on the descriptor the driver holds open.)
query_addr_name(a) ==
  /\ fdOpen
  /\ \E ok \in BOOLEAN : WriteRequest(a, ok)
  /\ UNCHANGED <<conn, replies, fdOpen, readPos, pending, iptable, ipcur,
                 destructed, calls, queries>>

Sweep(p) == [i \in Slots |-> IF p[i] # Free /\ p[i].ob \in destructed THEN Free ELSE p[i]]

\* Mutant: the swap for numeric queries is missing.
CallbackNoSwap(e, i, number) ==
  [ob |-> e.ob, id |-> i + 1, q |-> e.name, live |-> e.ob \notin destructed,
   name |-> IF e.name # Zero THEN e.name ELSE Undef,
   number |-> IF number # Zero THEN number ELSE Undef]

\* The callback of entry e in slot i for a reply carrying number: the
\* query and the answer, swapped when the query is numeric, "0" as
\* undefined; the number is tested on the reply's own answer.  Fields q
\* and live record the entry's query and whether its object was still
\* alive, for the properties.
Callback(e, i, number) ==
  LET swap      == IsDigit(e.name[1])
      theName   == IF swap THEN number ELSE e.name
      theNumber == IF swap THEN e.name ELSE number
  IN [ob |-> e.ob, id |-> i + 1, q |-> e.name, live |-> e.ob \notin destructed,
      name |-> IF theName # Zero THEN theName ELSE Undef,
      number |-> IF number # Zero THEN theNumber ELSE Undef]

\* strcmp(name, ipnumbertable[i].name) == 0 for a used entry.
Matches(e, number, name) == e # Free /\ e.name = name

\* got_addr_number(number, name): sweep, then call back and free every
\* entry whose query is name.  Returns the new table and the callbacks.
got_addr_number(number, name) ==
  LET p   == Sweep(pending)
      hit == {i \in Slots : Matches(p[i], number, name)}
  IN [pending |-> [i \in Slots |-> IF i \in hit THEN Free ELSE p[i]],
      calls   |-> {Callback(p[i], i, number) : i \in hit}]

\* Mutant: ipcur is not wrapped.
NextCurNoWrap(c) == c + 1

\* ipcur = (ipcur + 1) % IPSIZE
NextCur(c) == (c + 1) % IPSIZE

\* add_ip_entry(addr, name): nothing when addr is cached, else overwrite
\* the oldest slot.
add_ip_entry(addr, name) ==
  IF \E i \in Slots : iptable[i].addr = addr
  THEN UNCHANGED <<iptable, ipcur>>
  ELSE /\ iptable' = [iptable EXCEPT ![ipcur] = [addr |-> addr, name |-> name]]
       /\ ipcur' = NextCur(ipcur)

\* hname_handler(): a read of k reply lines, of which only the first is
\* parsed; a numeric reply for an address adds a resolved name to the
\* cache.  Once the server has closed, a read returns 0 after the last
\* reply, or fails at once (a reset, as the server closed with requests
\* unread); either closes addr_server_fd.
hname_handler ==
  /\ fdOpen
  /\ \/ /\ readPos < Len(replies)
        /\ \E k \in IF CoalescedReads THEN 1 .. Len(replies) - readPos ELSE {1} :
             LET r   == replies[readPos + 1]
                 ans == Answer(r)
                 \* a numeric reply is parsed only if inet_addr() takes it
                 parsed == ~IsDigit(r.q[1]) \/ D!IsAddress(r.q)
                 g   == got_addr_number(ans, r.q)
             IN /\ readPos' = readPos + k
                /\ pending' = IF parsed THEN g.pending ELSE pending
                /\ calls' = IF parsed THEN calls \cup g.calls ELSE calls
                /\ IF IsDigit(r.q[1]) /\ parsed /\ ans # Zero
                   THEN add_ip_entry(r.q, ans)
                   ELSE UNCHANGED <<iptable, ipcur>>
        /\ UNCHANGED fdOpen
     \/ /\ ~conn.open
        /\ readPos = Len(replies) \/ wire # <<>>
        /\ fdOpen' = FALSE
        /\ UNCHANGED <<readPos, pending, calls, iptable, ipcur>>
  /\ UNCHANGED <<wire, conn, replies, sent, destructed, queries>>

\* The mudlib destructs an object; its entries stay until the next reply.
destruct(o) ==
  /\ o \notin destructed
  /\ destructed' = destructed \cup {o}
  /\ UNCHANGED <<wire, conn, replies, sent, fdOpen, readPos, pending, iptable,
                 ipcur, calls, queries>>

\* The address server reads and answers, or closes a full connection.
Server ==
  /\ D!conn_data_handler \/ D!ReadNoRoom
  /\ UNCHANGED <<fdOpen, readPos, pending, iptable, ipcur, destructed, calls, queries>>

Next ==
  \/ \E o \in Objects, q \in Queries : query_addr_number(o, q)
  \/ \E a \in UserAddrs : query_addr_name(a)
  \/ hname_handler
  \/ \E o \in Objects : destruct(o)
  \/ Server

\* ENABLED <<Server>>_vars, worked out: with the connection open and bytes
\* on the wire, either the buffer is full (ReadNoRoom) or a read of at
\* least one byte is possible (conn_data_handler), and both change vars.
ServerEnabled == conn.open /\ wire # <<>>

\* The server's main loop selects every two seconds and reads a readable
\* connection; the driver's process_io() reads addr_server_fd whenever it
\* is readable.  Neither loop stops, so both are weakly fair.  The
\* server's fairness is WF_vars(Server) with its ENABLED written out, which
\* TLC would otherwise evaluate by re-running the decoder's loop.
Fairness ==
  /\ <>[]ServerEnabled => []<><<Server>>_vars
  /\ WF_vars(hname_handler)

Spec == Init /\ [][Next]_vars /\ Fairness

(***************************************************************************)
(* Properties.                                                            *)
(***************************************************************************)
TypeOK ==
  /\ D!TypeOK
  /\ fdOpen \in BOOLEAN
  /\ readPos \in 0 .. Len(replies)
  /\ pending \in [Slots -> {Free} \cup [name : Queries, ob : Objects]]
  /\ ipcur \in Slots
  /\ destructed \subseteq Objects
  /\ queries \in 0 .. MaxQueries

(* spec.md 4.5: a callback made for a pending request carries the answer *)
(* to that request's query: the host name and the address for a lookup  *)
(* that succeeded, undefined for the part the resolver did not find.     *)
(* Replies are matched to entries by string in got_addr_number(), which  *)
(* also swaps the two values for numeric queries.                        *)
CallbackAnswersQuery ==
  \A c \in calls : c.id # 0 =>
    IF c.q \in Resolvable
    THEN IF IsDigit(c.q[1]) THEN c.name = ResolveTo[c.q] /\ c.number = c.q
         ELSE c.name = c.q /\ c.number = ResolveTo[c.q]
    ELSE IF IsDigit(c.q[1]) THEN c.name = Undef
         ELSE c.name = c.q /\ c.number = Undef

PendingServed ==
  \A i \in Slots : (pending[i] # Free) ~> (pending[i] = Free \/ ~fdOpen)
=============================================================================
