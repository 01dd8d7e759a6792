-------------------------- MODULE CommandScheduler --------------------------
(***************************************************************************)
(* The per-connection input line buffer and the round-robin command       *)
(* scheduler of src/src/comm.c: get_user_data() on a Telnet port appends   *)
(* the text of a read to ip->text (with the text_space compaction and      *)
(* reset), get_user_command() rotates NextCmdGiver over all_users[] and    *)
(* takes one command with first_cmd_in_buf(), telnet_neg() and             *)
(* next_cmd_in_buf(); the CMD_IN_BUF flag, set by get_user_data() when     *)
(* cmd_in_buf() holds, keeps a user out of the read mask until its         *)
(* commands are consumed.  set_call() (input_to/get_char) may switch a     *)
(* user to single-character mode; call_function_interactive() switches it  *)
(* back when the command is handed to the input_to function.               *)
(*                                                                         *)
(* ip->text is a sequence: text[k] is the byte at offset k - 1 and its     *)
(* length is text_end; the NUL get_user_data() writes at text[text_end] is *)
(* implicit.  The Telnet state machine is in TelnetCodec; the keys here    *)
(* are plain data bytes, which copy_chars() copies or translates.          *)
(***************************************************************************)
EXTENDS Naturals, Sequences, SequencesExt, FiniteSets

CONSTANTS
  MAX_TEXT,      \* size of ip->text
  Slots,         \* the slots all_users[] may grow to
  GROW,          \* slots new_user_handler() adds when all are taken
  Chunks,        \* sequences of keys one read may return
  SetCallModes,  \* I_SINGLE_CHAR values the objects pass to set_call()
  MaxKeys,       \* bound on the keys one connection types
  MaxConnects    \* bound on accepted connections

ASSUME MAX_TEXT \in Nat /\ MAX_TEXT >= 16
ASSUME Slots = 0 .. Cardinality(Slots) - 1 /\ GROW \in Nat \ {0}

\* Keys are "a", "b" (text) and "LF"; bytes of ip->text add the erase
\* trick " \b\0" of copy_chars(), written "sp", "bs" and "NUL".
NUL == "NUL"

VARIABLES
  maxUsers, \* max_users
  users,    \* all_users[i]: on, text, start, cmdInBuf, sc (SINGLE_CHAR), inputTo
  next,     \* NextCmdGiver
  lines,    \* reference: complete lines typed and not yet served
  partial,  \* reference: keys typed since the last LF
  everSC,   \* the connection has been in single-character mode
  last,     \* the last command served and the line it was typed as
  waited,   \* waited[u][v]: commands of v served while u's CMD_IN_BUF was set
  served,   \* number of commands served to the connection in the slot
  keys,     \* keys typed by the connection in the slot
  conns     \* connections accepted

vars == <<maxUsers, users, next, lines, partial, everSC, last, waited, served, keys, conns>>

Free == [on |-> FALSE, text |-> <<>>, start |-> 0, cmdInBuf |-> FALSE,
         sc |-> FALSE, inputTo |-> FALSE]

(***************************************************************************)
(* copy_chars(), TS_DATA: CR is dropped (never typed here), LF becomes     *)
(* " \b\0" in line mode and stays LF in single-character mode.             *)
(***************************************************************************)
Expand(ks, sc) ==
  FlattenSeq([i \in 1 .. Len(ks) |->
                IF ks[i] = "LF" /\ ~sc THEN <<"sp", "bs", NUL>> ELSE <<ks[i]>>])

\* Offset of the first byte at or after offset p that is (not) NUL, or end.
FirstFrom(t, p, isNul) ==
  LET hits == {k \in p .. Len(t) - 1 : (t[k + 1] = NUL) = isNul}
  IN IF hits = {} THEN Len(t) ELSE Min(hits)

SkipNuls(t, p) == FirstFrom(t, p, FALSE)
EndOfCmd(t, p) == FirstFrom(t, p, TRUE)

\* The bytes of a command at offset p, up to its NUL or the end.
CmdAt(t, p) == SubSeq(t, p + 1, EndOfCmd(t, p))

(***************************************************************************)
(* cmd_in_buf(): is there a complete command?                             *)
(***************************************************************************)
cmd_in_buf(ip) ==
  LET p == SkipNuls(ip.text, ip.start) IN
  /\ p < Len(ip.text)
  /\ ip.sc \/ EndOfCmd(ip.text, p) < Len(ip.text)

(***************************************************************************)
(* first_cmd_in_buf(): the connection after the call and the command      *)
(* found, or <<>> for none.                                                *)
(***************************************************************************)
first_cmd_in_buf(ip) ==
  LET t == ip.text
      p == SkipNuls(t, ip.start)
  IN IF p >= Len(t) THEN [ip |-> [ip EXCEPT !.text = <<>>, !.start = 0], cmd |-> <<>>]
     ELSE IF ip.sc \/ EndOfCmd(t, p) < Len(t)
     THEN [ip |-> [ip EXCEPT !.start = p], cmd |-> <<CmdAt(t, p)>>]
     ELSE LET moved == SubSeq(t, p + 1, Len(t)) IN
          IF Len(moved) > MAX_TEXT - 2
          THEN LET cut == SubSeq(moved, 1, Len(moved) - 2) \o <<NUL>>
               IN [ip |-> [ip EXCEPT !.text = cut, !.start = 0], cmd |-> <<CmdAt(cut, 0)>>]
          ELSE [ip |-> [ip EXCEPT !.text = moved, !.start = 0], cmd |-> <<>>]

\* Mutant: the buffer is emptied without resetting text_start.
NextCmdNoStartReset(ip) ==
  LET p == SkipNuls(ip.text, EndOfCmd(ip.text, ip.start)) IN
  IF p < Len(ip.text) THEN [ip EXCEPT !.start = p] ELSE [ip EXCEPT !.text = <<>>]

\* Mutant: the cursor moves one byte past the start of the next command.
NextCmdSkipOne(ip) ==
  LET p == SkipNuls(ip.text, EndOfCmd(ip.text, ip.start)) IN
  IF p < Len(ip.text) THEN [ip EXCEPT !.start = p + 1]
  ELSE [ip EXCEPT !.text = <<>>, !.start = 0]

\* next_cmd_in_buf(): skip the command and the NULs after it, or clear.
next_cmd_in_buf(ip) ==
  LET p == SkipNuls(ip.text, EndOfCmd(ip.text, ip.start)) IN
  IF p < Len(ip.text) THEN [ip EXCEPT !.start = p]
  ELSE [ip EXCEPT !.text = <<>>, !.start = 0]

\* telnet_neg(): backspace (and DEL) removes the previous byte, if any.
telnet_neg(cmd) ==
  FoldLeft(LAMBDA acc, c : IF c = "bs" THEN SubSeq(acc, 1, Len(acc) - 1)
                           ELSE Append(acc, c),
           <<>>, cmd)

(***************************************************************************)
(* get_user_command(): the loop over max_users slots from NextCmdGiver     *)
(* downwards.  A user whose CMD_IN_BUF is set but has no command loses the *)
(* flag.  The result has the new users, the cursor, the slot served (-1    *)
(* for none) and the command.                                              *)
(***************************************************************************)
\* Mutant: the cursor wraps to slot 0 instead of max_users - 1.
DecWrapZero(g) == IF g = 0 THEN 0 ELSE g - 1

\* IncCmdGiver: NextCmdGiver-- with wrap-around at max_users.
Dec(g) == IF g = 0 THEN maxUsers - 1 ELSE g - 1

RECURSIVE Scan(_, _, _)
\* One iteration for a user with CMD_IN_BUF, given what first_cmd_in_buf()
\* returned.
ScanFlagged(us, g, i, r) ==
  IF r.cmd # <<>>
  THEN [users |-> [us EXCEPT ![g] = r.ip], next |-> g, who |-> g, cmd |-> r.cmd[1]]
  ELSE Scan([us EXCEPT ![g] = [r.ip EXCEPT !.cmdInBuf = FALSE]], Dec(g), i + 1)

Scan(us, g, i) ==
  IF i = maxUsers THEN [users |-> us, next |-> g, who |-> -1, cmd |-> <<>>]
  ELSE IF us[g].on /\ us[g].cmdInBuf
  THEN ScanFlagged(us, g, i, first_cmd_in_buf(us[g]))
  ELSE Scan(us, Dec(g), i + 1)

\* Mutant: the cursor stays on the user just served.
TakeCommandStay(r) ==
  LET ip == next_cmd_in_buf(r.users[r.who])
  IN [r EXCEPT !.users[r.who] = [ip EXCEPT !.cmdInBuf = cmd_in_buf(ip)]]

\* After a command is found: advance the buffer, keep CMD_IN_BUF only if
\* another command is complete, and move the cursor past the user.
TakeCommand(r) ==
  LET ip == next_cmd_in_buf(r.users[r.who])
  IN [r EXCEPT !.users[r.who] = [ip EXCEPT !.cmdInBuf = cmd_in_buf(ip)],
               !.next = Dec(r.next)]

get_user_command ==
  LET r == Scan(users, next, 0) IN
  IF r.who = -1 THEN r ELSE TakeCommand(r)

Init ==
  /\ maxUsers = 0
  /\ users = [u \in Slots |-> Free]
  /\ next = 0
  /\ lines = [u \in Slots |-> <<>>]
  /\ partial = [u \in Slots |-> <<>>]
  /\ everSC = [u \in Slots |-> FALSE]
  /\ last = [u \in Slots |-> [cmd |-> <<>>, line |-> <<>>]]
  /\ waited = [u \in Slots |-> [v \in Slots |-> 0]]
  /\ served = [u \in Slots |-> 0]
  /\ keys = [u \in Slots |-> 0]
  /\ conns = 0

(***************************************************************************)
(* Actions.                                                               *)
(***************************************************************************)
\* new_user_handler(): take the first free slot, growing all_users[] by
\* GROW slots when none is free; the connection starts with an empty
\* buffer and no flags.
new_user_handler ==
  LET free == {i \in 0 .. maxUsers - 1 : ~users[i].on}
      grow == free = {}
      u    == IF grow THEN maxUsers ELSE Min(free)
  IN /\ conns < MaxConnects
     /\ grow => maxUsers + GROW <= Cardinality(Slots)
     /\ conns' = conns + 1
     /\ maxUsers' = IF grow THEN maxUsers + GROW ELSE maxUsers
     /\ users' = [users EXCEPT ![u] = [Free EXCEPT !.on = TRUE]]
     /\ lines' = [lines EXCEPT ![u] = <<>>]
     /\ partial' = [partial EXCEPT ![u] = <<>>]
     /\ everSC' = [everSC EXCEPT ![u] = FALSE]
     /\ last' = [last EXCEPT ![u] = [cmd |-> <<>>, line |-> <<>>]]
     /\ waited' = [v \in Slots |-> [w \in Slots |->
                     IF v = u \/ w = u THEN 0 ELSE waited[v][w]]]
     /\ served' = [served EXCEPT ![u] = 0]
     /\ keys' = [keys EXCEPT ![u] = 0]
     /\ UNCHANGED next

\* remove_interactive(), from get_user_data() when the read returns 0 or
\* fails: the slot is freed.
remove_interactive(u) ==
  /\ users[u].on
  /\ users' = [users EXCEPT ![u] = Free]
  /\ UNCHANGED <<maxUsers, next, lines, partial, everSC, last, waited, served, keys, conns>>

\* Mutant: the reset's test is <= instead of <, discarding a partial
\* command that still fits.
CompactResetEarly(ip) ==
  LET l == Len(ip.text) - ip.start
      moved == SubSeq(ip.text, ip.start + 1, Len(ip.text))
  IN IF (MAX_TEXT - l - 1) \div 3 <= MAX_TEXT \div 16
     THEN [ip EXCEPT !.text = <<>>, !.start = 0]
     ELSE [ip EXCEPT !.text = moved, !.start = 0]

\* get_user_data(), the text_space test: compact, and reset when even
\* the compacted partial command leaves too little room.
Compact(ip) ==
  LET l == Len(ip.text) - ip.start
      moved == SubSeq(ip.text, ip.start + 1, Len(ip.text))
  IN IF (MAX_TEXT - l - 1) \div 3 < MAX_TEXT \div 16
     THEN [ip EXCEPT !.text = <<>>, !.start = 0]
     ELSE [ip EXCEPT !.text = moved, !.start = 0]

\* The reference: the complete lines of a key sequence, and the rest.
LFs(t) == {i \in 1 .. Len(t) : t[i] = "LF"}
SplitLines(t) ==
  LET ends == SetToSortSeq(LFs(t), <)
  IN [j \in 1 .. Len(ends) |-> SubSeq(t, IF j = 1 THEN 1 ELSE ends[j - 1] + 1, ends[j] - 1)]
LastLine(t) == SubSeq(t, IF LFs(t) = {} THEN 1 ELSE Max(LFs(t)) + 1, Len(t))

\* Mutant: text_space without the division by 3 for the erase trick.
TextSpaceNoThird(ip) == MAX_TEXT - Len(ip.text) - 1

TextSpace(ip) == (MAX_TEXT - Len(ip.text) - 1) \div 3

\* The reference's reading of spec.md 4.4: the buffer is close to full
\* with no terminator, and even the unterminated keys alone, moved to
\* offset 0, would leave too little room; they are then discarded.
Discards(u) ==
  /\ TextSpace(users[u]) < MAX_TEXT \div 16
  /\ (MAX_TEXT - Len(partial[u]) - 1) \div 3 < MAX_TEXT \div 16

\* get_user_data() on a Telnet port, for a user in the read mask (not
\* CMD_IN_BUF): the read returns a chunk of at most text_space keys,
\* copy_chars() appends its text and CMD_IN_BUF is set if cmd_in_buf().
get_user_data(u) ==
  LET ip0 == users[u]
      ip1 == IF TextSpace(ip0) < MAX_TEXT \div 16 THEN Compact(ip0) ELSE ip0
  IN /\ ip0.on /\ ~ip0.cmdInBuf
     /\ \E ch \in Chunks :
          LET ip2   == [ip1 EXCEPT !.text = @ \o Expand(ch, ip1.sc)]
              typed == (IF Discards(u) THEN <<>> ELSE partial[u]) \o ch
          IN /\ Len(ch) <= TextSpace(ip1)
             /\ keys[u] + Len(ch) <= MaxKeys
             /\ keys' = [keys EXCEPT ![u] = @ + Len(ch)]
             /\ users' = [users EXCEPT ![u] = [ip2 EXCEPT !.cmdInBuf = cmd_in_buf(ip2)]]
             /\ waited' = IF cmd_in_buf(ip2) THEN [waited EXCEPT ![u] = [v \in Slots |-> 0]]
                           ELSE waited
             /\ lines' = [lines EXCEPT ![u] = @ \o SplitLines(typed)]
             /\ partial' = [partial EXCEPT ![u] = LastLine(typed)]
  /\ UNCHANGED <<maxUsers, next, everSC, last, served, conns>>

\* set_call() for input_to()/get_char(): only when no input_to is pending;
\* I_SINGLE_CHAR switches the user to single-character mode.
set_call(u, single) ==
  /\ users[u].on /\ ~users[u].inputTo
  /\ users' = [users EXCEPT ![u].inputTo = TRUE, ![u].sc = @ \/ single]
  /\ everSC' = [everSC EXCEPT ![u] = @ \/ single]
  /\ UNCHANGED <<maxUsers, next, lines, partial, last, waited, served, keys, conns>>

\* call_function_interactive(): a pending input_to takes the command and
\* single-character mode ends; otherwise the parser takes it.
Dispatch(ip) == IF ip.inputTo THEN [ip EXCEPT !.inputTo = FALSE, !.sc = FALSE] ELSE ip

\* process_user_command(): get_user_command(), then hand the command to
\* the input_to function or the parser.
process_user_command ==
  \E r \in {get_user_command} :
  LET v == r.who
  IN /\ next' = r.next
     /\ IF v = -1
        THEN /\ users' = r.users
             /\ UNCHANGED <<lines, last, waited, served>>
        ELSE /\ users' = [r.users EXCEPT ![v] = Dispatch(@)]
             /\ served' = [served EXCEPT ![v] = @ + 1]
             /\ waited' = [u \in Slots |-> IF u = v THEN [w \in Slots |-> 0]
                             ELSE IF users[u].on /\ users[u].cmdInBuf
                             THEN [waited[u] EXCEPT ![v] = @ + 1] ELSE waited[u]]
             /\ IF everSC[v] THEN UNCHANGED <<lines, last>>
                ELSE /\ last' = [last EXCEPT ![v] =
                           [cmd |-> telnet_neg(r.cmd),
                            line |-> IF lines[v] = <<>> THEN <<"none">> ELSE Head(lines[v])]]
                     /\ lines' = [lines EXCEPT ![v] = Tail(@)]
  /\ UNCHANGED <<maxUsers, partial, everSC, keys, conns>>

Next ==
  \/ new_user_handler
  \/ \E u \in Slots : get_user_data(u) \/ remove_interactive(u)
  \/ \E u \in Slots, single \in SetCallModes : set_call(u, single)
  \/ process_user_command

\* ENABLED <<process_user_command>>_vars, computed directly: the action is
\* deterministic, and its step changes the state exactly when a command is
\* served or the scan changed a buffer, a flag or the cursor.
Changes == LET r == get_user_command
           IN r.who # -1 \/ r.users # users \/ r.next # next

\* The backend() loop calls process_user_command() on every iteration:
\* weak fairness of it.
Fairness == []<>~Changes \/ []<><<process_user_command>>_vars

Spec == Init /\ [][Next]_vars /\ Fairness

(***************************************************************************)
(* Properties.                                                            *)
(***************************************************************************)
Bytes == {"a", "b", "LF", "sp", "bs", NUL}

TypeOK ==
  /\ maxUsers \in 0 .. Cardinality(Slots)
  /\ next \in 0 .. Cardinality(Slots)
  /\ \A u \in Slots :
       /\ users[u].text \in Seq(Bytes) /\ Len(users[u].text) < MAX_TEXT
       /\ users[u].start \in 0 .. Len(users[u].text)
       /\ {users[u].on, users[u].cmdInBuf, users[u].sc, users[u].inputTo} \subseteq BOOLEAN
       /\ u >= maxUsers => ~users[u].on

(* spec.md 4.4: strict round robin.  While a user's CMD_IN_BUF flag stays *)
(* set, get_user_command() serves no other connection twice: the cursor   *)
(* NextCmdGiver moves past each user it serves and every user it passes   *)
(* with a command is served, whatever connects, grows all_users[] or      *)
(* reads in between.                                                      *)
RoundRobin ==
  \A u, v \in Slots : users[u].on /\ users[u].cmdInBuf => waited[u][v] <= 1

\* Complete commands buffered from the start cursor: one NUL each.
Pending(ip) == Cardinality({i \in ip.start + 1 .. Len(ip.text) : ip.text[i] = NUL})

(* spec.md 4.4 and 5: the scheduler never reorders, loses, cuts or       *)
(* invents the commands of a line-mode connection.  Every complete line   *)
(* typed is either served or buffered as one NUL-terminated command, and  *)
(* the command served last, after telnet_neg() has resolved the erase     *)
(* trick, is exactly the line typed: the keys since the previous LF, or   *)
(* since get_user_data() discarded an over-long unterminated line.         *)
CommandsAsTyped ==
  \A u \in Slots : users[u].on /\ ~everSC[u] =>
     /\ last[u].cmd = last[u].line
     /\ Len(lines[u]) = Pending(users[u])

(* A user whose CMD_IN_BUF flag is set with a command in its buffer is    *)
(* served, or disconnected, eventually: backend() keeps calling           *)
(* process_user_command() and the cursor reaches every slot.              *)
CommandFlagServed ==
  \A u \in Slots, n \in 0 .. MaxKeys :
    (users[u].on /\ users[u].cmdInBuf /\ cmd_in_buf(users[u]) /\ served[u] = n)
      ~> (served[u] > n \/ ~users[u].on)

(* spec.md 4.4: in single-character mode any buffered byte is a ready     *)
(* command, so it is served eventually.  set_call() turns the mode on     *)
(* without setting CMD_IN_BUF, and get_user_command() looks only at the   *)
(* flag.                                                                   *)
ReadyServed ==
  \A u \in Slots, n \in 0 .. MaxKeys :
    (users[u].on /\ cmd_in_buf(users[u]) /\ served[u] = n)
      ~> (served[u] > n \/ ~users[u].on)
=============================================================================
