----------------------------- MODULE TelnetCodec -----------------------------
(***************************************************************************)
(* The Telnet input state machine of one connection: copy_chars() of      *)
(* src/src/comm.c, called by get_user_data() on every chunk read from a   *)
(* PORT_TELNET socket.  Bytes are their numeric values.                   *)
(*                                                                         *)
(* The peer is a Telnet client that sends well-formed tokens (a data      *)
(* byte, an escaped IAC, an option negotiation, a command, a complete     *)
(* sub-negotiation); the tokens enter the TCP stream "wire", and each     *)
(* read takes any non-empty prefix of it, so every split of a token       *)
(* across reads happens.  Alongside, the model keeps what a decoder with  *)
(* the semantics of spec.md 4.2 produces for the same tokens: the text    *)
(* for the command buffer, the replies sent back and the notifications    *)
(* applied to the user object.                                            *)
(***************************************************************************)
EXTENDS Naturals, Sequences, SequencesExt

CONSTANTS
  SB_SIZE,      \* capacity of ip->sb_buf
  PeerTokens,   \* the tokens the peer may send
  MaxBytes,     \* bound on the number of bytes the peer sends
  ScratchBytes  \* what an uninitialised sb_buf cell may hold

ASSUME SB_SIZE \in Nat \ {0}

(* Telnet bytes (arpa/telnet.h). *)
IAC == 255
DONT == 254
DO == 253
WONT == 252
WILL == 251
SB == 250
AYT == 246
AO == 245
IP == 244
BRK == 243
DM == 242
NOP == 241
SE == 240
TELOPT_TM == 6
TELOPT_TTYPE == 24
TELOPT_NAWS == 31
TELQUAL_IS == 0
CR == 13
LF == 10
SentinelI == 73   \* 'I', stored in sb_buf in place of a zero byte

(* Codec states TS_DATA .. TS_SB_IAC. *)
States == {"DATA", "IAC", "WILL", "WONT", "DO", "DONT", "SB", "SB_IAC"}

VARIABLES
  wire,        \* bytes sent by the peer and not read yet
  codec,       \* state, sb_buf, sb_pos, USING_TELNET, and what copy_chars produced
  singleChar,  \* SINGLE_CHAR in ip->iflags (set by input_to, not by the codec)
  expected,    \* what the reference decoder produces for the tokens sent
  sent         \* bytes sent so far

vars == <<wire, codec, singleChar, expected, sent>>

(***************************************************************************)
(* The peer's tokens and their bytes.                                     *)
(***************************************************************************)
\* Inside a sub-negotiation an IAC data byte is doubled.
Escape(p) == FoldLeft(LAMBDA acc, b : IF b = IAC THEN acc \o <<IAC, IAC>>
                                                 ELSE Append(acc, b), <<>>, p)

\* Tokens are records with the same fields whatever their kind.
Tok(k, b, verb, opt, c, p) == [k |-> k, b |-> b, verb |-> verb, opt |-> opt, c |-> c, payload |-> p]
Data(b) == Tok("data", b, 0, 0, 0, <<>>)
Esc == Tok("esc", 0, 0, 0, 0, <<>>)
Neg(verb, opt) == Tok("neg", 0, verb, opt, 0, <<>>)
Cmd(c) == Tok("cmd", 0, 0, 0, c, <<>>)
Sub(opt, p) == Tok("sub", 0, 0, opt, 0, p)

Encode(t) ==
  CASE t.k = "data" -> <<t.b>>
    [] t.k = "esc"  -> <<IAC, IAC>>
    [] t.k = "neg"  -> <<IAC, t.verb, t.opt>>
    [] t.k = "cmd"  -> <<IAC, t.c>>
    [] t.k = "sub"  -> <<IAC, SB, t.opt>> \o Escape(t.payload) \o <<IAC, SE>>

(***************************************************************************)
(* copy_chars(), one byte at a time.  A record st carries the fields of   *)
(* interactive_t the function touches and the three outputs: text (the    *)
(* bytes written to ip->text), replies (add_message() calls) and applies  *)
(* (apply() calls on the user object).                                    *)
(***************************************************************************)
Emit(st, s) == [st EXCEPT !.text = @ \o s]
Reply(st, r) == [st EXCEPT !.replies = Append(@, r)]
Goto(st, s) == [st EXCEPT !.ts = s]

\* case TS_DATA
DataByte(st, b) ==
  CASE b = IAC -> Goto(st, "IAC")
    [] b = CR  -> IF singleChar THEN Emit(st, <<CR>>) ELSE st
    [] b = LF  -> IF singleChar THEN Emit(st, <<LF>>) ELSE Emit(st, <<32, 8, 0>>)
    [] OTHER   -> Emit(st, <<b>>)

\* case TS_IAC (also reached by falling out of TS_SB_IAC)
IacByte(st, b) ==
  CASE b = IAC  -> Goto(Emit(st, <<IAC>>), "DATA")
    [] b = DO   -> Goto(st, "DO")
    [] b = DONT -> Goto(st, "DONT")
    [] b = WILL -> Goto(st, "WILL")
    [] b = WONT -> Goto(st, "WONT")
    [] b = BRK  -> Reply(st, "break")
    [] b = IP   -> Reply(st, "interrupt")
    [] b = AYT  -> Reply(st, "yes")
    [] b = AO   -> Reply(st, "abort")
    [] b = SB   -> [Goto(st, "SB") EXCEPT !.sbPos = 0]
    [] OTHER    -> Goto(st, "DATA")

\* The bytes of the C string at sb_buf + from, after sb_buf[sb_pos] = 0.
Cell(buf, k) == IF k < SB_SIZE THEN buf[k] ELSE 0
CString(buf, from) ==
  LET stop == CHOOSE e \in from .. SB_SIZE :
                /\ Cell(buf, e) = 0
                /\ \A j \in from .. e - 1 : Cell(buf, j) # 0
  IN [j \in 1 .. stop - from |-> Cell(buf, from + j - 1)]

\* IAC SE: terminate sb_buf and notify the user object.
EndSubneg(st) ==
  LET buf == IF st.sbPos < SB_SIZE THEN [st.sbBuf EXCEPT ![st.sbPos] = 0]
             ELSE st.sbBuf
      c(i) == IF Cell(buf, i + 1) = SentinelI THEN 0 ELSE Cell(buf, i + 1)
      call == IF Cell(buf, 0) = TELOPT_TTYPE /\ Cell(buf, 1) = SentinelI
              THEN [f |-> "terminal_type", arg |-> CString(buf, 2)]
              ELSE IF Cell(buf, 0) = TELOPT_NAWS
              THEN [f |-> "window_size", arg |-> <<c(0) * 256 + c(1), c(2) * 256 + c(3)>>]
              ELSE [f |-> "telnet_suboption", arg |-> CString(buf, 0)]
  IN [st EXCEPT !.sbBuf = buf, !.applies = Append(@, call), !.ts = "DATA"]

Store(st, v) == [st EXCEPT !.sbBuf[st.sbPos] = v, !.sbPos = @ + 1]

\* Mutant: the bound check on sb_pos is missing.
SbByteUnbounded(st, b) ==
  IF b = IAC THEN Goto(st, "SB_IAC")
  ELSE Store(st, IF b = 0 THEN SentinelI ELSE b)

\* Mutant: a zero byte is stored as it is.
SbByteRaw(st, b) ==
  IF b = IAC THEN Goto(st, "SB_IAC")
  ELSE IF st.sbPos >= SB_SIZE THEN st
  ELSE Store(st, b)

\* case TS_SB: collect the sub-negotiation, zero stored as 'I', the excess dropped.
SbByte(st, b) ==
  IF b = IAC THEN Goto(st, "SB_IAC")
  ELSE IF st.sbPos >= SB_SIZE THEN st
  ELSE Store(st, IF b = 0 THEN SentinelI ELSE b)

CopyChar(st, b) ==
  CASE st.ts = "DATA" -> DataByte(st, b)
    [] st.ts = "SB_IAC" ->
         IF b = IAC THEN IF st.sbPos >= SB_SIZE THEN st
                         ELSE Goto(Store(st, IAC), "SB")
         ELSE IF b = SE THEN EndSubneg(st)
         ELSE IacByte(st, b)
    [] st.ts = "IAC" -> IacByte(st, b)
    [] st.ts = "DO" ->
         Goto(IF b = TELOPT_TM THEN Reply(st, "will_tm") ELSE st, "DATA")
    [] st.ts = "WILL" ->
         Goto([IF b = TELOPT_TTYPE THEN Reply(st, "ttype_send") ELSE st
               EXCEPT !.usingTelnet = TRUE], "DATA")
    [] st.ts \in {"DONT", "WONT"} ->
         Goto([st EXCEPT !.usingTelnet = TRUE], "DATA")
    [] st.ts = "SB" -> SbByte(st, b)

CopyChars(st, s) == FoldLeft(CopyChar, st, s)

(***************************************************************************)
(* The reference decoder of spec.md 4.2 applied to one token.             *)
(***************************************************************************)
Sentinel(p) == [j \in DOMAIN p |-> IF p[j] = 0 THEN SentinelI ELSE p[j]]
Take(p, n) == SubSeq(p, 1, IF Len(p) < n THEN Len(p) ELSE n)

RefCall(t) ==
  CASE t.opt = TELOPT_TTYPE /\ t.payload # <<>> /\ t.payload[1] = TELQUAL_IS ->
         [f |-> "terminal_type",
          arg |-> Sentinel(Take(Tail(t.payload), SB_SIZE - 2))]
    [] t.opt = TELOPT_NAWS ->
         [f |-> "window_size", arg |-> <<t.payload[1] * 256 + t.payload[2],
                                        t.payload[3] * 256 + t.payload[4]>>]
    [] OTHER ->
         [f |-> "telnet_suboption", arg |-> Sentinel(Take(<<t.opt>> \o t.payload, SB_SIZE))]

RefReply(t) ==
  CASE t.k = "neg" /\ t.verb = DO /\ t.opt = TELOPT_TM -> <<"will_tm">>
    [] t.k = "neg" /\ t.verb = WILL /\ t.opt = TELOPT_TTYPE -> <<"ttype_send">>
    [] t.k = "cmd" /\ t.c = BRK -> <<"break">>
    [] t.k = "cmd" /\ t.c = IP -> <<"interrupt">>
    [] t.k = "cmd" /\ t.c = AYT -> <<"yes">>
    [] t.k = "cmd" /\ t.c = AO -> <<"abort">>
    [] OTHER -> <<>>

RefText(t) ==
  CASE t.k = "data" /\ t.b = CR -> IF singleChar THEN <<CR>> ELSE <<>>
    [] t.k = "data" /\ t.b = LF -> IF singleChar THEN <<LF>> ELSE <<32, 8, 0>>
    [] t.k = "data" -> <<t.b>>
    [] t.k = "esc" -> <<IAC>>
    [] OTHER -> <<>>

Decode(ex, t) ==
  [ex EXCEPT !.text = @ \o RefText(t),
             !.replies = @ \o RefReply(t),
             !.applies = IF t.k = "sub" THEN Append(@, RefCall(t)) ELSE @]

(***************************************************************************)
(* Specification.                                                         *)
(***************************************************************************)
Init ==
  /\ wire = <<>>
  /\ \E junk \in [0 .. SB_SIZE - 1 -> ScratchBytes] :
       codec = [ts |-> "DATA", sbBuf |-> junk, sbPos |-> 0, usingTelnet |-> FALSE,
                text |-> <<>>, replies |-> <<>>, applies |-> <<>>]
  /\ singleChar \in BOOLEAN
  /\ expected = [text |-> <<>>, replies |-> <<>>, applies |-> <<>>]
  /\ sent = 0

\* The peer writes one token.
PeerSends(t) ==
  /\ sent + Len(Encode(t)) <= MaxBytes
  /\ wire' = wire \o Encode(t)
  /\ sent' = sent + Len(Encode(t))
  /\ expected' = Decode(expected, t)
  /\ UNCHANGED <<codec, singleChar>>

\* get_user_data() reads what has arrived, or part of it, and passes it
\* through copy_chars().
Receive ==
  /\ wire # <<>>
  /\ \E k \in 1 .. Len(wire) :
       /\ codec' = CopyChars(codec, SubSeq(wire, 1, k))
       /\ wire' = SubSeq(wire, k + 1, Len(wire))
  /\ UNCHANGED <<singleChar, expected, sent>>

Next == (\E t \in PeerTokens : PeerSends(t)) \/ Receive

Spec == Init /\ [][Next]_vars

(***************************************************************************)
(* Properties.                                                            *)
(***************************************************************************)
TypeOK ==
  /\ wire \in Seq(0 .. 255)
  /\ codec.ts \in States
  /\ codec.sbBuf \in [0 .. SB_SIZE - 1 -> 0 .. 255]
  /\ codec.sbPos \in 0 .. SB_SIZE
  /\ codec.usingTelnet \in BOOLEAN
  /\ codec.text \in Seq(0 .. 255)
  /\ singleChar \in BOOLEAN
  /\ sent \in 0 .. MaxBytes

(* Once everything the peer sent has been read, copy_chars() has put the *)
(* same text into the command buffer, sent the same negotiation replies   *)
(* and made the same terminal-type, window-size and sub-option calls as   *)
(* the decoder of spec.md 4.2, however the bytes were split into reads.   *)
DecodesLikeReference ==
  wire = <<>> =>
    /\ codec.text = expected.text
    /\ codec.replies = expected.replies
    /\ codec.applies = expected.applies
    /\ codec.ts = "DATA"

=============================================================================
