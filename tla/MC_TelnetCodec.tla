--------------------------- MODULE MC_TelnetCodec ---------------------------
(* Peer alphabets for TelnetCodec.  Tokens are built from real byte      *)
(* values; the sub-negotiation payloads are those real clients send (a   *)
(* terminal type, a window 255 wide whose 255 byte is escaped) and     *)
(* one payload one byte longer than the scratch buffer.                  *)
EXTENDS TelnetCodec

X == 120   \* an ordinary data byte, 'x'

TokData == {Data(X), Data(LF), Esc}
TokNeg == {Neg(WILL, TELOPT_TTYPE), Neg(DO, TELOPT_TM), Neg(WONT, TELOPT_TM)}
TokCmd == {Cmd(NOP)}
TokSub == {Sub(TELOPT_TTYPE, <<TELQUAL_IS, X>>),
           Sub(TELOPT_NAWS, <<0, 255, 0, 24>>),
           Sub(1, [i \in 1 .. SB_SIZE |-> X])}

\* Conforming peers without the four commands that have a canned reply.
MC_Conforming == TokData \cup TokNeg \cup TokCmd \cup TokSub
\* One canned command amid data.
MC_Canned == TokData \cup {Cmd(AYT)}
=============================================================================
