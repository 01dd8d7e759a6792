------------------------ MODULE MC_CommandScheduler ------------------------
(* Instantiation of CommandScheduler for TLC.                             *)
EXTENDS CommandScheduler

\* Reads for the round-robin run: a key, a line and the start of the next,
\* or two lines at once, so that a user keeps CMD_IN_BUF after being
\* served, and a partial line follows a command.
MC_ChunksRR == {<<"a">>, <<"LF", "b">>, <<"LF", "b", "LF">>}

\* Reads for the line-buffer run: a line, a line and the start of the
\* next, and five keys without an LF, so that a long line fills ip->text
\* and is compacted or reset.
MC_ChunksLong == {<<"a">>, <<"a", "LF">>, <<"LF", "b">>, <<"a", "b", "a", "b", "a">>}
=============================================================================
