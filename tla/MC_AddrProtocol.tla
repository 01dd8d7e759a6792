--------------------------- MODULE MC_AddrProtocol ---------------------------
(* Bytes as in MC_AddrServerDecoder: 49, 50 and 51 are the digits "1" to  *)
(* "3", 97 and 98 the letters "a" and "b".  Address "1" resolves to the   *)
(* name "aa", "aa" back to "1", and "2" (a user's) to "b"; "3" does not   *)
(* resolve, and "aaaaa" does not fit the server's buffer.  Two addresses  *)
(* resolve, so the two-slot cache wraps.                                  *)
EXTENDS AddrProtocol, TLC

CONSTANTS o1, o2

MC_Digits == {49, 50, 51}
MC_Resolvable == {<<49>>, <<50>>, <<97, 97>>}
MC_ResolveTo == (<<49>> :> <<97, 97>>) @@ (<<50>> :> <<98>>) @@ (<<97, 97>> :> <<49>>)
MC_Queries == {<<49>>, <<51>>, <<97, 97>>, <<97, 97, 97, 97, 97>>}
MC_UserAddrs == {<<50>>}
MC_Objects == {o1, o2}
\* One object for the run with split reads: two entries for one name
\* still arise from two queries of the same object.
MC_Objects1 == {o1}

=============================================================================
