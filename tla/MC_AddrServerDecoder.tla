------------------------ MODULE MC_AddrServerDecoder ------------------------
(* Queries are strings of abstract bytes: 49 and 50 are digits, so the   *)
(* queries made of them are addresses; 97 and 98 are letters.            *)
EXTENDS AddrServerDecoder

MC_Digits == {49, 50}
\* An address that resolves, one that does not, a name that resolves and
\* one that does not.
MC_Requests == {[type |-> NAMEBYIP, q |-> <<49>>],
                [type |-> NAMEBYIP, q |-> <<50>>],
                [type |-> IPBYNAME, q |-> <<97, 97>>],
                [type |-> IPBYNAME, q |-> <<98>>]}
\* The same with a name whose request does not fit into a 12-byte buffer.
MC_RequestsLong == MC_Requests \cup {[type |-> IPBYNAME, q |-> <<97, 97, 97, 97, 97>>]}
MC_Resolvable == {<<49>>, <<97, 97>>}
=============================================================================
