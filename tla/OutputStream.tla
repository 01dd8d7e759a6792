---------------------------- MODULE OutputStream ----------------------------
(***************************************************************************)
(* What the output side of one connection promises (spec.md 4.3): text    *)
(* handed to add_message() reaches the socket in order, with every LF     *)
(* sent as CR LF, never duplicated and never invented; the driver keeps at *)
(* most CAP bytes queued; a message is cut short only when the queue is   *)
(* full, and once a write fails the connection is dead.                   *)
(*                                                                         *)
(* queue : bytes accepted but not yet handed to the kernel                *)
(* wire  : bytes handed to the kernel, in order                           *)
(* dead  : a write failed (NET_DEAD)                                      *)
(***************************************************************************)
EXTENDS Naturals, Sequences, SequencesExt

CONSTANTS CAP, Messages

VARIABLES queue, wire, dead

vars == <<queue, wire, dead>>

\* The text a message becomes on the wire: LF is preceded by CR.
Translate(m) == FoldLeft(LAMBDA acc, c : IF c = "LF" THEN acc \o <<"CR", "LF">>
                                                     ELSE Append(acc, c),
                         <<>>, m)

\* The translations of the prefixes of m: where a message may be cut.
Cuts(m) == { Translate(SubSeq(m, 1, k)) : k \in 0 .. Len(m) }

Init == queue = <<>> /\ wire = <<>> /\ dead = FALSE

\* One call: a prefix of the message joins the stream, some queued bytes
\* may be written meanwhile, and the cut happens only at a full queue or
\* at a failed write.
AddText(m) ==
  /\ ~dead
  /\ \E p \in Cuts(m) :
       /\ wire \o queue \o p = wire' \o queue'
       /\ IsPrefix(wire, wire')
       /\ Len(queue') <= CAP
       /\ p # Translate(m) => Len(queue') >= CAP - 1 \/ dead'
  /\ dead' \in {dead, TRUE}

\* A write hands a prefix of the queue to the kernel.
Send ==
  /\ queue # <<>>
  /\ \E k \in 1 .. Len(queue) :
       /\ wire' = wire \o SubSeq(queue, 1, k)
       /\ queue' = SubSeq(queue, k + 1, Len(queue))
  /\ dead' \in {dead, TRUE}

\* A write fails.
Fail == ~dead /\ dead' = TRUE /\ UNCHANGED <<queue, wire>>

Next == (\E m \in Messages : AddText(m)) \/ Send \/ Fail

Spec == Init /\ [][Next]_vars
=============================================================================
