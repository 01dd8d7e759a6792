------------------------------ MODULE Registry ------------------------------
(***************************************************************************)
(* The connection registry of src/src/comm.c: the all_users table, the    *)
(* object <-> interactive links, the snoop links, and the operations that *)
(* change them: new_user_handler() with the master's connect() apply,     *)
(* remove_interactive() with its net_dead() apply, new_set_snoop(),       *)
(* replace_interactive() (the exec() efun) and the closes that process_io *)
(* and get_user_data() make.                                              *)
(*                                                                         *)
(* An interactive is a model value of Conns; DXALLOC takes an unused one  *)
(* and FREE marks it freed for good, so a freed interactive that some     *)
(* pointer still holds stays visible.  remove_interactive() runs the      *)
(* mudlib's net_dead() between setting CLOSING and the teardown; netDead  *)
(* holds that call while it runs, and the mudlib's own calls (snoop(),    *)
(* exec(), destruct()) may happen then as well as between driver steps.   *)
(***************************************************************************)
EXTENDS Integers, Sequences, FiniteSets

CONSTANTS
  Objects,     \* LPC objects the mudlib may use
  Master,      \* master_ob, one of Objects
  Conns,       \* interactive_t allocations
  None,        \* the null pointer
  GROW         \* slots all_users grows by (10 in the code)

ASSUME Master \in Objects /\ None \notin Objects \cup Conns /\ GROW \in Nat \ {0}

VARIABLES
  interactive, \* ob->interactive for every object
  ipOb,        \* ip->ob for every interactive
  status,      \* "unused", "live" (allocated) or "freed"
  closing,     \* interactives with CLOSING set
  snoopOn,     \* ip->snoop_on
  snoopBy,     \* ip->snoop_by
  maxUsers,    \* max_users
  allUsers,    \* all_users[0 .. max_users-1]
  numUser,     \* num_user
  destructed,  \* objects with O_DESTRUCTED
  netDead,     \* the remove_interactive() waiting on net_dead(): <<>> or <<[ob, ip]>>
  frees,       \* history: how often each interactive was freed
  heap         \* "ok", or "corrupt" once freed interactive memory is written

vars == <<interactive, ipOb, status, closing, snoopOn, snoopBy, maxUsers,
          allUsers, numUser, destructed, netDead, frees, heap>>

\* A step that writes through any of the interactives cs: undefined
\* behaviour if one of them is already freed.
Writes(cs) == IF \E c \in cs \cap Conns : status[c] = "freed" THEN "corrupt" ELSE heap

Live == {c \in Conns : status[c] = "live"}

Init ==
  /\ interactive = [o \in Objects |-> None]
  /\ ipOb = [c \in Conns |-> None]
  /\ status = [c \in Conns |-> "unused"]
  /\ closing = {}
  /\ snoopOn = [c \in Conns |-> None]
  /\ snoopBy = [c \in Conns |-> None]
  /\ maxUsers = 0
  /\ allUsers = [i \in {} |-> None]
  /\ numUser = 0
  /\ destructed = {}
  /\ netDead = <<>>
  /\ frees = [c \in Conns |-> 0]
  /\ heap = "ok"

(***************************************************************************)
(* new_user_handler().                                                    *)
(***************************************************************************)
\* The first free slot, or max_users when all are taken.
FirstFree ==
  IF \E i \in DOMAIN allUsers : allUsers[i] = None
  THEN CHOOSE i \in DOMAIN allUsers :
         allUsers[i] = None /\ \A j \in 0 .. i - 1 : allUsers[j] # None
  ELSE maxUsers

\* Mutant: the while loop stops one slot short.
SlotsAfterGrowShort(i) == i + GROW - 1

\* while (max_users < i + 10) all_users[max_users++] = 0;
SlotsAfterGrow(i) == i + GROW

\* all_users after RESIZE(all_users, max_users + 10) and the zeroing loop.
Grown == [j \in 0 .. maxUsers + GROW - 1 |-> IF j < maxUsers THEN allUsers[j] ELSE None]

\* Objects connect() may return: any object not destructed, the master
\* and objects that already own an interactive included, since
\* new_user_handler() tests only that the result is an object.
ConnectResults == Objects \ destructed

\* Accept a connection, hand it to the master, apply connect(); ret is
\* None when connect() fails, and the connection is then removed with a
\* net_dead() call to the master.
new_user_handler(ret) ==
  LET c     == CHOOSE x \in Conns : status[x] = "unused"
      i     == FirstFree
      users == IF i = maxUsers THEN Grown ELSE allUsers
      im    == [interactive EXCEPT ![Master] = c]
  IN
  /\ netDead = <<>>
  /\ \E x \in Conns : status[x] = "unused"
  /\ maxUsers' = IF i = maxUsers THEN SlotsAfterGrow(i) ELSE maxUsers
  /\ allUsers' = [users EXCEPT ![i] = c]
  /\ status' = [status EXCEPT ![c] = "live"]
  /\ numUser' = numUser + 1
  /\ IF ret = None
     THEN /\ interactive' = im
          /\ ipOb' = [ipOb EXCEPT ![c] = Master]
          /\ closing' = closing \cup {c}
          /\ netDead' = <<[ob |-> Master, ip |-> c]>>
     ELSE /\ interactive' = [[im EXCEPT ![ret] = c] EXCEPT ![Master] = None]
          /\ ipOb' = [ipOb EXCEPT ![c] = ret]
          /\ UNCHANGED <<closing, netDead>>
  /\ UNCHANGED <<snoopOn, snoopBy, destructed, frees, heap>>

(***************************************************************************)
(* remove_interactive().                                                  *)
(***************************************************************************)
\* Mutant: the snoop_by block is missing; only the snooped link is cut.
CutSnoopsKeepSnooper(c) ==
  LET on == snoopOn[c] IN
  [on |-> [snoopOn EXCEPT ![c] = None],
   by |-> IF on # None THEN [snoopBy EXCEPT ![on] = None] ELSE snoopBy]

\* The snoop links after remove_interactive() cut both of c's: first its
\* snooper's snoop_on, then its target's snoop_by.
CutSnoops(c) ==
  LET by  == snoopBy[c]
      on1 == IF by # None THEN [snoopOn EXCEPT ![by] = None] ELSE snoopOn
      by1 == [snoopBy EXCEPT ![c] = None]
      on  == on1[c]
  IN [on |-> [on1 EXCEPT ![c] = None],
      by |-> IF on # None THEN [by1 EXCEPT ![on] = None] ELSE by1]

\* Mutant: the slot is never cleared.
ClearSlotKept(c) == allUsers

\* Find c in all_users and clear its slot; when it is missing the
\* DEBUG_CHECK is off and idx == max_users is written out of bounds,
\* which the model leaves out.
ClearSlot(c) ==
  LET idx == {i \in DOMAIN allUsers : allUsers[i] = c} IN
  IF idx = {} THEN allUsers
  ELSE [allUsers EXCEPT ![CHOOSE i \in idx : \A j \in idx : i <= j] = None]

\* The second half of remove_interactive(ob) for the ip it read on entry:
\* cut both snoop links, close the socket, count the user out, clear its
\* slot, FREE(ip) and clear ob->interactive.
Teardown(o, c) ==
  /\ snoopOn' = CutSnoops(c).on
  /\ snoopBy' = CutSnoops(c).by
  /\ numUser' = numUser - 1
  /\ allUsers' = ClearSlot(c)
  /\ status' = [status EXCEPT ![c] = "freed"]
  /\ closing' = closing \ {c}
  /\ frees' = [frees EXCEPT ![c] = @ + 1]
  /\ interactive' = [interactive EXCEPT ![o] = None]
  /\ heap' = Writes({c})

\* remove_interactive(ob, dested): nothing without an interactive or when
\* it is already CLOSING ("Double call"); otherwise flush, set CLOSING, and
\* unless dested start net_dead(), else tear down at once.
remove_interactive(o, dested) ==
  LET c == interactive[o] IN
  IF c = None \/ c \in closing
  THEN UNCHANGED <<interactive, ipOb, status, closing, snoopOn, snoopBy,
                   maxUsers, allUsers, numUser, netDead, frees, heap>>
  ELSE IF dested
  THEN Teardown(o, c) /\ UNCHANGED <<ipOb, maxUsers, netDead>>
  ELSE /\ closing' = closing \cup {c}
       /\ netDead' = <<[ob |-> o, ip |-> c]>>
       /\ UNCHANGED <<interactive, ipOb, status, snoopOn, snoopBy, maxUsers,
                      allUsers, numUser, frees, heap>>

\* net_dead() returns: remove_interactive() goes on with the ob and ip it
\* read on entry.
net_dead_return ==
  /\ netDead # <<>>
  /\ Teardown(Head(netDead).ob, Head(netDead).ip)
  /\ netDead' = <<>>
  /\ UNCHANGED <<ipOb, maxUsers, destructed>>

\* process_io() on a NET_DEAD user, or get_user_data() on EOF or a read
\* error: remove_interactive(ip->ob, 0), from the event loop.
close_by_driver(c) ==
  /\ netDead = <<>>
  /\ c \in Live \ closing
  /\ remove_interactive(ipOb[c], FALSE)
  /\ UNCHANGED destructed

\* destruct(): remove_interactive(ob, 1), then O_DESTRUCTED.
destruct(o) ==
  /\ o # Master
  /\ o \notin destructed
  /\ remove_interactive(o, TRUE)
  /\ destructed' = destructed \cup {o}

(***************************************************************************)
(* new_set_snoop() and replace_interactive().                             *)
(***************************************************************************)
\* The interactives reached from t along snoop_on, t included.
RECURSIVE OnChain(_, _)
OnChain(t, k) == IF t = None \/ k = 0 THEN {} ELSE {t} \cup OnChain(snoopOn[t], k - 1)

\* Mutant: no protection against snooping loops.
SnoopLoopUnchecked(on, by) == FALSE

\* for (tmp = on; tmp; tmp = tmp->snoop_on) if (tmp == by) return 0;
SnoopLoop(on, by) == by \in OnChain(on, Cardinality(Conns))

\* new_set_snoop(me, you); you = None stops me's snoop.  The calls that
\* error() or return 0 change nothing and are left out.
new_set_snoop(me, you) ==
  /\ me \notin destructed
  /\ interactive[me] # None
  /\ LET by == interactive[me] IN
     IF you = None
     THEN /\ snoopOn[by] # None
          /\ snoopBy' = [snoopBy EXCEPT ![snoopOn[by]] = None]
          /\ snoopOn' = [snoopOn EXCEPT ![by] = None]
     ELSE LET on  == interactive[you]
              on1 == IF snoopOn[by] # None
                     THEN [snoopOn EXCEPT ![by] = None] ELSE snoopOn
              by1 == IF snoopOn[by] # None
                     THEN [snoopBy EXCEPT ![snoopOn[by]] = None] ELSE snoopBy
              old == by1[on]
              on2 == IF old # None THEN [on1 EXCEPT ![old] = None] ELSE on1
          IN /\ you \notin destructed
             /\ on # None
             /\ ~SnoopLoop(on, by)
             /\ snoopOn' = [on2 EXCEPT ![by] = on]
             /\ snoopBy' = [by1 EXCEPT ![on] = by]
  /\ heap' = Writes({interactive[me]} \cup IF you = None THEN {} ELSE {interactive[you]})
  /\ UNCHANGED <<interactive, ipOb, status, closing, maxUsers, allUsers,
                 numUser, destructed, netDead, frees>>

\* replace_interactive(ob, obfrom), the exec() efun.  It tests neither
\* CLOSING nor whether obfrom's interactive was already freed.
replace_interactive(ob, obfrom) ==
  LET c == interactive[obfrom] IN
  /\ {ob, obfrom} \cap destructed = {}
  /\ interactive[ob] = None
  /\ c # None
  /\ interactive' = [interactive EXCEPT ![ob] = c, ![obfrom] = None]
  /\ ipOb' = [ipOb EXCEPT ![c] = ob]
  /\ heap' = Writes({c})
  /\ UNCHANGED <<status, closing, snoopOn, snoopBy, maxUsers, allUsers,
                 numUser, destructed, netDead, frees>>

\* What the driver does after a write through freed memory is undefined:
\* the model stops there.
Next ==
  /\ heap = "ok"
  /\ \/ \E ret \in ConnectResults \cup {None} : new_user_handler(ret)
     \/ net_dead_return
     \/ \E c \in Conns : close_by_driver(c)
     \/ \E o \in Objects : destruct(o)
     \/ \E me \in Objects, you \in Objects \cup {None} : new_set_snoop(me, you)
     \/ \E ob, obfrom \in Objects : replace_interactive(ob, obfrom)

Spec == Init /\ [][Next]_vars

(***************************************************************************)
(* Properties.                                                            *)
(***************************************************************************)
TypeOK ==
  /\ interactive \in [Objects -> Conns \cup {None}]
  /\ ipOb \in [Conns -> Objects \cup {None}]
  /\ status \in [Conns -> {"unused", "live", "freed"}]
  /\ closing \subseteq Conns
  /\ snoopOn \in [Conns -> Conns \cup {None}]
  /\ snoopBy \in [Conns -> Conns \cup {None}]
  /\ allUsers \in [0 .. maxUsers - 1 -> Conns \cup {None}]
  /\ numUser \in -Cardinality(Conns) .. Cardinality(Conns)
  /\ destructed \subseteq Objects \ {Master}
  /\ heap \in {"ok", "corrupt"}

(* spec.md 3: snoop pointers are symmetric and are removed before the     *)
(* interactive is freed.  new_set_snoop() ends the snooper's old snoop    *)
(* and the target's old snooper before linking, and remove_interactive()  *)
(* cuts both links, so until the driver writes through freed memory no    *)
(* live interactive points at a freed one or at one that does not point   *)
(* back.                                                                  *)
SnoopLinksSymmetric ==
  heap = "ok" =>
    \A c \in Live :
      /\ snoopOn[c] # None => snoopOn[c] \in Live /\ snoopBy[snoopOn[c]] = c
      /\ snoopBy[c] # None => snoopBy[c] \in Live /\ snoopOn[snoopBy[c]] = c

(* No interactive snoops itself through a chain of snoops: the loop test  *)
(* of new_set_snoop() walks snoop_on and would never end on a cycle.      *)
NoSnoopCycle == \A c \in Live : c \notin OnChain(snoopOn[c], Cardinality(Conns))

(* spec.md 3: a closed connection never appears in the registry.  Until  *)
(* the driver writes through freed memory, every live interactive sits in *)
(* exactly one slot of all_users, no slot holds a freed one, and num_user *)
(* counts the live ones: through the growth of all_users, slot reuse, and *)
(* a destruct() or exec() run by net_dead() on the connection being       *)
(* closed.                                                                *)
SlotsTrackLive ==
  heap = "ok" =>
    /\ \A c \in Live : Cardinality({i \in DOMAIN allUsers : allUsers[i] = c}) = 1
    /\ \A i \in DOMAIN allUsers : allUsers[i] # None => allUsers[i] \in Live
    /\ numUser = Cardinality(Live)

=============================================================================
