------------------------------ MODULE SimulEfun ------------------------------
(***************************************************************************)
(* The simul_efun tables of src/src/simul_efun.c and their reload.       *)
(*                                                                         *)
(* simul_names is the name -> index list, kept sorted by the address of  *)
(* the shared name string so that find_simul_efun() can search it in      *)
(* O(log n); simuls is the index -> function list used at run time, whose *)
(* indices must survive every reload of the simul_efun object.  ihe holds *)
(* the identifier hash entry of every name: simul_num, sem_value and the  *)
(* IHE_SIMUL bit of its token.                                            *)
(*                                                                         *)
(* A name is the address of its shared string, so the model's names are   *)
(* numbers compared with < and >, as compare_addrs() does.  A program is  *)
(* its function table: one entry per function, with its name and whether *)
(* it is visible (not NAME_NO_CODE, NAME_STATIC or NAME_PRIVATE).  The    *)
(* function an entry resolves to after the NAME_INHERITED chain is named  *)
(* <<p, i>>, the i-th entry of program p.                                 *)
(***************************************************************************)
EXTENDS Integers, Sequences, TLC

CONSTANTS
  Names,     \* addresses of shared name strings
  Programs,  \* program id -> its function table
  NoFunc     \* simuls[i].func = 0

ProgIds == DOMAIN Programs

VARIABLES
  simul_names,    \* sequence of [name, index], simul_names[0..]
  simuls,         \* sequence of [index, func], simuls[0..]
  ihe,            \* name -> [simul_num, sem_value, simul (the IHE_SIMUL bit)]
  simul_efun_ob,  \* the loaded program, or 0 before set_simul_efun()
  heap            \* "ok", or "corrupt" after a RESIZE of a freed table

vars == <<simul_names, simuls, ihe, simul_efun_ob, heap>>

\* num_simul_efun
num_simul_efun == Len(simul_names)

Init ==
  /\ simul_names = <<>>
  /\ simuls = <<>>
  /\ ihe = [n \in Names |-> [simul_num |-> -1, sem |-> 0, simul |-> FALSE]]
  /\ simul_efun_ob = 0
  /\ heap = "ok"

(***************************************************************************)
(* The binary search of find_simul_efun() and find_or_add_simul_efun().   *)
(***************************************************************************)
\* Mutant: the loop stops when one candidate is left.
SearchGuardLt(first, last) == first < last

\* while (first <= last)
SearchGuard(first, last) == first <= last

\* The search over tab (0-based positions): the position j of the name,
\* or j = -1 with the final first and last.
RECURSIVE BSearch(_, _, _, _)
BSearch(tab, n, first, last) ==
  IF ~SearchGuard(first, last)
  THEN [j |-> -1, first |-> first, last |-> last]
  ELSE LET j == (first + last) \div 2 IN
       IF n < tab[j + 1].name THEN BSearch(tab, n, first, j - 1)
       ELSE IF n > tab[j + 1].name THEN BSearch(tab, n, j + 1, last)
       ELSE [j |-> j, first |-> first, last |-> last]

\* find_simul_efun(name): the name's index, or -1.
find_simul_efun(n) ==
  LET r == BSearch(simul_names, n, 0, num_simul_efun - 1)
  IN IF r.j = -1 THEN -1 ELSE simul_names[r.j + 1].index

(***************************************************************************)
(* The reload.  T is the tables as a record [names, simuls, ihe].         *)
(***************************************************************************)
\* Mutant: the shift loop stops one entry early, i > last + 1: the entry
\* at first is overwritten and the one after it is kept twice.
ShiftInsertShort(names, last, first, e) ==
  [k \in 1 .. Len(names) + 1 |->
     IF k - 1 = first THEN e
     ELSE IF k - 1 > last + 2 \/ k > Len(names) THEN names[k - 1] ELSE names[k]]

\* Mutant: the shift moves the names but not their indices.
ShiftNamesOnly(names, last, first, e) ==
  [k \in 1 .. Len(names) + 1 |->
     IF k - 1 = first THEN e
     ELSE IF k - 1 > last
          THEN [name |-> names[k - 1].name,
                index |-> IF k <= Len(names) THEN names[k].index ELSE names[k - 1].index]
          ELSE names[k]]

\* for (i = num - 1; i > last; i--) simul_names[i+1] = simul_names[i];
\* then simul_names[first] = the new entry, whose index is num_simul_efun.
ShiftInsert(names, last, first, e) ==
  [k \in 1 .. Len(names) + 1 |->
     IF k - 1 = first THEN e ELSE IF k - 1 > last THEN names[k - 1] ELSE names[k]]

\* find_or_add_simul_efun(prog, index, runtime_index) for function f.
find_or_add_simul_efun(T, f, ri) ==
  LET n == f.name
      r == BSearch(T.names, n, 0, Len(T.names) - 1)
  IN IF r.j # -1
     THEN LET x == T.names[r.j + 1].index IN
          [T EXCEPT !.ihe[n] = [simul_num |-> x, sem |-> @.sem + 1, simul |-> TRUE],
                    !.simuls[x + 1] = [index |-> ri, func |-> f.func]]
     ELSE LET x == Len(T.names) IN
          [T EXCEPT !.names = ShiftInsert(@, r.last, r.first, [name |-> n, index |-> x]),
                    !.simuls = Append(@, [index |-> ri, func |-> f.func]),
                    !.ihe[n] = [simul_num |-> x, sem |-> @.sem + 1, simul |-> TRUE]]

\* Mutant: remove_simuls() leaves the identifiers' simul_num set.
RemoveKeepNum(T) ==
  [T EXCEPT !.simuls = [i \in DOMAIN @ |-> [index |-> 0, func |-> NoFunc]],
            !.ihe = [n \in Names |-> IF \E k \in DOMAIN T.names : T.names[k].name = n
                                     THEN [simul_num |-> @[n].simul_num,
                                           sem |-> IF @[n].simul_num # -1 THEN @[n].sem - 1 ELSE @[n].sem,
                                           simul |-> FALSE]
                                     ELSE @[n]]]

\* Mutant: remove_simuls() takes sem_value down without testing simul_num.
RemoveAlwaysDec(T) ==
  [T EXCEPT !.simuls = [i \in DOMAIN @ |-> [index |-> 0, func |-> NoFunc]],
            !.ihe = [n \in Names |-> IF \E k \in DOMAIN T.names : T.names[k].name = n
                                     THEN [simul_num |-> -1, sem |-> @[n].sem - 1, simul |-> FALSE]
                                     ELSE @[n]]]

\* remove_simuls(): every simul inactive, every identifier of a simul
\* name no longer a simul (sem_value down once if it was one).
remove_simuls(T) ==
  [T EXCEPT !.simuls = [i \in DOMAIN @ |-> [index |-> 0, func |-> NoFunc]],
            !.ihe = [n \in Names |-> IF \E k \in DOMAIN T.names : T.names[k].name = n
                                     THEN [simul_num |-> -1,
                                           sem |-> IF @[n].simul_num # -1 THEN @[n].sem - 1 ELSE @[n].sem,
                                           simul |-> FALSE]
                                     ELSE @[n]]]

\* The loop of get_simul_efuns() from function i on (runtime index i-1).
RECURSIVE AddFrom(_, _, _)
AddFrom(T, p, i) ==
  IF i > Len(Programs[p]) THEN T
  ELSE LET e == Programs[p][i] IN
       AddFrom(IF e.visible
               THEN find_or_add_simul_efun(T, [name |-> e.name, func |-> <<p, i>>], i - 1)
               ELSE T, p, i + 1)

\* get_simul_efuns(prog): the tables after the reload.  With no function
\* in the new program the old tables are FREEd, but num_simul_efun keeps
\* its value and the "shrink to fit" RESIZEs the freed blocks.
get_simul_efuns(p) ==
  LET T0 == [names |-> simul_names, simuls |-> simuls, ihe |-> ihe]
      T1 == IF num_simul_efun # 0 THEN remove_simuls(T0) ELSE T0
  IN IF Len(Programs[p]) = 0 /\ num_simul_efun # 0
     THEN [T1 EXCEPT !.names = simul_names] @@ [heap |-> "corrupt"]
     ELSE AddFrom(T1, p, 1) @@ [heap |-> "ok"]

\* set_simul_efun(ob): reload the tables from ob's program, then make ob
\* the simul_efun object.
set_simul_efun(p) ==
  LET R == get_simul_efuns(p) IN
  /\ heap = "ok"
  /\ simul_names' = R.names
  /\ simuls' = R.simuls
  /\ ihe' = R.ihe
  /\ heap' = R.heap
  /\ simul_efun_ob' = p

\* init_simul_efun() or a later reload: load_object() gives a program.
Next == \E p \in ProgIds : set_simul_efun(p)

Spec == Init /\ [][Next]_vars

(***************************************************************************)
(* Properties.                                                            *)
(***************************************************************************)
\* The function table of the loaded program.
Current == IF simul_efun_ob = 0 THEN <<>> ELSE Programs[simul_efun_ob]

\* n is a visible function of the loaded program, at position Pos(n).
Visible(n) == \E i \in DOMAIN Current : Current[i].visible /\ Current[i].name = n
Pos(n) == CHOOSE i \in DOMAIN Current : Current[i].visible /\ Current[i].name = n

TypeOK ==
  /\ simul_names \in Seq([name : Names, index : Nat])
  /\ simuls \in Seq([index : Nat, func : (ProgIds \X Nat) \cup {NoFunc}])
  /\ ihe \in [Names -> [simul_num : Int, sem : Nat, simul : BOOLEAN]]
  /\ simul_efun_ob \in ProgIds \cup {0}
  /\ heap \in {"ok", "corrupt"}

(* find_simul_efun() and the insertion of find_or_add_simul_efun() rely   *)
(* on simul_names being strictly sorted by address; its indices must name *)
(* each simuls[] entry once, over past and present simul_efuns alike.     *)
SortedTable ==
  /\ \A k \in 1 .. num_simul_efun - 1 : simul_names[k].name < simul_names[k + 1].name
  /\ {simul_names[k].index : k \in DOMAIN simul_names} = 0 .. num_simul_efun - 1
  /\ Len(simuls) = num_simul_efun

(* The binary search of find_simul_efun() finds exactly what a linear     *)
(* scan of simul_names finds.                                             *)
FindMatchesLinear ==
  \A n \in Names :
    find_simul_efun(n) =
      IF \E k \in DOMAIN simul_names : simul_names[k].name = n
      THEN simul_names[CHOOSE k \in DOMAIN simul_names : simul_names[k].name = n].index
      ELSE -1

(* After any sequence of reloads, the compiler's view (the identifier's   *)
(* IHE_SIMUL bit, simul_num and sem_value) and the run time's view        *)
(* (simuls[find_simul_efun(name)]) agree with the loaded program: its     *)
(* visible functions are active simuls calling that program's function at *)
(* its runtime index, and every other name is inactive.                   *)
CompileRuntimeAgree ==
  heap = "ok" =>
    \A n \in Names :
      LET x == find_simul_efun(n) IN
      IF Visible(n)
      THEN /\ x # -1
           /\ ihe[n] = [simul_num |-> x, sem |-> 1, simul |-> TRUE]
           /\ simuls[x + 1] = [index |-> Pos(n) - 1, func |-> <<simul_efun_ob, Pos(n)>>]
      ELSE /\ ihe[n] = [simul_num |-> -1, sem |-> 0, simul |-> FALSE]
           /\ x # -1 => simuls[x + 1].func = NoFunc

(* "we can't sort the function table b/c then indices wouldn't be         *)
(* preserved across updates": a reload never drops a name or changes the  *)
(* index it was given, so code compiled against an older simul_efun       *)
(* object keeps calling the right slot.                                    *)
IndexStable ==
  [][\A k \in DOMAIN simul_names :
       \E k2 \in DOMAIN simul_names' : simul_names'[k2] = simul_names[k]]_vars

(* set_simul_efun() with a program of no functions after one with some:  *)
(* the freed tables are RESIZEd.                                          *)
HeapIntact == heap = "ok"
=============================================================================
