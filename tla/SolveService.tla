---------------------------- MODULE SolveService ----------------------------
(***************************************************************************)
(* What GbtSolveWrapper promises the solver loop that calls solve_slice.   *)
(* A slice is given lines, "cur" its own and "old" those of an earlier     *)
(* slice.  Another slice's line reaches it only while there is a debt:     *)
(* a slice that was cut short, and whose answer is still owed.  A slice    *)
(* that returns, however it failed and however often it was tried again,   *)
(* leaves none; one that raises, or is cancelled, may.  The first line of  *)
(* its own shows a slice that there is none (any more), and from then on   *)
(* it only hears its own.  GbtSolveHeard implements this specification.    *)
(***************************************************************************)

VARIABLES
  slice,                \* "run": a solve_slice is under way
                        \* "idle", "cut": none is; the last one returned, or not
                        \* "none": there is no solver loop to call it
  heard,                \* whose lines the running, or the last, slice was given
  debt                  \* a living daemon still owes an ended slice's lines

Init == slice = "idle" /\ heard = {} /\ debt = FALSE

\* A daemon that owes something goes, or it pays.
DebtMayFall == debt' \in {debt, FALSE}

Begin == slice \in {"idle", "cut"} /\ slice' = "run" /\ heard' = {} /\ DebtMayFall

\* A share, with which the slice goes on, or the record that ends it.
Hear(whose) ==
  /\ slice = "run"
  /\ whose = "old" => debt
  /\ slice' \in {"run", "idle"}
  /\ heard' = heard \cup {whose}
  /\ IF whose = "cur" THEN debt' = FALSE ELSE DebtMayFall

\* The slice returns without a record, or goes on after a failure: no debt.
Fail == slice = "run" /\ slice' \in {"run", "idle"} /\ DebtMayFall /\ UNCHANGED heard

\* The slice raises, and may leave what it was waiting for behind.
Raise == slice = "run" /\ slice' = "cut" /\ debt' \in BOOLEAN /\ UNCHANGED heard

\* The solver loop is cancelled with its session, and with it the slice that
\* may be under way.
Cancel ==
  /\ slice # "none" /\ slice' = "none"
  /\ IF slice = "run" THEN debt' \in BOOLEAN ELSE DebtMayFall
  /\ UNCHANGED heard

\* The next session's solver loop.
Resume ==
  slice = "none" /\ slice' \in {"idle", "cut"} /\ DebtMayFall /\ UNCHANGED heard

Settle == DebtMayFall /\ UNCHANGED <<slice, heard>>

Next ==
  \/ Begin \/ (\E whose \in {"cur", "old"} : Hear(whose)) \/ Fail \/ Raise
  \/ Cancel \/ Resume \/ Settle

Spec == Init /\ [][Next]_<<slice, heard, debt>>

\* A slice that was given a line of its own has no other's line ahead of it.
InStep == slice = "run" /\ "cur" \in heard => ~debt
=============================================================================
