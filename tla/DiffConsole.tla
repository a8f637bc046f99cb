----------------------------- MODULE DiffConsole -----------------------------
(***************************************************************************)
(* What the diff controls of a view promise, whatever they are built from: *)
(* one comparison at a time, which ends; what is shown is what came of the *)
(* last one asked for, and nothing when the view has just been opened.     *)
(* The view may lose the place it shows them in while an outcome is there: *)
(* this one stays, and no later one is shown until a view is opened.       *)
(***************************************************************************)
EXTENDS Naturals

CONSTANT Outcome   \* what may come of a comparison

VARIABLES
  asked,    \* the comparison under way; 0 if none
  count,    \* comparisons asked for in this view
  lost,     \* outcomes are not shown any more
  shown     \* what is shown: of which comparison, and what came of it

vars == <<asked, count, lost, shown>>

Nothing == [of |-> 0, is |-> "nothing"]

Init == asked = 0 /\ count = 0 /\ lost = FALSE /\ shown = Nothing

\* A view with new controls.
Open == asked' = 0 /\ count' = 0 /\ lost' = FALSE /\ shown' = Nothing

Show(c, is) == shown' = IF lost THEN shown ELSE [of |-> c, is |-> is]

\* The button: the comparison begins, or says at once what is missing.
Ask ==
  /\ asked = 0
  /\ count' = count + 1
  /\ \/ asked' = count' /\ Show(count', "busy")
     \/ asked' = 0 /\ \E o \in Outcome : Show(count', o)
  /\ UNCHANGED lost

Reply ==
  /\ asked # 0 /\ asked' = 0
  /\ \E o \in Outcome : Show(asked, o)
  /\ UNCHANGED <<count, lost>>

Lose ==
  /\ asked = 0 /\ shown.is \in Outcome
  /\ lost' = TRUE
  /\ UNCHANGED <<asked, count, shown>>

Next == Open \/ Ask \/ Reply \/ Lose

Spec == Init /\ [][Next]_vars /\ WF_vars(Reply)
=============================================================================
