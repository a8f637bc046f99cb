----------------------------- MODULE HistoryPage -----------------------------
(***************************************************************************)
(* The pages of a pool's history that the agent returns for an offset and  *)
(* a limit (src/internal/collector/history.go and handlePoolHistory() in   *)
(* src/internal/agent/handlers.go), with integers of the build's width.    *)
(***************************************************************************)
EXTENDS Integers, Sequences, SequencesExt, FiniteSetsExt

CONSTANTS
  IntMax,         \* the greatest int
  DefaultLimit    \* the limit when none is asked for (500)

ASSUME IntAssumption == IntMax \in Nat \ {0} /\ DefaultLimit \in 1 .. IntMax

IntRange == -(IntMax + 1) .. IntMax

Wrap(n) == ((n + IntMax + 1) % (2 * (IntMax + 1))) - (IntMax + 1)

\* What slicing beyond its bounds leads to, net/http dropping the connection:
\* no page (entries are numbered from 1).
Panic == <<0>>

\* A mutant: the limit is taken for the end.
PoolHistoryFromStart(all, offset, limit) ==
  LET from == Max({0, offset})
      end  == IF limit > 0 /\ limit < Len(all) THEN limit ELSE Len(all)
  IN IF from > Len(all) THEN <<>> ELSE IF end < from THEN Panic ELSE SubSeq(all, from + 1, end)

\* PoolHistory(): offset + limit may be negative, being too great.
PoolHistory(all, offset, limit) ==
  LET from == Max({0, offset})
      end  == IF limit > 0 /\ Wrap(from + limit) < Len(all) THEN Wrap(from + limit) ELSE Len(all)
  IN IF from > Len(all) THEN <<>> ELSE IF end < from THEN Panic ELSE SubSeq(all, from + 1, end)

HandlePoolHistory(all, offset, limit) ==
  PoolHistory(all, offset, IF limit <= 0 THEN DefaultLimit ELSE limit)

\* A reader who asks for one page after the other, page being what a page holds.
Pages(all, limit) ==
  LET page == IF limit <= 0 THEN DefaultLimit ELSE limit
  IN [k \in 1 .. Len(all) + 1 |->
        HandlePoolHistory(all, Min({(k - 1) * page, IntMax}), limit)]

\* The pages together are the history, each entry once and in its order,
\* whether or not the last page is full.
PagesTile(all, pages) == FlattenSeq(pages) = all
=============================================================================
