------------------------- MODULE ViewHistoryProofs -------------------------
(* ViewHistory proved for every set of hashes and views and every bound.    *)
EXTENDS ViewHistory, TLAPS

\* The inductive invariant. SettledTop alone is not inductive: whether the
\* event handled next may be ignored depends on how many are queued behind it
\* (IgnoreIsPaired), and that an assignment by goViewBack queues an event, or
\* finds one queued, depends on neighbouring entries being different
\* (NoPingPong).
IInv ==
  /\ TypeOK
  /\ NoPingPong
  /\ IgnoreIsPaired
  /\ BackButtonTruthful

-----------------------------------------------------------------------------
\* Pop drops the last entry and keeps the others where they are.
LEMMA PopFact ==
  ASSUME NEW S, NEW s \in Seq(S), Len(s) >= 2
  PROVE  /\ Pop(s) \in Seq(S) /\ Pop(s) # <<>>
         /\ Len(Pop(s)) = Len(s) - 1
         /\ \A i \in 1 .. Len(s) - 1 : Pop(s)[i] = s[i]
  BY DEF Pop

\* No two entries at distance one or two are equal.
Spaced(s) == \A i, j \in 1 .. Len(s) : (j = i + 1 \/ j = i + 2) => s[i] # s[j]

LEMMA PopSpaced ==
  ASSUME NEW S, NEW s \in Seq(S), Len(s) >= 2, Spaced(s)
  PROVE  Spaced(Pop(s)) /\ Pop(s)[Len(Pop(s))] = s[Len(s) - 1]
                        /\ s[Len(s) - 1] # s[Len(s)]
  BY PopFact DEF Spaced

\* What noteViewVisit returns: a history that ends in the view visited, still
\* without a repetition at distance one or two.
LEMMA NoteFact ==
  ASSUME NEW S, NEW s \in Seq(S), NEW v \in S, Spaced(s)
  PROVE  /\ NoteViewVisit(s, v) \in Seq(S)
         /\ NoteViewVisit(s, v) # <<>>
         /\ NoteViewVisit(s, v)[Len(NoteViewVisit(s, v))] = v
         /\ Spaced(NoteViewVisit(s, v))
<1>1. CASE Len(s) >= 2 /\ s[Len(s) - 1] = v
  <2>1. NoteViewVisit(s, v) = Pop(s)
    BY <1>1 DEF NoteViewVisit
  <2>2. QED BY <1>1, <2>1, PopFact, PopSpaced
<1>2. CASE /\ ~(Len(s) >= 2 /\ s[Len(s) - 1] = v)
           /\ s # <<>> /\ s[Len(s)] = v
  <2>1. NoteViewVisit(s, v) = s
    BY <1>2 DEF NoteViewVisit
  <2>2. QED BY <1>2, <2>1
<1>3. CASE /\ ~(Len(s) >= 2 /\ s[Len(s) - 1] = v)
           /\ ~(s # <<>> /\ s[Len(s)] = v)
  <2>1. NoteViewVisit(s, v) = Append(s, v)
    BY <1>3 DEF NoteViewVisit
  <2>2. Spaced(Append(s, v))
    BY <1>3 DEF Spaced
  <2>3. QED BY <2>1, <2>2
<1>4. QED BY <1>1, <1>2, <1>3

\* The history a page starts with.
LEMMA StartFact ==
  ASSUME NEW S, NEW v \in S
  PROVE  /\ NoteViewVisit(<<>>, v) \in Seq(S) /\ NoteViewVisit(<<>>, v) # <<>>
         /\ Len(NoteViewVisit(<<>>, v)) = 1
         /\ NoteViewVisit(<<>>, v)[Len(NoteViewVisit(<<>>, v))] = v
         /\ Spaced(NoteViewVisit(<<>>, v))
<1>1. NoteViewVisit(<<>>, v) = <<v>>
  BY DEF NoteViewVisit
<1>2. Spaced(<<v>>)
  BY DEF Spaced
<1>3. QED BY <1>1, <1>2

-----------------------------------------------------------------------------
LEMMA InitInv == Init => IInv
<1> SUFFICES ASSUME Init PROVE IInv
  OBVIOUS
<1>1. /\ hash \in Hash /\ Norm[hash] \in View
      /\ viewHistory = NoteViewVisit(<<>>, Norm[hash])
      /\ ignoreViewHistory = FALSE /\ pending = 0 /\ backDisabled = TRUE
  BY HashAssumption DEF Init
<1>2. /\ viewHistory \in Seq(View) /\ viewHistory # <<>>
      /\ Len(viewHistory) = 1 /\ Top = Norm[hash] /\ Spaced(viewHistory)
  BY <1>1, StartFact DEF Top
<1>3. TypeOK /\ IgnoreIsPaired
  BY <1>1, <1>2 DEF TypeOK, IgnoreIsPaired
<1>4. NoPingPong
  BY <1>2 DEF NoPingPong, Spaced
<1>5. BackButtonTruthful
  <2>1. Len(viewHistory) < 2
    BY <1>2
  <2>2. QED BY <1>1, <2>1, Zenon DEF BackButtonTruthful
<1>6. QED BY <1>3, <1>4, <1>5 DEF IInv

\* Every action keeps the inductive invariant.
LEMMA NextInv == IInv /\ [Next]_vars => IInv'
<1> SUFFICES ASSUME IInv, [Next]_vars PROVE IInv'
  OBVIOUS
<1> USE HashAssumption
<1>0. TypeOK /\ Spaced(viewHistory)
  BY DEF IInv, NoPingPong, Spaced
<1>1. ASSUME NEW h \in Hash, FollowLink(h) PROVE IInv'
  BY <1>1
  DEF FollowLink, IInv, TypeOK, NoPingPong, IgnoreIsPaired,
      BackButtonTruthful, Top
<1>2. CASE GoViewBack
  <2>1. /\ viewHistory' = Pop(viewHistory)
        /\ viewHistory' \in Seq(View) /\ viewHistory' # <<>>
        /\ Spaced(viewHistory')
        /\ Top' = viewHistory[Len(viewHistory) - 1]
        /\ Top' # Top
        /\ Top' \in View
    BY <1>0, <1>2, PopFact, PopSpaced DEF GoViewBack, TypeOK, Top
  <2>2. Norm[hash'] = Top' /\ hash' \in Hash
    BY <1>2, <2>1 DEF GoViewBack
  <2>3. pending' >= 1
    <3>1. CASE hash' = hash
      \* The address was already on the previous view: its event is queued.
      <4>1. Norm[hash] # Top
        BY <2>1, <2>2, <3>1
      <4>2. QED BY <1>2, <3>1, <4>1 DEF GoViewBack, IInv, IgnoreIsPaired, TypeOK
    <3>2. CASE hash' # hash
      BY <1>2, <3>2 DEF GoViewBack, IInv, TypeOK
    <3>3. QED BY <3>1, <3>2
  <2>4. TypeOK'
    BY <1>0, <1>2, <2>1, <2>2 DEF GoViewBack, TypeOK
  <2>5. NoPingPong'
    BY <2>1 DEF NoPingPong, Spaced
  <2>6. IgnoreIsPaired'
    BY <1>2, <2>2, <2>3 DEF GoViewBack, IgnoreIsPaired
  <2>7. BackButtonTruthful'
    BY <1>2, <2>1, <2>3, <2>4, PopFact
    DEF GoViewBack, IInv, TypeOK, BackButtonTruthful
  <2>8. QED BY <2>4, <2>5, <2>6, <2>7 DEF IInv
<1>3. CASE HandleHashChange
  <2>1. /\ pending > 0 /\ pending' = pending - 1 /\ hash' = hash
        /\ ignoreViewHistory' = FALSE
    BY <1>3 DEF HandleHashChange, RecordVisit
  <2>2. /\ viewHistory' \in Seq(View) /\ viewHistory' # <<>>
        /\ Spaced(viewHistory')
        /\ IF ignoreViewHistory THEN Top' = Top ELSE Top' = Norm[hash]
    <3>1. CASE ignoreViewHistory
      BY <1>0, <1>3, <3>1 DEF HandleHashChange, RecordVisit, TypeOK, Top
    <3>2. CASE ~ignoreViewHistory
      <4>1. viewHistory' = NoteViewVisit(viewHistory, Norm[hash])
        BY <1>3, <3>2 DEF HandleHashChange, RecordVisit
      <4>2. Norm[hash] \in View /\ viewHistory \in Seq(View)
        BY <1>0 DEF TypeOK
      <4>3. QED BY <1>0, <3>2, <4>1, <4>2, NoteFact DEF Top
    <3>3. QED BY <3>1, <3>2
  <2>3. TypeOK'
    <3>1. backDisabled' \in BOOLEAN
      BY <1>3 DEF HandleHashChange, RecordVisit
    <3>2. pending' \in Nat
      BY <1>0, <2>1 DEF TypeOK
    <3>3. hash' \in Hash
      BY <1>0, <2>1, Zenon DEF TypeOK
    <3>4. ignoreViewHistory' \in BOOLEAN
      BY <2>1, Zenon
    <3>5. QED BY <2>2, <3>1, <3>2, <3>3, <3>4, Zenon DEF TypeOK
  <2>4. NoPingPong'
    BY <2>2 DEF NoPingPong, Spaced
  <2>5. IgnoreIsPaired'
    BY <1>0, <2>1, <2>2 DEF IInv, TypeOK, IgnoreIsPaired
  <2>6. BackButtonTruthful'
    BY <1>3, Zenon DEF HandleHashChange, RecordVisit, BackButtonTruthful
  <2>7. QED BY <2>3, <2>4, <2>5, <2>6 DEF IInv
<1>4. CASE RenderBreadcrumbs
  BY <1>4
  DEF RenderBreadcrumbs, IInv, TypeOK, NoPingPong, IgnoreIsPaired,
      BackButtonTruthful, Top
<1>5. CASE Reload
  <2>1. /\ viewHistory' = NoteViewVisit(<<>>, Norm[hash]) /\ hash' = hash
        /\ ignoreViewHistory' = FALSE /\ pending' = 0 /\ backDisabled' = TRUE
    BY <1>5 DEF Reload
  <2>2. /\ viewHistory' \in Seq(View) /\ viewHistory' # <<>>
        /\ Len(viewHistory') = 1 /\ Top' = Norm[hash'] /\ Spaced(viewHistory')
    <3>1. Norm[hash] \in View
      BY <1>0 DEF TypeOK
    <3>2. QED BY <2>1, <3>1, StartFact DEF Top
  <2>3. TypeOK' /\ IgnoreIsPaired'
    BY <1>0, <2>1, <2>2 DEF TypeOK, IgnoreIsPaired
  <2>4. NoPingPong'
    BY <2>2 DEF NoPingPong, Spaced
  <2>5. BackButtonTruthful'
    <3>1. Len(viewHistory') < 2
      BY <2>2
    <3>2. QED BY <2>1, <3>1, Zenon DEF BackButtonTruthful
  <2>6. QED BY <2>3, <2>4, <2>5 DEF IInv
<1>6. CASE UNCHANGED vars
  BY <1>6
  DEF vars, IInv, TypeOK, NoPingPong, IgnoreIsPaired, BackButtonTruthful, Top
<1>7. QED BY <1>1, <1>2, <1>3, <1>4, <1>5, <1>6 DEF Next

LEMMA Inductive == Spec => []IInv
  BY InitInv, NextInv, PTL DEF Spec

-----------------------------------------------------------------------------
\* The variables keep their types: goViewBack and noteViewVisit never empty
\* the history, whatever is queued.
THEOREM TypeCorrect == Spec => []TypeOK
  BY Inductive, PTL DEF IInv

\* No view twice in a row and no A, B, A, in any history.
THEOREM HistorySpaced == Spec => []NoPingPong
  BY Inductive, PTL DEF IInv

\* An ignored visit always has its event, and a second one is queued when the
\* address has moved on.
THEOREM IgnorePaired == Spec => []IgnoreIsPaired
  BY Inductive, PTL DEF IInv

\* The Back button tells the truth.
THEOREM BackButton == Spec => []BackButtonTruthful
  BY Inductive, PTL DEF IInv

\* When no event is queued, the history ends in the view of the address bar.
THEOREM Settled == Spec => []SettledTop
<1>1. IInv => SettledTop
  BY DEF IInv, TypeOK, IgnoreIsPaired, SettledTop
<1>2. QED BY <1>1, Inductive, PTL
=============================================================================
