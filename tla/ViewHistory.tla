---------------------------- MODULE ViewHistory ----------------------------
(***************************************************************************)
(* The Back button of the web UI (src/internal/web/static/app.js).         *)
(*                                                                         *)
(* The page keeps its own list of visited views next to the browser's.     *)
(* location.hash changes at once when a link is followed, when the         *)
(* browser's own Back or Forward is used, or when goViewBack assigns it;   *)
(* the hashchange event that tells the page runs later, reads the hash as  *)
(* it is THEN, and may find that it has changed again.  The flag           *)
(* ignoreViewHistory, set by goViewBack, is consumed by whichever event    *)
(* runs next.                                                              *)
(***************************************************************************)
EXTENDS Naturals, Sequences

CONSTANTS
  Hash,        \* what location.hash can hold
  View,        \* the normalised hashes: what normalizeHash returns
  Norm,        \* normalizeHash, as a function from Hash to View
  Spell,       \* '#' + v, the hash goViewBack assigns for a view v
  MaxPending,  \* bound: hashchange events not handled yet
  MaxHistory   \* bound: length of viewHistory

\* Assigning '#' + v and normalising it again gives v back; several hashes
\* may normalise to one view ('', '#' and '#/' are all the overview).
ASSUME HashAssumption ==
  /\ Norm \in [Hash -> View]
  /\ Spell \in [View -> Hash]
  /\ \A v \in View : Norm[Spell[v]] = v
ASSUME BoundAssumption == MaxPending \in Nat /\ MaxHistory \in Nat

VARIABLES
  hash,               \* location.hash
  viewHistory,        \* the views visited, oldest first
  ignoreViewHistory,  \* the next event must not be recorded
  pending,            \* hashchange events queued by the browser
  backDisabled        \* crumbBackBtn.disabled

vars == <<hash, viewHistory, ignoreViewHistory, pending, backDisabled>>

Top == viewHistory[Len(viewHistory)]

TypeOK ==
  /\ hash \in Hash
  /\ viewHistory \in Seq(View) /\ viewHistory # <<>>
  /\ ignoreViewHistory \in BOOLEAN
  /\ pending \in Nat
  /\ backDisabled \in BOOLEAN

-----------------------------------------------------------------------------
Pop(s) == SubSeq(s, 1, Len(s) - 1)

\* Mutants: noteViewVisit without one of its two comparisons.
NoteWithoutStepBack(s, v) ==
  IF s # <<>> /\ s[Len(s)] = v THEN s ELSE Append(s, v)
NoteWithoutSameView(s, v) ==
  IF Len(s) >= 2 /\ s[Len(s) - 1] = v THEN Pop(s) ELSE Append(s, v)

\* noteViewVisit for an event that is not ignored: a visit to the view before
\* the last one is taken for a step back, a visit to the last one is dropped.
NoteViewVisit(s, v) ==
  IF Len(s) >= 2 /\ s[Len(s) - 1] = v THEN Pop(s)
  ELSE IF s # <<>> /\ s[Len(s)] = v THEN s
  ELSE Append(s, v)

\* The script has run to its end: dispatch() recorded the view the page
\* opened on.
Init ==
  /\ hash \in Hash
  /\ viewHistory = NoteViewVisit(<<>>, Norm[hash])
  /\ ignoreViewHistory = FALSE
  /\ pending = 0
  /\ backDisabled = TRUE

\* The user reloads the document: the script's state starts again, the
\* address stays.
Reload ==
  /\ viewHistory' = NoteViewVisit(<<>>, Norm[hash])
  /\ ignoreViewHistory' = FALSE
  /\ pending' = 0
  /\ backDisabled' = TRUE
  /\ UNCHANGED hash

\* A link, the browser's Back or Forward, or an edited address. The browser
\* queues an event only if the hash changes.
FollowLink(h) ==
  /\ h # hash
  /\ pending < MaxPending
  /\ Len(viewHistory) + pending < MaxHistory
  /\ hash' = h
  /\ pending' = pending + 1
  /\ UNCHANGED <<viewHistory, ignoreViewHistory, backDisabled>>

\* The Back button, or Alt+Left, which does not look at the button.
GoViewBack ==
  /\ Len(viewHistory) >= 2
  /\ pending < MaxPending
  /\ viewHistory' = Pop(viewHistory)
  /\ ignoreViewHistory' = TRUE
  /\ hash' = Spell[Top']
  /\ pending' = IF hash' = hash THEN pending ELSE pending + 1
  /\ UNCHANGED backDisabled

\* The effect of an event on the history, shared with the mutants below.
RecordVisit ==
  /\ pending > 0
  /\ pending' = pending - 1
  /\ viewHistory' = IF ignoreViewHistory THEN viewHistory
                    ELSE NoteViewVisit(viewHistory, Norm[hash])
  /\ UNCHANGED hash

\* Mutants: the flag is never taken back; it is kept until the queue is
\* empty; the button is not updated when a visit is ignored.
HandleKeepingFlag ==
  /\ RecordVisit
  /\ backDisabled' = (Len(viewHistory') < 2)
  /\ UNCHANGED ignoreViewHistory
HandleIgnoringQueue ==
  /\ RecordVisit
  /\ ignoreViewHistory' = (ignoreViewHistory /\ pending > 1)
  /\ backDisabled' = (Len(viewHistory') < 2)
HandleWithoutButton ==
  /\ RecordVisit
  /\ ignoreViewHistory' = FALSE
  /\ backDisabled' = IF ignoreViewHistory THEN backDisabled
                     ELSE (Len(viewHistory') < 2)

\* dispatch() on a hashchange event. Every path ends in updateBackButton().
HandleHashChange ==
  /\ RecordVisit
  /\ ignoreViewHistory' = FALSE
  /\ backDisabled' = (Len(viewHistory') < 2)

\* Any render may call renderBreadcrumbs, which refreshes the button, at any
\* time after its view was dispatched.
RenderBreadcrumbs ==
  /\ backDisabled' = (Len(viewHistory) < 2)
  /\ UNCHANGED <<hash, viewHistory, ignoreViewHistory, pending>>

Next ==
  \/ \E h \in Hash : FollowLink(h)
  \/ GoViewBack
  \/ HandleHashChange
  \/ RenderBreadcrumbs
  \/ Reload

\* The event loop always runs the queued events; users promise nothing.
Spec == Init /\ [][Next]_vars /\ WF_vars(HandleHashChange)

-----------------------------------------------------------------------------
\* The history never holds a view twice in a row, nor the pair A, B, A: Back
\* always moves to another view, and back-and-forth visits do not pile up
\* (noteViewVisit's two comparisons, with goViewBack's pops in between).
NoPingPong ==
  \A i, j \in 1 .. Len(viewHistory) :
    (j = i + 1 \/ j = i + 2) => viewHistory[i] # viewHistory[j]

\* Once every event has been handled, the last entry of the history is the
\* view the address bar shows and no visit is waiting to be ignored, whatever
\* links and Backs were used while events were still queued.
SettledTop ==
  pending = 0 => Top = Norm[hash] /\ ~ignoreViewHistory

\* The flag set by goViewBack never outlives the events it can be meant for:
\* while it is set an event is queued, and if the address has already moved
\* on from the history, a second one is.
IgnoreIsPaired ==
  /\ ignoreViewHistory => pending >= 1
  /\ Top # Norm[hash] => pending >= (IF ignoreViewHistory THEN 2 ELSE 1)

\* The button is never disabled while there is a view to go back to, and
\* once the events are handled it is enabled exactly when there is one.
BackButtonTruthful ==
  /\ backDisabled => Len(viewHistory) < 2
  /\ pending = 0 => (backDisabled <=> Len(viewHistory) < 2)

\* If the address stays on a view for good, that view becomes and stays the
\* last entry of the history.
HistoryCatchesUp ==
  \A v \in View : <>[](Norm[hash] = v) => <>[](Top = v)
=============================================================================
