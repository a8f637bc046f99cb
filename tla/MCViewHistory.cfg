\* Three events may be queued at once; histories of up to five views.
SPECIFICATION Spec
CONSTANTS
  Hash = {"", "#", "#/", "#host", "#/host", "#/volumes", "#/pool/tank"}
  View = {"/", "/host", "/volumes", "/pool/tank"}
  Norm <- MCNorm
  Spell <- MCSpell
  MaxPending = 3
  MaxHistory = 5
INVARIANTS
  NoPingPong
  SettledTop
  IgnoreIsPaired
  BackButtonTruthful
PROPERTY
  HistoryCatchesUp
