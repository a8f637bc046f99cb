--------------------------- MODULE MCViewHistory ---------------------------
(* A small instance of ViewHistory: four views, one of them with three and  *)
(* one with two spellings.                                                  *)
EXTENDS ViewHistory

MCNorm == [h \in Hash |->
  CASE h \in {"", "#", "#/"}      -> "/"
    [] h \in {"#host", "#/host"}  -> "/host"
    [] h = "#/volumes"            -> "/volumes"
    [] h = "#/pool/tank"          -> "/pool/tank"]

MCSpell == [v \in View |-> CASE v = "/" -> "#/"
                             [] v = "/host" -> "#/host"
                             [] v = "/volumes" -> "#/volumes"
                             [] v = "/pool/tank" -> "#/pool/tank"]
=============================================================================
