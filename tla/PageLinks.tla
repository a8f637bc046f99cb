------------------------------ MODULE PageLinks ------------------------------
(***************************************************************************)
(* The addresses of the web UI (src/internal/web/static/app.js): the links *)
(* it writes and how parseRoute() reads them.                              *)
(*                                                                         *)
(* A name is a sequence of characters, "/" among them: a dataset's, a      *)
(* mount point's, or a path's.  In an address a character is itself or its *)
(* code, and a word such as "pool" is one character.                       *)
(***************************************************************************)
EXTENDS Naturals, Sequences, SequencesExt

CONSTANT Characters   \* what names are written in

\* What the escaped characters are in an address.
Codes == {"%2F", "%3F", "%3D", "%26", "%25"}

\* A code is three characters, never one.
ASSUME CharactersAssumption == Characters \cap Codes = {}

Name == Seq(Characters) \ {<<>>}

Digits == {"0", "1", "2", "3", "4", "5", "6", "7", "8", "9"}

Escape(c) ==
  CASE c = "/" -> "%2F" [] c = "?" -> "%3F" [] c = "=" -> "%3D" [] c = "&" -> "%26" [] c = "%" -> "%25"
    [] OTHER -> c

Unescape(c) ==
  CASE c = "%2F" -> "/" [] c = "%3F" -> "?" [] c = "%3D" -> "=" [] c = "%26" -> "&" [] c = "%25" -> "%"
    [] OTHER -> c

\* A mutant: encodeURI(), which leaves these as they are.
EncSegRaw(name) == name

\* encSeg(): encodeURIComponent().
EncSeg(name) == [i \in DOMAIN name |-> Escape(name[i])]

\* decodeURIComponent().
Decode(s) == [i \in DOMAIN s |-> Unescape(s[i])]

\* s.split(c): what is between the characters c.
Split(s, c) ==
  LET pieces[k \in 0 .. Len(s)] ==
        IF k = 0 THEN << <<>> >>
        ELSE LET ps == pieces[k - 1]
             IN IF s[k] = c THEN Append(ps, <<>>) ELSE Append(Front(ps), Append(Last(ps), s[k]))
  IN pieces[Len(s)]

\* ss.join(c).
Joined(ss, c) ==
  LET joined[k \in 0 .. Len(ss)] ==
        IF k = 0 THEN <<>> ELSE IF k = 1 THEN ss[1] ELSE joined[k - 1] \o <<c>> \o ss[k]
  IN joined[Len(ss)]

\* Those that are not empty: filter(Boolean), and what is pushed only if it is
\* there.
NonEmpty(ss) ==
  LET kept[k \in 0 .. Len(ss)] ==
        IF k = 0 THEN <<>> ELSE IF ss[k] = <<>> THEN kept[k - 1] ELSE Append(kept[k - 1], ss[k])
  IN kept[Len(ss)]

-----------------------------------------------------------------------------
\* What a link leads to: kind, the names in parts, and path, file and tab.
Place(kind, parts, query) == [kind |-> kind, parts |-> parts, query |-> query]

\* What a link to a place can say after "?".
Keys(kind) ==
  CASE kind = "pool"    -> <<"tab">>
    [] kind = "dataset" -> <<"path", "file", "tab">>
    [] kind = "volume"  -> <<"path", "file">>
    [] OTHER            -> <<>>

\* The part after "?": what is empty is left out.
QueryPart(query, keys) ==
  LET used == NonEmpty([i \in DOMAIN keys |->
                          IF query[keys[i]] = <<>> THEN <<>> ELSE <<keys[i], "=">> \o EncSeg(query[keys[i]])])
  IN IF used = <<>> THEN <<>> ELSE <<"?">> \o Joined(used, "&")

\* The words and names before it; a vdev's number is written as it is.
Segments(kind, p) ==
  CASE kind = "dataset" -> << <<"pool">>, EncSeg(p[1]), <<"dataset">>, EncSeg(p[2]) >>
    [] kind = "zvol"    -> << <<"pool">>, EncSeg(p[1]), <<"zvol">>, EncSeg(p[2]) >>
    [] kind = "vdev"    -> << <<"pool">>, EncSeg(p[1]), <<"vdev">>, p[2] >>
    [] OTHER            -> << <<kind>>, EncSeg(p[1]) >>

\* poolHref(), vdevHref(), datasetHref(), zvolHref(), volumeHref(), diskHref().
Href(place) ==
  Joined(<< <<>> >> \o Segments(place.kind, place.parts), "/") \o QueryPart(place.query, Keys(place.kind))

\* parseRoute(), what is before "?" and what is after.
Before(address) ==
  LET q == SelectInSeq(address, LAMBDA c : c = "?")
  IN IF q = 0 THEN address ELSE SubSeq(address, 1, q - 1)

After(address) ==
  LET q == SelectInSeq(address, LAMBDA c : c = "?")
  IN IF q = 0 THEN <<>> ELSE Split(SubSeq(address, q + 1, Len(address)), "&")

\* Of the pairs that have the key the last one counts.
Value(pairs, k) ==
  LET own == {i \in DOMAIN pairs : Split(pairs[i], "=")[1] = <<k>>}
  IN IF own = {} THEN <<>>
     ELSE Decode(Split(pairs[CHOOSE i \in own : \A j \in own : j <= i], "=")[2])

\* parseRoute(), by the segments: kinds of one word have no names, the disk of a
\* pool is a disk, and a vdev's number is read as it was written.
Route(seg, query) ==
  LET is(i, word) == Len(seg) >= i /\ seg[i] = <<word>>
      from(i) == Joined(SubSeq(seg, i, Len(seg)), "/")
  IN
  CASE Len(seg) >= 1 /\ seg[1] \in {<<"host">>, <<"remote">>, <<"volumes">>} ->
         Place(seg[1][1], <<>>, query)
    [] is(1, "volume") -> IF Len(seg) = 1 THEN Place("volumes", <<>>, query)
                          ELSE Place("volume", <<seg[2]>>, query)
    [] is(1, "disk") /\ Len(seg) >= 2 -> Place("disk", <<from(2)>>, query)
    [] is(1, "pool") /\ Len(seg) >= 2 ->
         CASE is(3, "disk") /\ Len(seg) >= 4 -> Place("disk", <<from(4)>>, query)
           [] is(3, "vdev") /\ Len(seg) >= 4 -> Place("vdev", <<seg[2], seg[4]>>, query)
           [] is(3, "dataset") /\ Len(seg) >= 4 -> Place("dataset", <<seg[2], from(4)>>, query)
           [] is(3, "zvol") /\ Len(seg) >= 4 -> Place("zvol", <<seg[2], from(4)>>, query)
           [] OTHER -> Place("pool", <<seg[2]>>, query)
    [] OTHER -> Place("home", <<>>, query)

ParseRoute(address) ==
  LET raw == NonEmpty(Split(Before(address), "/"))
  IN Route([i \in DOMAIN raw |-> Decode(raw[i])],
           [k \in {"path", "file", "tab"} |-> Value(After(address), k)])
-----------------------------------------------------------------------------
\* Without the slashes at either end.
Trimmed(path) ==
  LET rest == {i \in DOMAIN path : path[i] # "/"}
  IN IF rest = {} THEN <<>>
     ELSE SubSeq(path, CHOOSE i \in rest : \A k \in rest : i <= k,
                       CHOOSE i \in rest : \A k \in rest : k <= i)

JoinBrowsePath(base, name) ==
  IF Trimmed(base) = <<>> THEN name ELSE Trimmed(base) \o <<"/">> \o name

BrowseParentPath(path) ==
  LET p == Trimmed(path)
      i == SelectLastInSeq(p, LAMBDA c : c = "/")
  IN IF i = 0 THEN <<>> ELSE SubSeq(p, 1, i - 1)
=============================================================================
