----------------------------- MODULE ListFilters -----------------------------
(***************************************************************************)
(* What the filters of the web UI (src/internal/web/static/app.js) show:   *)
(* those over the rows of a table or list, that over a browser's entries   *)
(* and their headings, and that over the sidebar's tree.                   *)
(*                                                                         *)
(* A text is the set of the terms that occur in it; what is typed is a     *)
(* sequence of parts, the text between two commas.                         *)
(***************************************************************************)
EXTENDS Naturals, FiniteSets, SequencesExt

Blank == ""   \* a part of spaces only, with or without its "!"

-----------------------------------------------------------------------------
\* parseFilterTokens(): the terms a text must have one of, and none of.
ParseFilterTokens(parts) ==
  LET terms(neg) == {p.term : p \in {x \in ToSet(parts) : x.neg = neg /\ x.term # Blank}}
  IN [include |-> terms(FALSE), exclude |-> terms(TRUE)]

Hits(text, terms) == text \cap terms # {}

\* textMatchesFilter(); in the sidebar, navMatch(), which an ancestor's match
\* spares the terms to include.
Passes(text, tok, force) ==
  /\ ~Hits(text, tok.exclude)
  /\ force \/ tok.include = {} \/ Hits(text, tok.include)

-----------------------------------------------------------------------------
\* Entries of a list: [is, text], a row, "up" (the way to the parent
\* directory), a heading or a remark.

\* A mutant: the headings below count as well.
UnderToTheEnd(list, i) == i + 1 .. Len(list)

\* The entries under heading i: those before the next heading.
Under(list, i) ==
  {k \in i + 1 .. Len(list) : \A h \in i + 1 .. k : list[h].is # "heading"}

ShownRow(list, i, tok) ==
  \/ list[i].is = "up"
  \/ list[i].is = "row" /\ Passes(list[i].text, tok, FALSE)

\* applyListFilter(): the entries that are not hidden.
ApplyListFilter(list, parts) ==
  LET tok == ParseFilterTokens(parts) IN
  {i \in DOMAIN list :
     \/ ShownRow(list, i, tok)
     \/ list[i].is = "remark"
     \/ list[i].is = "heading" /\ (parts = <<>> \/ \E k \in Under(list, i) : ShownRow(list, k, tok))}

-----------------------------------------------------------------------------
\* A tree: the parent of each row in the order of the document, 0 for a pool,
\* volume or disk; its text; and whether it is a remark ("Loading...").

\* A mutant: a match does not spare what is inside.
SelfMatchesAlone(tree, tok) ==
  [n \in DOMAIN tree |-> Passes(tree[n].text, tok, FALSE)]

\* navMatch() of each row, forced by its parent's.
SelfMatches(tree, tok) ==
  LET match[n \in DOMAIN tree] ==
        Passes(tree[n].text, tok, tree[n].parent # 0 /\ match[tree[n].parent])
  IN match

\* filterKids() and filterTopEntry(): rows that match or have a shown row
\* inside, from the last row up.
ShownRows(tree, tok) ==
  LET match == SelfMatches(tree, tok)
      show[n \in DOMAIN tree] ==
        /\ ~tree[n].remark
        /\ match[n] \/ \E k \in DOMAIN tree : tree[k].parent = n /\ show[k]
  IN {n \in DOMAIN tree : show[n]}

\* applyNavPoolFilter(): the rows not hidden, the remarks not hidden (inside
\* what matches itself), and what the count says.
ApplyNavPoolFilter(tree, parts) ==
  LET tok  == ParseFilterTokens(parts)
      rows == ShownRows(tree, tok)
      free == {n \in DOMAIN tree : tree[n].remark /\
                 (parts = <<>> \/ SelfMatches(tree, tok)[tree[n].parent])}
  IN [shown |-> rows \cup free, count |-> Cardinality(rows),
      total |-> Cardinality({n \in DOMAIN tree : ~tree[n].remark})]

-----------------------------------------------------------------------------
\* A heading is shown with what is under it: every row on the page has its
\* heading above it, and with a filter no heading stands alone.
HeadingsHoldRows(list, parts, shown) ==
  \A i \in DOMAIN list :
    list[i].is = "heading" =>
      LET next == {h \in i + 1 .. Len(list) : list[h].is = "heading"}
          rows == {k \in shown : k > i /\ (\A h \in next : k < h)
                                 /\ list[k].is \in {"row", "up"}}
      IN /\ rows # {} => i \in shown
         /\ parts # <<>> /\ rows = {} => i \notin shown

\* A row and what it is inside of.
PathTo(tree, n) ==
  LET path[k \in DOMAIN tree] ==
        {k} \cup IF tree[k].parent = 0 THEN {} ELSE path[tree[k].parent]
  IN path[n]

\* What the sidebar's filter is for: a row is found unless it is excluded, if
\* it, or something it is inside of with nothing excluded in between, has a
\* term to include; a row is shown if it or something inside it is found.
NavShowsWhatIsFound(tree, parts, shown) ==
  LET tok == ParseFilterTokens(parts)
      excluded(n) == Hits(tree[n].text, tok.exclude)
      found(n) ==
        /\ ~tree[n].remark
        /\ \E a \in PathTo(tree, n) :
             /\ tok.include = {} \/ Hits(tree[a].text, tok.include)
             /\ \A b \in PathTo(tree, n) : a \in PathTo(tree, b) => ~excluded(b)
  IN \A n \in DOMAIN tree :
       ~tree[n].remark => (n \in shown <=> \E d \in DOMAIN tree : n \in PathTo(tree, d) /\ found(d))

\* Nothing shown is inside of something hidden, so what the filter counts is
\* what there is to see.
NavCountsWhatIsSeen(tree, result) ==
  result.count = Cardinality({n \in DOMAIN tree :
                                ~tree[n].remark /\ PathTo(tree, n) \subseteq result.shown})
=============================================================================
