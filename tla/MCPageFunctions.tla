-------------------------- MODULE MCPageFunctions --------------------------
(* The cases the functions of PageFunctions are checked on.                  *)
EXTENDS PageFunctions

Terms == {"a", "b"}

MCTyped ==
  SeqOf([neg : BOOLEAN, term : Terms \cup {Blank}], 2) \ {<<[neg |-> FALSE, term |-> Blank]>>}

\* Headings, rows, "..", remarks, in any order.
MCLists ==
  SeqOf([is : {"heading", "up", "remark"}, text : {{}}] \cup [is : {"row"}, text : {{}, {"a"}, {"b"}}], 4)

\* A pool and three more rows, each inside of one before it; remarks hold
\* nothing.
Rows(n) ==
  [parent : 1 .. n - 1, text : SUBSET Terms, remark : {FALSE}]
    \cup [parent : 1 .. n - 1, text : {{}}, remark : {TRUE}]

MCTrees ==
  {t \in {<<r1, r2, r3, r4>> : r1 \in [parent : {0}, text : SUBSET Terms, remark : {FALSE}],
                               r2 \in Rows(2), r3 \in Rows(3), r4 \in Rows(4)} :
     \A n \in 2 .. 4 : ~t[t[n].parent].remark}

MCConfigs == SeqOf(0 .. 3, 5) \ {<<>>}

MCCharacters == {"a", "b", "/", "?", "=", "&", "%", "disk", "0", "7"}

\* Names with what an address is split at, and one that is a word of it.
MCNames == SeqOf({"a", "/", "?", "%", "disk"}, 2) \ {<<>>}

Queries(path, file, tab) == [path : path, file : file, tab : tab]
Values == {<<>>, <<"a">>, <<"=", "&">>}
None   == {<<>>}

MCPlaces ==
  [kind : {"pool"}, parts : {<<n>> : n \in MCNames}, query : Queries(None, None, Values)]
  \cup [kind : {"dataset"}, parts : MCNames \X MCNames, query : Queries(Values, Values, Values)]
  \cup [kind : {"zvol"}, parts : MCNames \X MCNames, query : Queries(None, None, None)]
  \cup [kind : {"vdev"}, parts : MCNames \X {<<"0">>, <<"7">>}, query : Queries(None, None, None)]
  \cup [kind : {"volume"}, parts : {<<n>> : n \in MCNames}, query : Queries(Values, Values, None)]
  \cup [kind : {"disk"}, parts : {<<n>> : n \in MCNames}, query : Queries(None, None, None)]

MCPaths == {<<>>, <<"a">>, <<"b">>, <<"a", "/", "b">>, <<"a", "/", "b", "/", "a">>}

MCDisks  == [size : 0 .. 6, parts : SeqOf(0 .. 3, 2), own : 0 .. 2]
MCMounts == [size : 0 .. 3, used : 0 .. 3, avail : 0 .. 3]

MCDatasets ==
  [kids : SeqOf(0 .. 2, 2), snaps : SeqOf(0 .. 2, 4), data : 0 .. 1, reservation : 0 .. 1,
   free : 0 .. 1, total : {0, 9}]

MCHistories == {[k \in 1 .. n |-> k] : n \in 0 .. 5}
=============================================================================
