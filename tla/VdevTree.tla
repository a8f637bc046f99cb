------------------------------ MODULE VdevTree ------------------------------
(***************************************************************************)
(* A pool's devices as the lines of `zpool status`, each with its indent:  *)
(* what a line is under (enrichConfig() in                                 *)
(* src/internal/web/static/app.js and enrichStatusLines() in               *)
(* src/internal/collector/disks.go), what a vdev's page lists              *)
(* (configChildren()), and which lines SMART takes for disks               *)
(* (isStatusConfigLeaf() in src/internal/collector/smart.go).              *)
(***************************************************************************)
EXTENDS Naturals, SequencesExt, FiniteSetsExt

\* A configuration is the sequence of its lines' indents.

\* A mutant: a line of the same indent stays.
PopDeeper(config, stack, indent) ==
  SubSeq(stack, 1, Max({0} \cup {k \in DOMAIN stack : config[stack[k]] <= indent}))

\* The stack without the lines at its top that are indented as far or further.
Pop(config, stack, indent) ==
  SubSeq(stack, 1, Max({0} \cup {k \in DOMAIN stack : config[stack[k]] < indent}))

\* enrichConfig(): the ancestors of each line, outermost first; every line is
\* pushed on what is left of the stack.
EnrichConfig(config) ==
  LET stack[i \in 0 .. Len(config)] ==
        IF i = 0 THEN <<>> ELSE Append(Pop(config, stack[i - 1], config[i]), i)
  IN [i \in DOMAIN config |-> Front(stack[i])]

\* A mutant: only what is indented further than the line before.
DirectChildren(config, j) ==
  {i \in j + 1 .. Len(config) : \A k \in j + 1 .. i : config[k] > config[k - 1]}

\* configChildren(): the lines after line j up to the first that is indented
\* no further.
ConfigChildren(config, j) ==
  {i \in j + 1 .. Len(config) : \A k \in j + 1 .. i : config[k] > config[j]}

\* isStatusConfigLeaf().
IsStatusConfigLeaf(config, i) == i = Len(config) \/ config[i + 1] <= config[i]

\* A vdev's page lists a line if and only if that line says it is under the
\* vdev, and the disks SMART asks for are those nothing is under: the page and
\* the agent, each with its own loop, see the same tree.
SameTree(config, ancestors) ==
  \A j \in DOMAIN config :
    /\ \A i \in DOMAIN config :
         i \in ConfigChildren(config, j) <=> j \in ToSet(ancestors[i])
    /\ IsStatusConfigLeaf(config, j) <=> ConfigChildren(config, j) = {}
=============================================================================
