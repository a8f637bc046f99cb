------------------------- MODULE SidebarPoolsProofs -------------------------
(* SidebarPools proved for every pool, any finite number of datasets and    *)
(* snapshots, and any number of calls, clicks and changes.                  *)
EXTENDS SidebarPools, TLAPS, FiniteSetTheorems, SequenceTheorems

\* Whatever the sidebar waits for.
Call == SidebarJob \cup PoolJob \cup DatasetJob \cup SnapshotJob

\* The calls of js whose box is in the document.
LiveAt(js) == {i \in DOMAIN js : js[i].at # "sidebar" /\ js[i].live}
LiveCalls(js) == {js[i] : i \in LiveAt(js)}

\* Calls for the pool's box, a dataset's and a snapshot's.
ForPool(c) == c.at \in {"sent", "answered"}
ForDs(c, d) == c.at = "dataset" /\ c.of = d
ForSnap(c, s) == c.at = "snapshot" /\ c.of = s

\* Whether call c is one for a box in gone.
Hit(c, gone) ==
  \/ ForPool(c) /\ Pool \in gone
  \/ c.at \in {"dataset", "snapshot"} /\ c.of \in gone

\* No rebuild is to come.
Quiet(js) == \A i \in DOMAIN js : js[i].at # "sidebar"

\* At most one call will write the pool's box.
OnePool(js) ==
  \A i, k \in LiveAt(js) : ForPool(js[i]) /\ ForPool(js[k]) => i = k

-----------------------------------------------------------------------------
\* The invariant, for a page with the boxes p, D and S and calls js; a fill is
\* about to begin for the datasets in todo. A call that is live has its box on
\* the page, and a box on "Loading..." has a live call, as long as no rebuild
\* is to come that replaces it anyway.
BoxHere(c, p, D, S) ==
  /\ ForPool(c) => p.is = "loading"
  /\ c.at = "dataset" => D[c.of].is # "absent" /\ c.snaps \subseteq SnapsOf(c.of)
  /\ c.at = "snapshot" => S[c.of] # "absent"

Tended(p, D, S, js, todo) ==
  /\ p.is # "rows" => (\A d \in Dataset : D[d].is = "absent") /\ (\A s \in Snap : S[s] = "absent")
  /\ \A d \in Dataset : D[d].is # "rows" => ~D[d].twisty
  /\ OnePool(js)
  /\ \A c \in LiveCalls(js) : BoxHere(c, p, D, S)
  /\ p.is = "loading" => \E c \in LiveCalls(js) : ForPool(c)
  /\ \A d \in Dataset : D[d].is = "loading" => d \in todo \/ \E c \in LiveCalls(js) : ForDs(c, d)
  /\ Quiet(js) => \A s \in Snap : S[s] = "loading" => \E c \in LiveCalls(js) : ForSnap(c, s)

\* With no rebuild to come the flags are those the rows on the page, and those
\* that wait, were drawn with.
Fitting(p, D, S, js) ==
  Quiet(js) =>
    /\ \A c \in LiveCalls(js) : c.at = "dataset" => c.drawn = OpenSnaps(c.snaps)
    /\ shown =>
         /\ p.is # "absent" <=> open[Pool]
         /\ \A d \in Dataset : D[d].is # "absent" <=> d \in p.twists /\ open[d]
         /\ \A s \in Snap :
              S[s] # "absent" <=> D[Of[s]].twisty /\ s \in D[Of[s]].snaps /\ open[s]

\* Rows, and those that wait, are of the listing the pool shows.
Matching(p, D, js) ==
  /\ \A d \in Dataset : D[d].is = "rows" => D[d].snaps = p.snaps \cap SnapsOf(d)
  /\ \A c \in LiveCalls(js) : c.at = "dataset" => c.snaps = p.snaps \cap SnapsOf(c.of)

\* Rows written since the filter was applied have a loop to come that applies it.
FilterToCome == unfiltered => refills > 0

\* The inductive invariant.
IInv ==
  /\ TypeOK
  /\ Tended(pool, ds, snap, jobs, {})
  /\ Fitting(pool, ds, snap, jobs)
  /\ (~crossed => Matching(pool, ds, jobs))
  /\ FilterToCome

-----------------------------------------------------------------------------
\* What a call is, by what it waits for.
LEMMA CallFact ==
  ASSUME NEW c \in Call
  PROVE  /\ c.at = "sidebar" <=> c \in SidebarJob
         /\ ForPool(c) <=> c \in PoolJob
         /\ c.at = "dataset" <=> c \in DatasetJob
         /\ c.at = "snapshot" <=> c \in SnapshotJob
         /\ c.at # "sidebar" => c.live \in BOOLEAN
<1>1. CASE c \in SidebarJob
  BY <1>1 DEF SidebarJob, PoolJob, DatasetJob, SnapshotJob, ForPool
<1>2. CASE c \in PoolJob
  BY <1>2 DEF SidebarJob, PoolJob, DatasetJob, SnapshotJob, ForPool
<1>3. CASE c \in DatasetJob
  BY <1>3 DEF SidebarJob, PoolJob, DatasetJob, SnapshotJob, ForPool
<1>4. CASE c \in SnapshotJob
  BY <1>4 DEF SidebarJob, PoolJob, DatasetJob, SnapshotJob, ForPool
<1>5. QED BY <1>1, <1>2, <1>3, <1>4 DEF Call

\* The sequence of a finite set has each element once.
LEMMA SetToSeqFact ==
  ASSUME NEW S, IsFiniteSet(S)
  PROVE  /\ SetToSeq(S) \in Seq(S)
         /\ \A x \in S : \E i \in DOMAIN SetToSeq(S) : SetToSeq(S)[i] = x
         /\ \A i, k \in DOMAIN SetToSeq(S) : SetToSeq(S)[i] = SetToSeq(S)[k] => i = k
<1>1. PICK n \in Nat : n = Cardinality(S)
  BY FS_CardinalityType
<1>2. PICK g : g \in Bijection(1 .. n, S)
  BY <1>1, FS_CardinalityType DEF ExistsBijection
<1>3. g \in [1 .. n -> S] /\ IsInjective(g)
  BY <1>2 DEF Bijection, Injection, IsInjective
<1> DEFINE f == SetToSeq(S)
<1>4. f \in [1 .. n -> S] /\ IsInjective(f)
  BY <1>1, <1>3 DEF SetToSeq
<1> HIDE DEF f
<1>5. f \in Injection(1 .. n, S)
  BY <1>4 DEF Injection, IsInjective
<1>6. Cardinality(1 .. n) = n
  BY FS_Interval
<1>7. f \in Surjection(1 .. n, S)
  BY <1>1, <1>5, <1>6, FS_Injection
<1>8. f \in Seq(S) /\ DOMAIN f = 1 .. n
  BY <1>4
<1>9. \A x \in S : \E i \in 1 .. n : f[i] = x
  BY <1>7 DEF Surjection
<1>10. \A i, k \in DOMAIN f : f[i] = f[k] => i = k
  BY <1>4 DEF IsInjective
<1>11. QED BY <1>8, <1>9, <1>10 DEF f

\* The calls without the one that has come to its end.
LEMMA RemoveFact ==
  ASSUME NEW js \in Seq(Call), NEW i \in DOMAIN js
  PROVE  /\ RemoveAt(js, i) \in Seq(Call)
         /\ LiveCalls(RemoveAt(js, i)) \subseteq LiveCalls(js)
         /\ \A c \in LiveCalls(js) : c # js[i] => c \in LiveCalls(RemoveAt(js, i))
         /\ Quiet(js) => Quiet(RemoveAt(js, i))
         /\ js[i].at # "sidebar" /\ Quiet(RemoveAt(js, i)) => Quiet(js)
         /\ OnePool(js) => OnePool(RemoveAt(js, i))
         /\ OnePool(js) /\ i \in LiveAt(js) /\ ForPool(js[i]) =>
              \A c \in LiveCalls(RemoveAt(js, i)) : ~ForPool(c)
<1>1. i \in 1 .. Len(js) /\ Len(js) \in Nat /\ DOMAIN js = 1 .. Len(js)
  OBVIOUS
<1> DEFINE a == SubSeq(js, 1, i-1)
           b == SubSeq(js, i+1, Len(js))
           r == RemoveAt(js, i)
           was(k) == IF k < i THEN k ELSE k + 1
<1>2. a \in Seq(Call) /\ Len(a) = i - 1 /\ \A k \in 1 .. i-1 : a[k] = js[k]
  BY <1>1, SubSeqProperties
<1>3. b \in Seq(Call) /\ Len(b) = Len(js) - i /\ \A k \in 1 .. Len(js) - i : b[k] = js[k + i]
  BY <1>1, SubSeqProperties
<1>4. r = a \o b
  BY DEF RemoveAt
<1> HIDE DEF a, b, r
<1>5. /\ r \in Seq(Call) /\ Len(r) = Len(js) - 1
      /\ \A k \in 1 .. Len(js) - 1 : r[k] = IF k <= i - 1 THEN a[k] ELSE b[k - (i - 1)]
  <2>1. /\ r \in Seq(Call) /\ Len(r) = Len(a) + Len(b)
        /\ \A k \in 1 .. Len(a) + Len(b) : r[k] = IF k <= Len(a) THEN a[k] ELSE b[k - Len(a)]
    BY <1>2, <1>3, <1>4, ConcatProperties
  <2>2. Len(a) + Len(b) = Len(js) - 1
    BY <1>1, <1>2, <1>3
  <2>3. QED BY <1>2, <2>1, <2>2
<1>6. DOMAIN r = 1 .. Len(js) - 1
  BY <1>1, <1>5
<1>7. ASSUME NEW k \in DOMAIN r
      PROVE  was(k) \in DOMAIN js /\ was(k) # i /\ r[k] = js[was(k)]
  <2>1. CASE k < i
    BY <1>1, <1>2, <1>5, <1>6, <2>1
  <2>2. CASE ~(k < i)
    <3>1. k \in Nat /\ k - (i - 1) \in 1 .. Len(js) - i
      BY <1>1, <1>6, <2>2
    <3>2. r[k] = b[k - (i - 1)]
      <4>1. k \in 1 .. Len(js) - 1 /\ ~(k <= i - 1)
        BY <1>1, <1>6, <2>2
      <4>2. QED BY <1>5, <4>1
    <3>3. b[k - (i - 1)] = js[k - (i - 1) + i]
      BY <1>3, <3>1
    <3>4. k - (i - 1) + i = k + 1
      BY <1>1, <3>1
    <3>5. QED BY <1>1, <1>6, <2>2, <3>2, <3>3, <3>4
  <2>3. QED BY <2>1, <2>2
<1>8. ASSUME NEW m \in DOMAIN js, m # i
      PROVE  \E k \in DOMAIN r : was(k) = m /\ r[k] = js[m]
  <2>1. CASE m < i
    BY <1>1, <1>6, <1>7, <2>1
  <2>2. CASE ~(m < i)
    <3>1. m - 1 \in DOMAIN r /\ was(m - 1) = m
      BY <1>1, <1>6, <1>8, <2>2
    <3>2. QED BY <1>7, <3>1
  <2>3. QED BY <2>1, <2>2
<1>9. \A k, m \in DOMAIN r : was(k) = was(m) => k = m
  BY <1>1, <1>6
<1> HIDE DEF was
<1>10. \A k \in LiveAt(r) : was(k) \in LiveAt(js) /\ r[k] = js[was(k)] /\ was(k) # i
  BY <1>7 DEF LiveAt
<1>11. \A m \in LiveAt(js) : m # i => \E k \in LiveAt(r) : r[k] = js[m]
  BY <1>8 DEF LiveAt
<1>12. LiveCalls(r) \subseteq LiveCalls(js)
  BY <1>10 DEF LiveCalls
<1>13. \A c \in LiveCalls(js) : c # js[i] => c \in LiveCalls(r)
  BY <1>11 DEF LiveCalls
<1>14. Quiet(js) => Quiet(r)
  BY <1>7 DEF Quiet
<1>15. js[i].at # "sidebar" /\ Quiet(r) => Quiet(js)
  BY <1>8 DEF Quiet
<1>16. OnePool(js) => OnePool(r)
  <2> SUFFICES ASSUME OnePool(js), NEW k \in LiveAt(r), NEW m \in LiveAt(r),
                      ForPool(r[k]), ForPool(r[m])
               PROVE  k = m
    BY DEF OnePool
  <2>1. was(k) = was(m)
    BY <1>10 DEF OnePool
  <2>2. QED BY <1>9, <2>1 DEF LiveAt
<1>17. OnePool(js) /\ i \in LiveAt(js) /\ ForPool(js[i]) => \A c \in LiveCalls(r) : ~ForPool(c)
  <2> SUFFICES ASSUME OnePool(js), i \in LiveAt(js), ForPool(js[i]),
                      NEW k \in LiveAt(r), ForPool(r[k])
               PROVE  FALSE
    BY DEF LiveCalls
  <2>1. QED BY <1>10 DEF OnePool
<1>18. QED BY <1>5, <1>12, <1>13, <1>14, <1>15, <1>16, <1>17 DEF r

\* When boxes leave the document the calls for them are there no more.
LEMMA DetachFact ==
  ASSUME NEW js \in Seq(Call), NEW gone
  PROVE  /\ Detach(js, gone) \in Seq(Call)
         /\ LiveCalls(Detach(js, gone)) = {c \in LiveCalls(js) : ~Hit(c, gone)}
         /\ Quiet(Detach(js, gone)) <=> Quiet(js)
         /\ OnePool(js) => OnePool(Detach(js, gone))
<1> DEFINE r == Detach(js, gone)
<1>1. Len(js) \in Nat /\ DOMAIN js = 1 .. Len(js)
  OBVIOUS
<1>2. /\ r = [i \in DOMAIN js |-> r[i]]
      /\ DOMAIN r = DOMAIN js
      /\ \A i \in DOMAIN js : r[i] = IF Hit(js[i], gone) THEN [js[i] EXCEPT !.live = FALSE]
                                     ELSE js[i]
  BY DEF Detach, Hit, ForPool
<1> HIDE DEF r
<1>3. ASSUME NEW i \in DOMAIN js
      PROVE  /\ r[i] \in Call /\ r[i].at = js[i].at
             /\ Hit(js[i], gone) => i \notin LiveAt(r)
             /\ ~Hit(js[i], gone) => r[i] = js[i]
  <2>1. CASE ~Hit(js[i], gone)
    BY <1>2, <2>1
  <2>2. CASE Hit(js[i], gone)
    <3>1. js[i] \in Call /\ js[i].at \in {"sent", "answered", "dataset", "snapshot"}
      BY <2>2 DEF Hit, ForPool
    <3>2. js[i] \in PoolJob \cup DatasetJob \cup SnapshotJob
      BY <3>1, CallFact DEF ForPool
    <3>3. r[i] = [js[i] EXCEPT !.live = FALSE]
      BY <1>2, <2>2
    <3>4. /\ r[i] \in PoolJob \cup DatasetJob \cup SnapshotJob
          /\ r[i].at = js[i].at /\ r[i].live = FALSE
      BY <3>2, <3>3 DEF PoolJob, DatasetJob, SnapshotJob
    <3>5. QED BY <2>2, <3>4 DEF Call, LiveAt
  <2>3. QED BY <2>1, <2>2
<1>4. r \in Seq(Call)
  <2>1. \A i \in DOMAIN js : r[i] \in Call
    BY <1>3
  <2>2. r \in [1 .. Len(js) -> Call]
    <3> HIDE DEF Call
    <3>1. r \in [DOMAIN js -> Call]
      BY <1>2, <2>1
    <3>2. QED BY <1>1, <3>1
  <2>3. QED BY <1>1, <2>2
<1>5. \A i : i \in LiveAt(r) <=> i \in LiveAt(js) /\ ~Hit(js[i], gone)
  BY <1>2, <1>3 DEF LiveAt
<1>6. \A i \in LiveAt(r) : r[i] = js[i]
  BY <1>3, <1>5 DEF LiveAt
<1>7. LiveCalls(r) = {c \in LiveCalls(js) : ~Hit(c, gone)}
  BY <1>5, <1>6 DEF LiveCalls
<1>8. Quiet(r) <=> Quiet(js)
  BY <1>2, <1>3 DEF Quiet
<1>9. OnePool(js) => OnePool(r)
  BY <1>5, <1>6 DEF OnePool
<1>10. QED BY <1>4, <1>7, <1>8, <1>9 DEF r

\* New calls come after those there are.
LEMMA SpawnFact ==
  ASSUME NEW js \in Seq(Call), NEW new \in SUBSET Call, IsFiniteSet(new), Spawn(js, new)
  PROVE  /\ jobs' \in Seq(Call)
         /\ LiveCalls(jobs') = LiveCalls(js) \cup {c \in new : c.at # "sidebar" /\ c.live}
         /\ Quiet(jobs') => Quiet(js) /\ \A c \in new : c.at # "sidebar"
         /\ OnePool(js) /\ (\A c \in new : ~ForPool(c)) => OnePool(jobs')
         /\ (\A c \in LiveCalls(js) : ~ForPool(c)) /\ (\A c, e \in new : c = e)
              => OnePool(jobs')
<1> DEFINE t == SetToSeq(new)
<1>1. /\ t \in Seq(new) /\ t \in Seq(Call)
      /\ \A x \in new : \E i \in DOMAIN t : t[i] = x
      /\ \A i, k \in DOMAIN t : t[i] = t[k] => i = k
  BY SetToSeqFact
<1>2. jobs' = js \o t
  BY DEF Spawn
<1> HIDE DEF t
<1>3. /\ Len(js) \in Nat /\ DOMAIN js = 1 .. Len(js)
      /\ Len(t) \in Nat /\ DOMAIN t = 1 .. Len(t)
  BY <1>1
<1>4. /\ jobs' \in Seq(Call) /\ Len(jobs') = Len(js) + Len(t)
      /\ \A i \in 1 .. Len(js) + Len(t) :
           jobs'[i] = IF i <= Len(js) THEN js[i] ELSE t[i - Len(js)]
  BY <1>1, <1>2, ConcatProperties
<1>5. DOMAIN jobs' = 1 .. Len(js) + Len(t)
  BY <1>3, <1>4
<1>6. \A i \in DOMAIN js : i \in DOMAIN jobs' /\ jobs'[i] = js[i]
  BY <1>3, <1>4, <1>5
<1>7. ASSUME NEW i \in DOMAIN jobs', i \notin DOMAIN js
      PROVE  /\ i - Len(js) \in DOMAIN t /\ jobs'[i] = t[i - Len(js)]
             /\ jobs'[i] \in new /\ i \in Nat
  <2>1. i \in Nat /\ i \in 1 .. Len(js) + Len(t) /\ ~(i <= Len(js)) /\ i - Len(js) \in DOMAIN t
    BY <1>3, <1>5, <1>7
  <2>2. jobs'[i] = t[i - Len(js)]
    BY <1>4, <2>1
  <2>3. QED BY <1>1, <2>1, <2>2
<1>8. ASSUME NEW c \in new
      PROVE  \E i \in DOMAIN jobs' : jobs'[i] = c
  <2>1. PICK k \in DOMAIN t : t[k] = c
    BY <1>1
  <2>2. /\ k + Len(js) \in DOMAIN jobs' /\ ~(k + Len(js) <= Len(js))
        /\ k + Len(js) - Len(js) = k
    BY <1>3, <1>5
  <2>3. QED BY <1>4, <1>5, <2>1, <2>2
<1>9. \A i \in LiveAt(jobs') : (i \in LiveAt(js) /\ jobs'[i] = js[i]) \/ jobs'[i] \in new
  BY <1>6, <1>7 DEF LiveAt
<1>10. LiveAt(js) \subseteq LiveAt(jobs')
  BY <1>6 DEF LiveAt
<1>11. LiveCalls(jobs') = LiveCalls(js) \cup {c \in new : c.at # "sidebar" /\ c.live}
  <2>1. ASSUME NEW i \in LiveAt(jobs')
        PROVE  \/ jobs'[i] \in LiveCalls(js)
               \/ jobs'[i] \in new /\ jobs'[i].at # "sidebar" /\ jobs'[i].live
    BY <1>9 DEF LiveCalls, LiveAt
  <2>2. ASSUME NEW i \in LiveAt(js) PROVE js[i] \in LiveCalls(jobs')
    BY <1>6, <1>10 DEF LiveCalls, LiveAt
  <2>3. ASSUME NEW c \in new, c.at # "sidebar", c.live PROVE c \in LiveCalls(jobs')
    BY <1>8, <2>3 DEF LiveCalls, LiveAt
  <2>4. QED BY <2>1, <2>2, <2>3 DEF LiveCalls
<1>12. Quiet(jobs') => Quiet(js) /\ \A c \in new : c.at # "sidebar"
  BY <1>6, <1>8 DEF Quiet
<1>13. OnePool(js) /\ (\A c \in new : ~ForPool(c)) => OnePool(jobs')
  BY <1>9 DEF OnePool
<1>14. (\A c \in LiveCalls(js) : ~ForPool(c)) /\ (\A c, e \in new : c = e) => OnePool(jobs')
  <2> SUFFICES ASSUME \A c \in LiveCalls(js) : ~ForPool(c), \A c, e \in new : c = e,
                      NEW i \in LiveAt(jobs'), NEW k \in LiveAt(jobs'),
                      ForPool(jobs'[i]), ForPool(jobs'[k])
               PROVE  i = k
    BY DEF OnePool
  <2>1. i \notin DOMAIN js /\ k \notin DOMAIN js
    BY <1>6 DEF LiveCalls, LiveAt
  <2>2. i \in DOMAIN jobs' /\ k \in DOMAIN jobs'
    BY DEF LiveAt
  <2>3. t[i - Len(js)] = t[k - Len(js)]
    BY <1>7, <2>1, <2>2
  <2>4. i - Len(js) = k - Len(js)
    BY <1>1, <1>7, <2>1, <2>2, <2>3
  <2>5. QED BY <1>3, <1>7, <2>1, <2>2, <2>4
<1>15. QED BY <1>4, <1>11, <1>12, <1>13, <1>14

-----------------------------------------------------------------------------
\* The invariant is of the boxes, the calls, the flags, what the sidebar is,
\* and of the filter.
LEMMA Parts ==
  /\ IInv => jobs \in Seq(Call)
  /\ IInv' <=> /\ TypeOK' /\ Tended(pool', ds', snap', jobs', {})
               /\ Fitting(pool, ds, snap, jobs)'
               /\ (~crossed' => Matching(pool', ds', jobs'))
               /\ FilterToCome'
BY DEF IInv, TypeOK, Call, Tended, OnePool, BoxHere, Matching, LiveCalls, LiveAt, Quiet,
       ForPool, ForDs, ForSnap

\* A new sidebar: no call from before it has a box in it.
LEMMA RebuildKeeps ==
  ASSUME NEW js \in Seq(Call), NEW ok \in BOOLEAN, Rebuild(js, ok),
         open' \in [{Pool} \cup Dataset \cup Snap -> BOOLEAN]
  PROVE  /\ shown' \in BOOLEAN /\ pool' \in PoolBox /\ ds' \in [Dataset -> DsBox]
         /\ snap' \in [Snap -> {"absent", "loading", "rows"}] /\ jobs' \in Seq(Call)
         /\ unfiltered' = FALSE /\ crossed' = FALSE
         /\ Tended(pool', ds', snap', jobs', {})
         /\ Fitting(pool, ds, snap, jobs)'
         /\ Matching(pool', ds', jobs')
<1> DEFINE opens == ok /\ open'[Pool]
           one == [at |-> "sent", live |-> TRUE, snaps |-> {}]
           new == IF opens THEN {one} ELSE {}
           old == Detach(js, Everything)
<1>1. /\ shown' = ok
      /\ pool' = [NoPool EXCEPT !.is = IF opens THEN "loading" ELSE "absent"]
      /\ ds' = [d \in Dataset |-> NoDs] /\ snap' = [s \in Snap |-> "absent"]
      /\ Spawn(old, new) /\ unfiltered' = FALSE /\ crossed' = FALSE
  BY DEF Rebuild
<1>2. /\ pool' \in PoolBox /\ ds' \in [Dataset -> DsBox]
      /\ pool'.is = (IF opens THEN "loading" ELSE "absent")
      /\ pool'.snaps = {} /\ pool'.twists = {}
      /\ \A d \in Dataset : ds'[d].is = "absent" /\ ds'[d].twisty = FALSE
      /\ \A s \in Snap : snap'[s] = "absent"
  BY <1>1 DEF NoPool, NoDs, PoolBox, DsBox
<1>3. /\ one \in Call /\ ForPool(one) /\ one.at = "sent" /\ one.live
      /\ one.at # "sidebar" /\ one.at # "dataset" /\ one.at # "snapshot"
  BY DEF Call, PoolJob, ForPool
<1>4. IsFiniteSet(new) /\ \A c, e \in new : c = e
  BY FS_EmptySet, FS_Singleton
<1>5. old \in Seq(Call) /\ LiveCalls(old) = {}
  <2>1. /\ old \in Seq(Call)
        /\ LiveCalls(old) = {c \in LiveCalls(js) : ~Hit(c, Everything)}
    BY DetachFact
  <2>2. ASSUME NEW i \in LiveAt(js) PROVE Hit(js[i], Everything)
    <3>1. js[i] \in Call /\ js[i].at # "sidebar"
      BY DEF LiveAt
    <3>2. js[i] \in PoolJob \cup DatasetJob \cup SnapshotJob
      BY <3>1, CallFact DEF Call
    <3>3. QED BY <3>2 DEF PoolJob, DatasetJob, SnapshotJob, Hit, ForPool, Everything
  <2>3. \A c \in LiveCalls(js) : Hit(c, Everything)
    BY <2>2 DEF LiveCalls
  <2> HIDE DEF old
  <2>4. QED BY <2>1, <2>3
<1> HIDE DEF one, old
<1>6. new \in SUBSET Call
  BY <1>3
<1> HIDE DEF new
<1>7. jobs' \in Seq(Call) /\ LiveCalls(jobs') = {c \in new : c.at # "sidebar" /\ c.live}
      /\ OnePool(jobs')
  BY <1>1, <1>4, <1>5, <1>6, SpawnFact
<1>8. LiveCalls(jobs') = IF opens THEN {one} ELSE {}
  BY <1>3, <1>7 DEF new
<1>9. \A c \in LiveCalls(jobs') : ForPool(c) /\ opens /\ c.at # "dataset" /\ c.at # "snapshot"
  BY <1>3, <1>8
<1>10. opens => \E c \in LiveCalls(jobs') : ForPool(c)
  BY <1>3, <1>8
<1>11. Tended(pool', ds', snap', jobs', {})
  <2>1. \A c \in LiveCalls(jobs') : BoxHere(c, pool', ds', snap')
    BY <1>2, <1>9 DEF BoxHere
  <2>2. QED BY <1>2, <1>7, <1>10, <2>1 DEF Tended
<1>12. Fitting(pool, ds, snap, jobs)'
  <2>1. \A s \in Snap : Of[s] \in Dataset
    BY TreeAssumption
  <2>2. open'[Pool] \in BOOLEAN
    OBVIOUS
  <2>3. shown' => (pool'.is # "absent" <=> open'[Pool])
    BY <1>1, <1>2, <2>2
  <2>4. \A c \in LiveCalls(jobs') : c.at # "dataset"
    BY <1>9
  <2>5. QED BY <1>2, <2>1, <2>3, <2>4 DEF Fitting, LiveCalls, LiveAt
<1>13. Matching(pool', ds', jobs')
  BY <1>2, <1>9 DEF Matching
<1>14. QED BY <1>1, <1>2, <1>7, <1>11, <1>12, <1>13

\* The sidebar at the start is empty, and nothing is under way.
LEMMA InitInv == Init => IInv
<1> SUFFICES ASSUME Init PROVE IInv
  OBVIOUS
<1>1. /\ jobs = <<>> /\ pool = NoPool /\ shown = FALSE /\ unfiltered = FALSE
      /\ \A d \in Dataset : ds[d] = NoDs
      /\ \A s \in Snap : snap[s] = "absent"
      /\ \A s \in Snap : Of[s] \in Dataset
  BY TreeAssumption DEF Init
<1>2. LiveAt(jobs) = {} /\ LiveCalls(jobs) = {}
  BY <1>1 DEF LiveAt, LiveCalls
<1>3. TypeOK
  <2>1. NoPool \in PoolBox /\ NoDs \in DsBox
    BY DEF NoPool, NoDs, PoolBox, DsBox
  <2>2. jobs \in Seq(SidebarJob \cup PoolJob \cup DatasetJob \cup SnapshotJob)
    BY <1>1
  <2>3. QED BY <2>1, <2>2 DEF Init, TypeOK
<1>4. Tended(pool, ds, snap, jobs, {})
  BY <1>1, <1>2 DEF Tended, OnePool, NoPool, NoDs
<1>5. Fitting(pool, ds, snap, jobs) /\ Matching(pool, ds, jobs)
  BY <1>1, <1>2 DEF Fitting, Matching, NoPool, NoDs
<1>6. FilterToCome
  BY <1>1 DEF FilterToCome
<1>7. QED BY <1>3, <1>4, <1>5, <1>6 DEF IInv

\* renderSidebar(), whatever flags have just changed.
LEMMA RenderSidebarInv ==
  ASSUME IInv, RenderSidebar, refills' = refills,
         exists' \subseteq Snap, changes' \in Nat, cached' \in BOOLEAN, files' \in BOOLEAN,
         open' \in [{Pool} \cup Dataset \cup Snap -> BOOLEAN],
         rendering' \in Nat, steps' \in Nat
  PROVE  IInv'
<1>1. TypeOK /\ jobs \in Seq(Call) /\ refills' \in Nat
  BY Parts DEF IInv, TypeOK
<1>2. CASE cached
  <2>1. Rebuild(jobs, TRUE)
    BY <1>2 DEF RenderSidebar
  <2>2. /\ shown' \in BOOLEAN /\ pool' \in PoolBox /\ ds' \in [Dataset -> DsBox]
        /\ snap' \in [Snap -> {"absent", "loading", "rows"}] /\ jobs' \in Seq(Call)
        /\ unfiltered' = FALSE /\ crossed' = FALSE
        /\ Tended(pool', ds', snap', jobs', {})
        /\ Fitting(pool, ds, snap, jobs)'
        /\ Matching(pool', ds', jobs')
    BY <1>1, <2>1, RebuildKeeps
  <2>3. TypeOK'
    BY <1>1, <2>2 DEF TypeOK, Call
  <2>4. QED BY <2>2, <2>3, Parts DEF FilterToCome
<1>3. CASE ~cached
  <2> DEFINE new == {[at |-> "sidebar"]}
  <2>1. /\ Spawn(jobs, new)
        /\ shown' = shown /\ pool' = pool /\ ds' = ds /\ snap' = snap
        /\ unfiltered' = unfiltered /\ crossed' = crossed
    BY <1>3 DEF RenderSidebar, page
  <2>2. new \in SUBSET Call /\ \A c \in new : c.at = "sidebar"
    BY DEF Call, SidebarJob
  <2>3. IsFiniteSet(new)
    BY FS_Singleton
  <2>4. \E c \in new : TRUE
    OBVIOUS
  <2> HIDE DEF new
  <2>5. \A c \in new : ~ForPool(c)
    BY <2>2 DEF ForPool
  <2>6. /\ jobs' \in Seq(Call) /\ LiveCalls(jobs') = LiveCalls(jobs) /\ ~Quiet(jobs')
        /\ OnePool(jobs) => OnePool(jobs')
    <3>1. /\ jobs' \in Seq(Call)
          /\ LiveCalls(jobs') = LiveCalls(jobs) \cup {c \in new : c.at # "sidebar" /\ c.live}
          /\ Quiet(jobs') => Quiet(jobs) /\ \A c \in new : c.at # "sidebar"
          /\ OnePool(jobs) /\ (\A c \in new : ~ForPool(c)) => OnePool(jobs')
      BY <1>1, <2>1, <2>2, <2>3, SpawnFact
    <3>2. QED BY <2>2, <2>4, <2>5, <3>1
  <2>7. TypeOK'
    BY <1>1, <2>1, <2>6 DEF TypeOK, Call
  <2>8. Tended(pool', ds', snap', jobs', {})
    BY <2>1, <2>6 DEF IInv, Tended
  <2>9. Fitting(pool, ds, snap, jobs)'
    BY <2>6 DEF Fitting, Quiet
  <2>10. ~crossed' => Matching(pool', ds', jobs')
    BY <2>1, <2>6 DEF IInv, Matching
  <2>11. FilterToCome'
    BY <2>1 DEF IInv, FilterToCome
  <2>12. QED BY <2>7, <2>8, <2>9, <2>10, <2>11, Parts
<1>4. QED BY <1>2, <1>3

\* The listings arrive, or an error.
LEMMA DeliverSidebarInv ==
  ASSUME IInv, NEW i \in DOMAIN jobs, DeliverSidebar(i)
  PROVE  IInv'
<1> DEFINE js == RemoveAt(jobs, i)
<1>1. /\ exists' = exists /\ changes' = changes /\ files' = files /\ open' = open
      /\ refills' = refills /\ rendering' = rendering /\ steps' = steps
  BY DEF DeliverSidebar
<1>2. PICK ok \in BOOLEAN : cached' = (cached \/ ok) /\ Rebuild(js, ok)
  BY DEF DeliverSidebar
<1>3. TypeOK /\ jobs \in Seq(Call)
  BY Parts DEF IInv
<1>4. js \in Seq(Call)
  BY <1>3, RemoveFact
<1>5. open' \in [{Pool} \cup Dataset \cup Snap -> BOOLEAN]
  BY <1>1, <1>3 DEF TypeOK
<1> HIDE DEF js
<1>6. /\ shown' \in BOOLEAN /\ pool' \in PoolBox /\ ds' \in [Dataset -> DsBox]
      /\ snap' \in [Snap -> {"absent", "loading", "rows"}] /\ jobs' \in Seq(Call)
      /\ unfiltered' = FALSE /\ crossed' = FALSE
      /\ Tended(pool', ds', snap', jobs', {})
      /\ Fitting(pool, ds, snap, jobs)'
      /\ Matching(pool', ds', jobs')
  BY <1>2, <1>4, <1>5, RebuildKeeps
<1>7. cached' \in BOOLEAN
  BY <1>2, <1>3 DEF TypeOK
<1>8. TypeOK'
  BY <1>1, <1>3, <1>6, <1>7 DEF TypeOK, Call
<1>9. QED BY <1>6, <1>8, Parts DEF FilterToCome

-----------------------------------------------------------------------------
\* The agent's answer is known to the call alone.
LEMMA AnswerPoolInv ==
  ASSUME IInv, NEW i \in DOMAIN jobs, AnswerPool(i)
  PROVE  IInv'
<1>1. /\ jobs[i].at = "sent"
      /\ jobs' = [jobs EXCEPT ![i].at = "answered", ![i].snaps = exists]
      /\ exists' = exists /\ changes' = changes /\ cached' = cached /\ files' = files
      /\ open' = open /\ shown' = shown /\ pool' = pool /\ ds' = ds /\ snap' = snap
      /\ refills' = refills /\ rendering' = rendering /\ steps' = steps
      /\ unfiltered' = unfiltered /\ crossed' = crossed
  BY DEF AnswerPool, nav, page
<1>2. TypeOK /\ jobs \in Seq(Call) /\ exists \subseteq Snap
  BY Parts DEF IInv, TypeOK
<1>3. jobs[i] \in PoolJob
  BY <1>1, <1>2, CallFact DEF ForPool
<1> DEFINE new == [jobs[i] EXCEPT !.at = "answered", !.snaps = exists]
<1>4. /\ new \in PoolJob /\ new.at = "answered" /\ new.live = jobs[i].live
  BY <1>2, <1>3 DEF PoolJob
<1>5. jobs' = [jobs EXCEPT ![i] = new]
  BY <1>1, <1>2
<1> HIDE DEF new
<1>6. new \in Call
  BY <1>4 DEF Call
<1>7. jobs' \in Seq(Call) /\ DOMAIN jobs' = DOMAIN jobs /\ jobs'[i] = new
      /\ \A k \in DOMAIN jobs : k # i => jobs'[k] = jobs[k]
  <2> HIDE DEF Call
  <2> QED BY <1>2, <1>5, <1>6
<1>8. LiveAt(jobs') = LiveAt(jobs)
  BY <1>1, <1>4, <1>7 DEF LiveAt
<1>9. \A k \in LiveAt(jobs) :
        /\ ForPool(jobs'[k]) <=> ForPool(jobs[k])
        /\ ~ForPool(jobs[k]) => jobs'[k] = jobs[k]
  BY <1>1, <1>4, <1>7 DEF ForPool, LiveAt
<1>10. \A c : ~ForPool(c) => (c \in LiveCalls(jobs') <=> c \in LiveCalls(jobs))
  BY <1>8, <1>9 DEF LiveCalls
<1>11. (\E c \in LiveCalls(jobs) : ForPool(c)) <=> \E c \in LiveCalls(jobs') : ForPool(c)
  BY <1>8, <1>9 DEF LiveCalls
<1>12. Quiet(jobs') <=> Quiet(jobs)
  BY <1>1, <1>4, <1>7 DEF Quiet
<1>13. OnePool(jobs) => OnePool(jobs')
  BY <1>8, <1>9 DEF OnePool
<1>14. \A c : c.at \in {"dataset", "snapshot"} => ~ForPool(c)
  BY DEF ForPool
<1>15. TypeOK'
  BY <1>1, <1>2, <1>7 DEF TypeOK, Call
<1>16. Tended(pool', ds', snap', jobs', {})
  <2>1. ASSUME NEW c \in LiveCalls(jobs') PROVE BoxHere(c, pool, ds, snap)
    <3>1. CASE ForPool(c)
      BY <1>11, <3>1 DEF IInv, Tended, BoxHere, ForPool
    <3>2. CASE ~ForPool(c)
      BY <1>10, <3>2 DEF IInv, Tended
    <3>3. QED BY <3>1, <3>2
  <2>2. \A c, d : ForDs(c, d) \/ ForSnap(c, d) => ~ForPool(c)
    BY DEF ForDs, ForSnap, ForPool
  <2>3. \A d \in Dataset : (\E c \in LiveCalls(jobs) : ForDs(c, d))
                               => \E c \in LiveCalls(jobs') : ForDs(c, d)
    BY <1>10, <2>2
  <2>4. \A s \in Snap : (\E c \in LiveCalls(jobs) : ForSnap(c, s))
                               => \E c \in LiveCalls(jobs') : ForSnap(c, s)
    BY <1>10, <2>2
  <2>5. QED BY <1>1, <1>11, <1>12, <1>13, <2>1, <2>3, <2>4 DEF IInv, Tended
<1>17. Fitting(pool, ds, snap, jobs)'
  <2>1. \A c \in LiveCalls(jobs') : c.at = "dataset" => c \in LiveCalls(jobs)
    BY <1>10, <1>14
  <2>2. Fitting(pool, ds, snap, jobs)
    BY DEF IInv
  <2>3. QED BY <1>1, <1>12, <2>1, <2>2 DEF Fitting, OpenSnaps, Quiet, LiveCalls, LiveAt
<1>18. ~crossed' => Matching(pool', ds', jobs')
  <2>1. \A c \in LiveCalls(jobs') : c.at = "dataset" => c \in LiveCalls(jobs)
    BY <1>10, <1>14
  <2>2. ~crossed => Matching(pool, ds, jobs)
    BY DEF IInv
  <2>3. QED BY <1>1, <2>1, <2>2 DEF Matching
<1>19. FilterToCome'
  BY <1>1 DEF IInv, FilterToCome
<1>20. QED BY <1>15, <1>16, <1>17, <1>18, <1>19, Parts

\* A call whose box is there is a fill.
LEMMA LiveFact ==
  ASSUME NEW js \in Seq(Call), NEW c \in LiveCalls(js)
  PROVE  c \in Call /\ c.at # "sidebar" /\ c.live
<1>1. PICK i \in LiveAt(js) : c = js[i]
  BY DEF LiveCalls
<1>2. i \in DOMAIN js /\ js[i].at # "sidebar" /\ js[i].live
  BY <1>1 DEF LiveAt
<1>3. js[i] \in Call
  <2> HIDE DEF Call
  <2> QED BY <1>2
<1>4. QED BY <1>1, <1>2, <1>3

\* A call whose box has left takes no other call with it.
LEMMA LostFact ==
  ASSUME NEW js \in Seq(Call), NEW i \in DOMAIN js, js[i].at # "sidebar", ~js[i].live
  PROVE  LiveCalls(RemoveAt(js, i)) = LiveCalls(js)
<1>1. \A c \in LiveCalls(js) : c # js[i]
  BY DEF LiveCalls, LiveAt
<1>2. /\ LiveCalls(RemoveAt(js, i)) \subseteq LiveCalls(js)
      /\ \A c \in LiveCalls(js) : c # js[i] => c \in LiveCalls(RemoveAt(js, i))
  BY RemoveFact, Zenon
<1>3. QED BY <1>1, <1>2

\* No answer for the pool's box, and an error is put in it.
LEMMA FailPoolInv ==
  ASSUME IInv, NEW i \in DOMAIN jobs, FailPool(i)
  PROVE  IInv'
<1> DEFINE j == jobs[i]
<1>1. /\ j.at \in {"sent", "answered"}
      /\ pool' = (IF j.live THEN [NoPool EXCEPT !.is = "error"] ELSE pool)
      /\ jobs' = RemoveAt(jobs, i)
      /\ exists' = exists /\ changes' = changes /\ cached' = cached /\ files' = files
      /\ open' = open /\ shown' = shown /\ ds' = ds /\ snap' = snap
      /\ refills' = refills /\ rendering' = rendering /\ steps' = steps
      /\ unfiltered' = unfiltered /\ crossed' = crossed
  BY DEF FailPool, nav
<1>2. TypeOK /\ jobs \in Seq(Call) /\ j \in Call
  BY Parts DEF IInv
<1>3. ForPool(j) /\ j.at # "sidebar"
  BY <1>1 DEF ForPool
<1>4. /\ jobs' \in Seq(Call) /\ LiveCalls(jobs') \subseteq LiveCalls(jobs)
      /\ Quiet(jobs') => Quiet(jobs)
      /\ OnePool(jobs) => OnePool(jobs')
      /\ OnePool(jobs) /\ i \in LiveAt(jobs) => \A c \in LiveCalls(jobs') : ~ForPool(c)
  BY <1>1, <1>2, <1>3, RemoveFact
<1>5. Tended(pool, ds, snap, jobs, {}) /\ Fitting(pool, ds, snap, jobs)
      /\ (~crossed => Matching(pool, ds, jobs))
  BY DEF IInv
<1>6. FilterToCome'
  BY <1>1 DEF IInv, FilterToCome
<1>7. CASE ~j.live
  <2>1. LiveCalls(jobs') = LiveCalls(jobs) /\ pool' = pool
    BY <1>1, <1>2, <1>3, <1>7, LostFact
  <2>2. TypeOK'
    BY <1>1, <1>2, <1>4, <2>1 DEF TypeOK, Call
  <2>3. Tended(pool', ds', snap', jobs', {})
    BY <1>1, <1>4, <1>5, <2>1 DEF Tended
  <2>4. Fitting(pool, ds, snap, jobs)'
    BY <1>1, <1>4, <1>5, <2>1 DEF Fitting, OpenSnaps, LiveCalls, LiveAt, Quiet
  <2>5. ~crossed' => Matching(pool', ds', jobs')
    BY <1>1, <1>5, <2>1 DEF Matching
  <2>6. QED BY <1>6, <2>2, <2>3, <2>4, <2>5, Parts
<1>8. CASE j.live
  <2>1. i \in LiveAt(jobs) /\ j \in LiveCalls(jobs)
    BY <1>3, <1>8 DEF LiveAt, LiveCalls
  <2>2. pool.is = "loading"
    BY <1>3, <1>5, <2>1 DEF Tended, BoxHere
  <2>3. /\ \A d \in Dataset : ds[d].is = "absent" /\ ~ds[d].twisty
        /\ \A s \in Snap : snap[s] = "absent"
    BY <1>5, <2>2 DEF Tended
  <2>4. LiveCalls(jobs') = {}
    <3> SUFFICES ASSUME NEW c \in LiveCalls(jobs') PROVE FALSE
      OBVIOUS
    <3>1. c \in LiveCalls(jobs) /\ ~ForPool(c)
      BY <1>4, <1>5, <2>1 DEF Tended
    <3>2. c \in Call /\ c.at # "sidebar"
      BY <1>2, <3>1 DEF LiveCalls, LiveAt
    <3>3. c \in DatasetJob \/ c \in SnapshotJob
      BY <3>1, <3>2, CallFact DEF Call
    <3>4. BoxHere(c, pool, ds, snap)
      BY <1>5, <3>1 DEF Tended
    <3>5. QED BY <2>3, <3>3, <3>4 DEF BoxHere, DatasetJob, SnapshotJob
  <2>5. /\ pool' \in PoolBox /\ pool'.is = "error" /\ pool'.snaps = {} /\ pool'.twists = {}
    BY <1>1, <1>8 DEF NoPool, PoolBox
  <2>6. TypeOK'
    BY <1>1, <1>2, <1>4, <2>5 DEF TypeOK, Call
  <2>7. Tended(pool', ds', snap', jobs', {})
    BY <1>1, <1>4, <1>5, <2>3, <2>4, <2>5 DEF Tended
  <2>8. Fitting(pool, ds, snap, jobs)'
    <3>1. \A s \in Snap : Of[s] \in Dataset
      BY TreeAssumption
    <3>2. ASSUME Quiet(jobs'), shown PROVE open[Pool]
      BY <1>4, <1>5, <2>2, <3>2 DEF Fitting
    <3>3. LiveCalls(jobs)' = {} /\ (Quiet(jobs)' <=> Quiet(jobs'))
      BY <2>4 DEF LiveCalls, LiveAt, Quiet
    <3>4. QED BY <1>1, <2>3, <2>5, <3>1, <3>2, <3>3 DEF Fitting
  <2>9. ~crossed' => Matching(pool', ds', jobs')
    BY <1>1, <2>3, <2>4 DEF Matching
  <2>10. QED BY <1>6, <2>6, <2>7, <2>8, <2>9, Parts
<1>9. QED BY <1>7, <1>8

\* The files of a snapshot arrive.
LEMMA DeliverSnapshotInv ==
  ASSUME IInv, NEW i \in DOMAIN jobs, DeliverSnapshot(i)
  PROVE  IInv'
<1> DEFINE j == jobs[i]
<1>1. /\ j.at = "snapshot"
      /\ snap' = (IF j.live THEN [snap EXCEPT ![j.of] = "rows"] ELSE snap)
      /\ jobs' = RemoveAt(jobs, i)
      /\ refills' = (IF files THEN refills + 1 ELSE refills) /\ unfiltered' = files
      /\ exists' = exists /\ changes' = changes /\ cached' = cached /\ files' = files
      /\ open' = open /\ shown' = shown /\ pool' = pool /\ ds' = ds
      /\ rendering' = rendering /\ steps' = steps /\ crossed' = crossed
  BY DEF DeliverSnapshot, GoOn, nav
<1>2. TypeOK /\ jobs \in Seq(Call) /\ j \in Call
  BY Parts DEF IInv
<1>3. j \in SnapshotJob /\ j.of \in Snap /\ j.at # "sidebar"
  BY <1>1, <1>2, CallFact DEF SnapshotJob
<1>4. /\ jobs' \in Seq(Call) /\ LiveCalls(jobs') \subseteq LiveCalls(jobs)
      /\ \A c \in LiveCalls(jobs) : c # j => c \in LiveCalls(jobs')
      /\ Quiet(jobs') => Quiet(jobs)
      /\ OnePool(jobs) => OnePool(jobs')
  BY <1>1, <1>2, <1>3, RemoveFact
<1>5. Tended(pool, ds, snap, jobs, {}) /\ Fitting(pool, ds, snap, jobs)
      /\ (~crossed => Matching(pool, ds, jobs))
  BY DEF IInv
<1>6. refills' \in Nat /\ FilterToCome'
  BY <1>1, <1>2 DEF FilterToCome, TypeOK
<1>7. /\ snap' \in [Snap -> {"absent", "loading", "rows"}]
      /\ \A s \in Snap : snap'[s] = "absent" <=> snap[s] = "absent"
      /\ \A s \in Snap : snap'[s] = "loading" =>
            snap[s] = "loading" /\ (j.live => s # j.of)
  <2>1. CASE j.live
    <3>1. j \in LiveCalls(jobs)
      BY <1>3, <2>1 DEF LiveAt, LiveCalls
    <3>2. snap[j.of] # "absent"
      BY <1>1, <1>5, <3>1 DEF Tended, BoxHere
    <3> HIDE DEF j
    <3>3. QED BY <1>1, <1>2, <1>3, <2>1, <3>2 DEF TypeOK
  <2>2. CASE ~j.live
    BY <1>1, <1>2, <2>2 DEF TypeOK
  <2>3. QED BY <2>1, <2>2
<1>8. \A c \in LiveCalls(jobs) : ForPool(c) \/ c.at = "dataset" => c \in LiveCalls(jobs')
  BY <1>1, <1>4 DEF ForPool
<1>9. ASSUME NEW s \in Snap, snap'[s] = "loading", NEW c \in LiveCalls(jobs), ForSnap(c, s)
      PROVE  c \in LiveCalls(jobs')
  <2>1. c # j
    BY <1>7, <1>9 DEF ForSnap, LiveCalls, LiveAt
  <2>2. QED BY <1>4, <2>1
<1>10. TypeOK'
  BY <1>1, <1>2, <1>4, <1>6, <1>7 DEF TypeOK, Call
<1>11. Tended(pool', ds', snap', jobs', {})
  <2>1. \A c \in LiveCalls(jobs') : BoxHere(c, pool, ds, snap')
    <3> SUFFICES ASSUME NEW c \in LiveCalls(jobs') PROVE BoxHere(c, pool, ds, snap')
      OBVIOUS
    <3>1. BoxHere(c, pool, ds, snap) /\ c \in Call
      BY <1>4, <1>5, LiveFact DEF Tended
    <3>2. c.at = "snapshot" => c.of \in Snap
      BY <3>1, CallFact DEF SnapshotJob
    <3>3. QED BY <1>7, <3>1, <3>2 DEF BoxHere
  <2>2. \A d \in Dataset : ds[d].is = "loading" => \E c \in LiveCalls(jobs') : ForDs(c, d)
    BY <1>5, <1>8 DEF Tended, ForDs
  <2>3. pool.is = "loading" => \E c \in LiveCalls(jobs') : ForPool(c)
    BY <1>5, <1>8 DEF Tended
  <2>4. Quiet(jobs') => \A s \in Snap : snap'[s] = "loading" =>
                          \E c \in LiveCalls(jobs') : ForSnap(c, s)
    BY <1>4, <1>5, <1>7, <1>9 DEF Tended
  <2>5. QED BY <1>1, <1>4, <1>5, <1>7, <2>1, <2>2, <2>3, <2>4 DEF Tended
<1>12. Fitting(pool, ds, snap, jobs)'
  BY <1>1, <1>4, <1>5, <1>7 DEF Fitting, OpenSnaps, LiveCalls, LiveAt, Quiet
<1>13. ~crossed' => Matching(pool', ds', jobs')
  BY <1>1, <1>4, <1>5 DEF Matching
<1>14. QED BY <1>6, <1>10, <1>11, <1>12, <1>13, Parts

\* The calls that fill the boxes of some snapshots.
SnapCalls(S) == {[at |-> "snapshot", of |-> s, live |-> TRUE] : s \in S}

\* They are calls, finitely many, with one for each snapshot.
LEMMA SnapCallsFact ==
  ASSUME NEW S \in SUBSET Snap
  PROVE  /\ SnapCalls(S) \in SUBSET Call /\ IsFiniteSet(SnapCalls(S))
         /\ \A c \in SnapCalls(S) : /\ c.at = "snapshot" /\ c.live /\ c.of \in S
                                    /\ c.at # "sidebar" /\ ~ForPool(c)
         /\ \A s \in S : \E c \in SnapCalls(S) : ForSnap(c, s)
<1> DEFINE f == [s \in S |-> [at |-> "snapshot", of |-> s, live |-> TRUE]]
<1>1. f \in Surjection(S, SnapCalls(S))
  BY DEF Surjection, SnapCalls
<1>2. IsFiniteSet(S)
  BY TreeAssumption, FS_Subset
<1> HIDE DEF f
<1>3. IsFiniteSet(SnapCalls(S))
  BY <1>1, <1>2, FS_Surjection
<1>4. ASSUME NEW s \in S
      PROVE  LET c == [at |-> "snapshot", of |-> s, live |-> TRUE]
             IN /\ c \in Call /\ c.at = "snapshot" /\ c.live = TRUE /\ c.of = s
                /\ c.at # "sidebar" /\ ~ForPool(c) /\ ForSnap(c, s)
  BY DEF Call, SnapshotJob, ForPool, ForSnap
<1>5. SnapCalls(S) \in SUBSET Call
  BY <1>4 DEF SnapCalls
<1>6. \A c \in SnapCalls(S) : /\ c.at = "snapshot" /\ c.live /\ c.of \in S
                              /\ c.at # "sidebar" /\ ~ForPool(c)
  BY <1>4 DEF SnapCalls
<1>7. \A s \in S : \E c \in SnapCalls(S) : ForSnap(c, s)
  BY <1>4 DEF SnapCalls
<1>8. QED BY <1>3, <1>5, <1>6, <1>7

\* The files of a dataset arrive: its rows are written as they were drawn, and
\* filled as they are open now.
LEMMA DeliverDatasetInv ==
  ASSUME IInv, NEW i \in DOMAIN jobs, DeliverDataset(i)
  PROVE  IInv'
<1> DEFINE j == jobs[i]
           sns == [s \in Snap |-> IF ~j.live \/ Of[s] # j.of THEN snap[s]
                                  ELSE IF s \in j.drawn THEN "loading" ELSE "absent"]
           fill == {s \in OpenSnaps(j.snaps) : sns[s] # "absent"}
           gone == IF j.live THEN SnapsOf(j.of) ELSE {}
           rest == RemoveAt(jobs, i)
           js == Detach(rest, gone)
           new == SnapCalls(IF files THEN fill ELSE {})
<1>1. /\ j.at = "dataset"
      /\ ds' = (IF j.live THEN [ds EXCEPT ![j.of] = [is |-> "rows", snaps |-> j.snaps,
                                                     twisty |-> TRUE]] ELSE ds)
      /\ snap' = [s \in Snap |-> IF s \in fill /\ ~files THEN "rows" ELSE sns[s]]
      /\ Spawn(js, new)
      /\ refills' = (IF files THEN refills + 1 ELSE refills) /\ unfiltered' = files
      /\ exists' = exists /\ changes' = changes /\ cached' = cached /\ files' = files
      /\ open' = open /\ shown' = shown /\ pool' = pool
      /\ rendering' = rendering /\ steps' = steps /\ crossed' = crossed
  BY DEF DeliverDataset, GoOn, nav, SnapCalls
<1>2. /\ TypeOK /\ jobs \in Seq(Call) /\ j \in Call
      /\ Dataset \cap Snap = {} /\ \A s \in Snap : Of[s] \in Dataset
  BY Parts, TreeAssumption DEF IInv
<1>3. /\ j \in DatasetJob /\ j.of \in Dataset /\ j.snaps \subseteq Snap
      /\ j.drawn \subseteq Snap /\ j.live \in BOOLEAN /\ j.at # "sidebar" /\ ~ForPool(j)
  BY <1>1, <1>2, CallFact DEF DatasetJob, ForPool
<1>4. Tended(pool, ds, snap, jobs, {}) /\ Fitting(pool, ds, snap, jobs)
      /\ (~crossed => Matching(pool, ds, jobs))
  BY DEF IInv
<1>5. refills' \in Nat /\ FilterToCome'
  BY <1>1, <1>2 DEF FilterToCome, TypeOK
\* The calls after it.
<1>6. /\ rest \in Seq(Call) /\ LiveCalls(rest) \subseteq LiveCalls(jobs)
      /\ \A c \in LiveCalls(jobs) : c # j => c \in LiveCalls(rest)
      /\ Quiet(rest) => Quiet(jobs)
      /\ OnePool(jobs) => OnePool(rest)
  BY <1>2, <1>3, RemoveFact
<1>7. /\ js \in Seq(Call)
      /\ LiveCalls(js) = {c \in LiveCalls(rest) : ~Hit(c, gone)}
      /\ Quiet(js) <=> Quiet(rest)
      /\ OnePool(rest) => OnePool(js)
  <2> HIDE DEF rest, gone
  <2> QED BY <1>6, DetachFact
<1>8. fill \in SUBSET Snap
  BY <1>3 DEF OpenSnaps
<1>9. /\ new \in SUBSET Call /\ IsFiniteSet(new)
      /\ \A c \in new : /\ c.at = "snapshot" /\ c.live /\ c.of \in fill /\ files
                        /\ c.at # "sidebar" /\ ~ForPool(c)
      /\ files => \A s \in fill : \E c \in new : ForSnap(c, s)
  <2> HIDE DEF fill
  <2>1. QED BY <1>8, SnapCallsFact
<1> HIDE DEF js, new
<1>10. /\ jobs' \in Seq(Call) /\ LiveCalls(jobs') = LiveCalls(js) \cup new
       /\ Quiet(jobs') => Quiet(js)
       /\ OnePool(js) => OnePool(jobs')
  <2>1. /\ jobs' \in Seq(Call)
        /\ LiveCalls(jobs') = LiveCalls(js) \cup {c \in new : c.at # "sidebar" /\ c.live}
        /\ Quiet(jobs') => Quiet(js) /\ \A c \in new : c.at # "sidebar"
        /\ OnePool(js) /\ (\A c \in new : ~ForPool(c)) => OnePool(jobs')
    BY <1>1, <1>7, <1>9, SpawnFact
  <2>2. QED BY <1>9, <2>1
<1>11. Pool \notin gone /\ gone \subseteq Snap /\ \A s \in Snap : s \in gone <=> j.live /\ Of[s] = j.of
  BY TreeAssumption DEF SnapsOf
<1>12. \A c \in LiveCalls(jobs') : c \in new \/ (c \in LiveCalls(jobs) /\ ~Hit(c, gone))
  BY <1>6, <1>7, <1>10
<1>13. \A c \in LiveCalls(jobs) : c # j /\ ~Hit(c, gone) => c \in LiveCalls(jobs')
  BY <1>6, <1>7, <1>10
<1>14. Quiet(jobs') => Quiet(jobs)
  BY <1>6, <1>7, <1>10
<1>15. OnePool(jobs')
  BY <1>4, <1>6, <1>7, <1>10 DEF Tended
\* The boxes after it.
<1>16. /\ j.live => j \in LiveCalls(jobs) /\ ds[j.of].is # "absent"
                    /\ j.snaps \subseteq SnapsOf(j.of)
       /\ ~j.live => j \notin LiveCalls(jobs)
  <2>1. j.live => j \in LiveCalls(jobs)
    BY <1>3 DEF LiveCalls, LiveAt
  <2>2. j \in LiveCalls(jobs) => j.live
    BY DEF LiveCalls, LiveAt
  <2>3. QED BY <1>1, <1>4, <2>1, <2>2 DEF Tended, BoxHere
<1>17. /\ ds' \in [Dataset -> DsBox]
       /\ \A d \in Dataset : IF j.live /\ d = j.of
                             THEN ds'[d].is = "rows" /\ ds'[d].snaps = j.snaps /\ ds'[d].twisty = TRUE
                             ELSE ds'[d] = ds[d]
  <2> HIDE DEF j
  <2> QED BY <1>1, <1>2, <1>3 DEF TypeOK, DsBox
<1>18. /\ sns \in [Snap -> {"absent", "loading", "rows"}]
       /\ \A s \in Snap : IF s \in gone THEN sns[s] = IF s \in j.drawn THEN "loading" ELSE "absent"
                          ELSE sns[s] = snap[s]
  <2>1. \A s \in Snap : snap[s] \in {"absent", "loading", "rows"}
    BY <1>2 DEF TypeOK
  <2> HIDE DEF j, gone
  <2>2. QED BY <1>3, <1>11, <2>1
<1>19. \A s \in Snap : s \in fill <=> s \in j.snaps /\ open[s] /\ sns[s] # "absent"
  BY DEF OpenSnaps
<1> HIDE DEF sns, fill, gone
<1>20. /\ snap' \in [Snap -> {"absent", "loading", "rows"}]
       /\ \A s \in Snap : snap'[s] # "absent" <=> sns[s] # "absent"
       /\ \A s \in Snap : snap'[s] = "loading" <=> sns[s] = "loading" /\ (s \in fill => files)
       /\ files => snap' = sns
  BY <1>1, <1>18, <1>19
<1>21. TypeOK'
  BY <1>1, <1>2, <1>5, <1>10, <1>17, <1>20 DEF TypeOK, Call
<1>22. Quiet(jobs) /\ j.live => j.drawn = {s \in j.snaps : open[s]}
  BY <1>1, <1>4, <1>16 DEF Fitting, OpenSnaps
<1>23. Tended(pool', ds', snap', jobs', {})
  <2>1. pool.is # "rows" => (\A d \in Dataset : ds'[d].is = "absent") /\ (\A s \in Snap : snap'[s] = "absent")
    <3>1. pool.is # "rows" => ~j.live
      BY <1>3, <1>4, <1>16 DEF Tended
    <3>2. QED BY <1>4, <1>11, <1>17, <1>18, <1>20, <3>1 DEF Tended
  <2>2. \A d \in Dataset : ds'[d].is # "rows" => ~ds'[d].twisty
    BY <1>4, <1>17 DEF Tended
  <2>3. ASSUME NEW c \in LiveCalls(jobs') PROVE BoxHere(c, pool, ds', snap')
    <3>1. CASE c \in new
      BY <1>9, <1>19, <1>20, <1>8, <3>1 DEF BoxHere, ForPool
    <3>2. CASE c \in LiveCalls(jobs) /\ ~Hit(c, gone)
      <4>1. BoxHere(c, pool, ds, snap) /\ c \in Call
        BY <1>2, <1>4, <3>2, LiveFact DEF Tended
      <4>2. /\ c.at = "dataset" => c.of \in Dataset
            /\ c.at = "snapshot" => c.of \in Snap /\ c.of \notin gone
        BY <3>2, <4>1, CallFact DEF DatasetJob, SnapshotJob, Hit
      <4>3. QED BY <1>17, <1>18, <1>20, <4>1, <4>2 DEF BoxHere
    <3>3. QED BY <1>12, <3>1, <3>2
  <2>4. pool.is = "loading" => \E c \in LiveCalls(jobs') : ForPool(c)
    <3>1. ASSUME NEW c, ForPool(c) PROVE c # j /\ ~Hit(c, gone)
      BY <1>3, <1>11, <3>1 DEF Hit, ForPool
    <3>2. QED BY <1>4, <1>13, <3>1 DEF Tended
  <2>5. ASSUME NEW d \in Dataset, ds'[d].is = "loading"
        PROVE  \E c \in LiveCalls(jobs') : ForDs(c, d)
    <3>1. ~(j.live /\ d = j.of) /\ ds[d].is = "loading"
      BY <1>17, <2>5
    <3>2. PICK c \in LiveCalls(jobs) : ForDs(c, d)
      BY <1>4, <3>1 DEF Tended
    <3>3. c # j
      BY <1>16, <3>1, <3>2 DEF ForDs
    <3>4. ~Hit(c, gone)
      BY <1>2, <1>11, <3>2 DEF ForDs, Hit, ForPool
    <3>5. QED BY <1>13, <3>2, <3>3, <3>4
  <2>6. ASSUME Quiet(jobs'), NEW s \in Snap, snap'[s] = "loading"
        PROVE  \E c \in LiveCalls(jobs') : ForSnap(c, s)
    <3>1. sns[s] = "loading" /\ (s \in fill => files)
      BY <1>20, <2>6
    <3>2. CASE s \in gone
      <4>1. s \in j.drawn /\ j.live
        BY <1>11, <1>18, <3>1, <3>2
      <4>2. s \in fill
        BY <1>14, <1>19, <1>22, <2>6, <3>1, <4>1
      <4>3. QED BY <1>9, <1>10, <3>1, <4>2
    <3>3. CASE s \notin gone
      <4>1. snap[s] = "loading"
        BY <1>18, <3>1, <3>3
      <4>2. PICK c \in LiveCalls(jobs) : ForSnap(c, s)
        BY <1>4, <1>14, <2>6, <4>1 DEF Tended
      <4>3. c # j /\ ~Hit(c, gone)
        BY <1>1, <3>3, <4>2 DEF ForSnap, Hit, ForPool
      <4>4. QED BY <1>13, <4>2, <4>3
    <3>4. QED BY <3>2, <3>3
  <2>7. QED BY <1>1, <1>15, <2>1, <2>2, <2>3, <2>4, <2>5, <2>6 DEF Tended
<1>24. Fitting(pool, ds, snap, jobs)'
  <2> SUFFICES ASSUME Quiet(jobs')
               PROVE  /\ \A c \in LiveCalls(jobs') : c.at = "dataset"
                                                  => c.drawn = OpenSnaps(c.snaps)
                      /\ shown =>
                           /\ pool.is # "absent" <=> open[Pool]
                           /\ \A d \in Dataset : ds'[d].is # "absent" <=> d \in pool.twists /\ open[d]
                           /\ \A s \in Snap : snap'[s] # "absent"
                                <=> ds'[Of[s]].twisty /\ s \in ds'[Of[s]].snaps /\ open[s]
    BY <1>1 DEF Fitting, OpenSnaps, LiveCalls, LiveAt, Quiet
  <2>1. \A c \in LiveCalls(jobs') : c.at = "dataset" => c \in LiveCalls(jobs)
    BY <1>9, <1>12
  <2>2. ASSUME NEW s \in Snap, shown
        PROVE  snap'[s] # "absent" <=> ds'[Of[s]].twisty /\ s \in ds'[Of[s]].snaps /\ open[s]
    <3>1. CASE s \in gone
      <4>1. j.live /\ Of[s] = j.of /\ (snap'[s] # "absent" <=> s \in j.drawn)
        BY <1>11, <1>18, <1>20, <3>1
      <4>2. ds'[Of[s]].twisty = TRUE /\ ds'[Of[s]].snaps = j.snaps
        BY <1>3, <1>17, <4>1
      <4>3. QED BY <1>14, <1>22, <4>1, <4>2
    <3>2. CASE s \notin gone
      <4>1. ds'[Of[s]] = ds[Of[s]] /\ (snap'[s] # "absent" <=> snap[s] # "absent")
        BY <1>2, <1>11, <1>17, <1>18, <1>20, <3>2
      <4>2. QED BY <1>4, <1>14, <2>2, <4>1 DEF Fitting
    <3>3. QED BY <3>1, <3>2
  <2>3. QED BY <1>4, <1>14, <1>16, <1>17, <2>1, <2>2 DEF Fitting
<1>25. ~crossed' => Matching(pool', ds', jobs')
  <2> SUFFICES ASSUME ~crossed PROVE Matching(pool, ds', jobs')
    BY <1>1
  <2>1. \A c \in LiveCalls(jobs') : c.at = "dataset" => c \in LiveCalls(jobs)
    BY <1>9, <1>12
  <2>2. j.live => j.snaps = pool.snaps \cap SnapsOf(j.of)
    BY <1>1, <1>4, <1>16 DEF Matching
  <2>3. QED BY <1>4, <1>17, <2>1, <2>2 DEF Matching
<1>26. QED BY <1>5, <1>21, <1>23, <1>24, <1>25, Parts

-----------------------------------------------------------------------------
\* The calls that wait for the files of some datasets.
DsCalls(D, snaps) ==
  {[at |-> "dataset", of |-> d, live |-> TRUE, snaps |-> RowsOf(d, snaps),
    drawn |-> OpenSnaps(RowsOf(d, snaps))] : d \in D}

\* They are calls, finitely many, with one for each dataset.
LEMMA DsCallsFact ==
  ASSUME NEW D \in SUBSET Dataset, NEW snaps \in SUBSET Snap
  PROVE  /\ DsCalls(D, snaps) \in SUBSET Call /\ IsFiniteSet(DsCalls(D, snaps))
         /\ \A c \in DsCalls(D, snaps) :
              /\ c.at = "dataset" /\ c.live /\ c.of \in D /\ c.at # "sidebar" /\ ~ForPool(c)
              /\ c.snaps = RowsOf(c.of, snaps) /\ c.drawn = OpenSnaps(c.snaps)
         /\ \A d \in D : \E c \in DsCalls(D, snaps) : ForDs(c, d)
<1> DEFINE call(d) == [at |-> "dataset", of |-> d, live |-> TRUE, snaps |-> RowsOf(d, snaps),
                       drawn |-> OpenSnaps(RowsOf(d, snaps))]
           f == [d \in D |-> call(d)]
<1>1. f \in Surjection(D, DsCalls(D, snaps))
  BY DEF Surjection, DsCalls
<1>2. IsFiniteSet(D)
  BY TreeAssumption, FS_Subset
<1>3. IsFiniteSet(DsCalls(D, snaps))
  <2> HIDE DEF f
  <2> QED BY <1>1, <1>2, FS_Surjection
<1>4. ASSUME NEW d \in D
      PROVE  /\ call(d) \in Call /\ call(d).at = "dataset" /\ call(d).live = TRUE
             /\ call(d).of = d /\ call(d).at # "sidebar" /\ ~ForPool(call(d))
             /\ call(d).snaps = RowsOf(d, snaps) /\ call(d).drawn = OpenSnaps(RowsOf(d, snaps))
  <2>1. RowsOf(d, snaps) \subseteq Snap /\ OpenSnaps(RowsOf(d, snaps)) \subseteq Snap
    BY DEF RowsOf, OpenSnaps
  <2>2. call(d) \in DatasetJob
    BY <2>1 DEF DatasetJob
  <2>3. QED BY <2>2 DEF Call, ForPool
<1>5. DsCalls(D, snaps) = {call(d) : d \in D}
  BY DEF DsCalls
<1> HIDE DEF call
<1>6. DsCalls(D, snaps) \in SUBSET Call
  BY <1>4, <1>5
<1>7. \A c \in DsCalls(D, snaps) :
        /\ c.at = "dataset" /\ c.live /\ c.of \in D /\ c.at # "sidebar" /\ ~ForPool(c)
        /\ c.snaps = RowsOf(c.of, snaps) /\ c.drawn = OpenSnaps(c.snaps)
  BY <1>4, <1>5
<1>8. \A d \in D : \E c \in DsCalls(D, snaps) : ForDs(c, d)
  BY <1>4, <1>5 DEF ForDs
<1>9. QED BY <1>3, <1>6, <1>7, <1>8

\* What FillDatasets leaves, with the datasets now filled at once, the snapshots
\* lost whose boxes are replaced, and those drawn of them.
Filled(now, lost, drawn, fill, dss, sns, js, snaps) ==
  /\ ds' \in [Dataset -> DsBox]
  /\ \A d \in now : /\ ds'[d].is = "rows" /\ ds'[d].twisty = Twisty(d)
                    /\ ds'[d].snaps = RowsOf(d, snaps)
  /\ \A d \in Dataset \ now : ds'[d] = dss[d]
  /\ snap' \in [Snap -> {"absent", "loading", "rows"}]
  /\ \A s \in Snap : s \in lost <=> Of[s] \in now
  /\ \A s \in Snap : s \in drawn <=> /\ s \in lost /\ Twisty(Of[s])
                                     /\ s \in RowsOf(Of[s], snaps) /\ open[s]
  /\ \A s \in Snap : snap'[s] = IF s \in drawn THEN "loading"
                                ELSE IF s \in lost THEN "absent" ELSE sns[s]
  /\ jobs' \in Seq(Call)
  /\ LiveCalls(jobs') = {c \in LiveCalls(js) : ~Hit(c, lost)} \cup SnapCalls(drawn)
                        \cup DsCalls(fill \ now, snaps)
  /\ Quiet(jobs') => Quiet(js)
  /\ OnePool(js) => OnePool(jobs')
  /\ refills' \in Nat

\* It leaves rows and boxes for those that need not wait, the others as they
\* were, and a call for every box on "Loading...".
LEMMA FillDatasetsFact ==
  ASSUME TypeOK, NEW fill \in SUBSET Dataset, NEW dss \in [Dataset -> DsBox],
         NEW sns \in [Snap -> {"absent", "loading", "rows"}],
         NEW js \in Seq(Call), NEW snaps \in SUBSET Snap,
         FillDatasets(fill, dss, sns, js, snaps)
  PROVE  \E now \in SUBSET fill, lost \in SUBSET Snap, drawn \in SUBSET Snap :
           Filled(now, lost, drawn, fill, dss, sns, js, snaps)
<1> DEFINE now == {d \in fill : ~Waits(d)}
           drawn == UNION {OpenSnaps(RowsOf(d, snaps)) : d \in {x \in now : Twisty(x)}}
           lost == UNION {SnapsOf(d) : d \in now}
           old == Detach(js, lost)
           new == SnapCalls(drawn) \cup DsCalls(fill \ now, snaps)
<1>1. /\ ds' = [d \in Dataset |-> IF d \in now
                                  THEN [is |-> "rows", snaps |-> RowsOf(d, snaps),
                                        twisty |-> Twisty(d)]
                                  ELSE dss[d]]
      /\ snap' = [s \in Snap |-> IF s \in drawn THEN "loading"
                                 ELSE IF Of[s] \in now THEN "absent" ELSE sns[s]]
      /\ Spawn(old, new)
      /\ refills' = refills + Cardinality({d \in now : Twisty(d)})
  BY DEF FillDatasets, SnapCalls, DsCalls
<1>2. now \subseteq fill /\ drawn \subseteq Snap /\ lost \subseteq Snap
  BY DEF OpenSnaps, RowsOf, SnapsOf
<1>3. \A s \in Snap : s \in lost <=> Of[s] \in now
  BY DEF SnapsOf
<1>4. \A s \in Snap : s \in drawn <=> /\ s \in lost /\ Twisty(Of[s])
                                      /\ s \in RowsOf(Of[s], snaps) /\ open[s]
  BY DEF OpenSnaps, RowsOf, SnapsOf
<1>5. \A d \in Dataset : RowsOf(d, snaps) \subseteq Snap /\ Twisty(d) \in BOOLEAN
  BY DEF RowsOf, Twisty, TypeOK
<1>6. {d \in now : Twisty(d)} \in SUBSET Dataset
  OBVIOUS
<1>7. refills' \in Nat
  <2>1. IsFiniteSet({d \in now : Twisty(d)})
    BY <1>6, TreeAssumption, FS_Subset
  <2>2. Cardinality({d \in now : Twisty(d)}) \in Nat
    BY <2>1, FS_CardinalityType
  <2>3. QED BY <1>1, <2>2 DEF TypeOK
<1> HIDE DEF now, drawn, lost
<1>8. /\ old \in Seq(Call) /\ LiveCalls(old) = {c \in LiveCalls(js) : ~Hit(c, lost)}
      /\ Quiet(old) <=> Quiet(js)
      /\ OnePool(js) => OnePool(old)
  BY DetachFact, Zenon
<1>9. /\ new \in SUBSET Call /\ IsFiniteSet(new)
      /\ \A c \in new : c.at # "sidebar" /\ c.live /\ ~ForPool(c)
  <2>1. /\ SnapCalls(drawn) \in SUBSET Call /\ IsFiniteSet(SnapCalls(drawn))
        /\ \A c \in SnapCalls(drawn) : c.at # "sidebar" /\ c.live /\ ~ForPool(c)
    BY <1>2, SnapCallsFact
  <2>2. /\ DsCalls(fill \ now, snaps) \in SUBSET Call /\ IsFiniteSet(DsCalls(fill \ now, snaps))
        /\ \A c \in DsCalls(fill \ now, snaps) : c.at # "sidebar" /\ c.live /\ ~ForPool(c)
    BY DsCallsFact
  <2>3. IsFiniteSet(new)
    BY <2>1, <2>2, FS_Union
  <2>4. QED BY <2>1, <2>2, <2>3
<1> HIDE DEF old
<1>10. /\ jobs' \in Seq(Call) /\ LiveCalls(jobs') = LiveCalls(old) \cup new
       /\ Quiet(jobs') => Quiet(old)
       /\ OnePool(old) => OnePool(jobs')
  <2> HIDE DEF new
  <2>1. /\ jobs' \in Seq(Call)
        /\ LiveCalls(jobs') = LiveCalls(old) \cup {c \in new : c.at # "sidebar" /\ c.live}
        /\ Quiet(jobs') => Quiet(old) /\ \A c \in new : c.at # "sidebar"
        /\ OnePool(old) /\ (\A c \in new : ~ForPool(c)) => OnePool(jobs')
    BY <1>1, <1>8, <1>9, SpawnFact
  <2>2. QED BY <1>9, <2>1
<1>11. /\ ds' \in [Dataset -> DsBox]
       /\ \A d \in now : /\ ds'[d].is = "rows" /\ ds'[d].twisty = Twisty(d)
                         /\ ds'[d].snaps = RowsOf(d, snaps)
       /\ \A d \in Dataset \ now : ds'[d] = dss[d]
  <2>1. \A d \in Dataset : [is |-> "rows", snaps |-> RowsOf(d, snaps), twisty |-> Twisty(d)] \in DsBox
    BY <1>5 DEF DsBox
  <2>2. now \subseteq Dataset
    BY <1>2
  <2>3. ds' \in [Dataset -> DsBox]
    BY <1>1, <2>1
  <2>4. QED BY <1>1, <2>2, <2>3
<1>12. /\ snap' \in [Snap -> {"absent", "loading", "rows"}]
       /\ \A s \in Snap : snap'[s] = IF s \in drawn THEN "loading"
                                     ELSE IF s \in lost THEN "absent" ELSE sns[s]
  BY <1>1, <1>3
<1>13. LiveCalls(jobs') = {c \in LiveCalls(js) : ~Hit(c, lost)} \cup SnapCalls(drawn)
                          \cup DsCalls(fill \ now, snaps)
  BY <1>8, <1>10
<1>14. now \in SUBSET fill /\ lost \in SUBSET Snap /\ drawn \in SUBSET Snap
  BY <1>2
<1> USE <1>14
<1> WITNESS now \in SUBSET fill, lost \in SUBSET Snap, drawn \in SUBSET Snap
<1>15. QED BY <1>3, <1>4, <1>7, <1>8, <1>10, <1>11, <1>12, <1>13 DEF Filled

\* Filling datasets keeps the invariant: their boxes are looked for when they
\* are filled, and the calls for what was in them are lost with it.
LEMMA FillKeeps ==
  ASSUME TypeOK, NEW fill \in SUBSET Dataset, NEW dss \in [Dataset -> DsBox],
         NEW sns \in [Snap -> {"absent", "loading", "rows"}],
         NEW js \in Seq(Call), NEW snaps \in SUBSET Snap, NEW p \in PoolBox,
         FillDatasets(fill, dss, sns, js, snaps),
         \A d \in fill : dss[d].is # "absent",
         Tended(p, dss, sns, js, fill), Fitting(p, dss, sns, js)
  PROVE  /\ ds' \in [Dataset -> DsBox]
         /\ snap' \in [Snap -> {"absent", "loading", "rows"}]
         /\ jobs' \in Seq(Call) /\ refills' \in Nat
         /\ Tended(p, ds', snap', jobs', {})
         /\ Fitting(p, ds', snap', jobs')
         /\ (fill = {} \/ snaps = p.snaps) /\ Matching(p, dss, js) => Matching(p, ds', jobs')
<1>1. PICK now \in SUBSET fill, lost \in SUBSET Snap, drawn \in SUBSET Snap :
        Filled(now, lost, drawn, fill, dss, sns, js, snaps)
  BY FillDatasetsFact
<1> USE DEF Filled
<1>2. /\ Dataset \cap Snap = {} /\ Pool \notin Snap /\ \A s \in Snap : Of[s] \in Dataset
  BY TreeAssumption
<1>3. \A c \in SnapCalls(drawn) : /\ c.at = "snapshot" /\ c.of \in drawn /\ ~ForPool(c)
  BY SnapCallsFact
<1>4. \A s \in drawn : \E c \in SnapCalls(drawn) : ForSnap(c, s)
  BY SnapCallsFact
<1>5. /\ \A c \in DsCalls(fill \ now, snaps) :
           /\ c.at = "dataset" /\ c.of \in fill \ now /\ ~ForPool(c)
           /\ c.snaps = RowsOf(c.of, snaps) /\ c.drawn = OpenSnaps(c.snaps)
      /\ \A d \in fill \ now : \E c \in DsCalls(fill \ now, snaps) : ForDs(c, d)
  BY DsCallsFact
<1>6. ASSUME NEW c \in LiveCalls(jobs')
      PROVE  \/ c \in SnapCalls(drawn) \/ c \in DsCalls(fill \ now, snaps)
             \/ c \in LiveCalls(js) /\ ~Hit(c, lost)
  BY <1>1
<1>7. \A c \in LiveCalls(js) : ~Hit(c, lost) => c \in LiveCalls(jobs')
  BY <1>1
<1>8. SnapCalls(drawn) \cup DsCalls(fill \ now, snaps) \subseteq LiveCalls(jobs')
  BY <1>1
<1>9. \A d \in Dataset : ds'[d].is # "absent" <=> dss[d].is # "absent"
  BY <1>1
<1>10. Tended(p, ds', snap', jobs', {})
  <2>1. p.is # "rows" => (\A d \in Dataset : ds'[d].is = "absent") /\ (\A s \in Snap : snap'[s] = "absent")
    <3> SUFFICES ASSUME p.is # "rows"
                 PROVE  (\A d \in Dataset : ds'[d].is = "absent") /\ (\A s \in Snap : snap'[s] = "absent")
      OBVIOUS
    <3>1. (\A d \in Dataset : dss[d].is = "absent") /\ (\A s \in Snap : sns[s] = "absent")
      BY DEF Tended
    <3>2. now = {}
      BY <3>1
    <3>3. QED BY <1>1, <1>9, <3>1, <3>2
  <2>2. \A d \in Dataset : ds'[d].is # "rows" => ~ds'[d].twisty
    BY <1>1 DEF Tended
  <2>3. OnePool(jobs')
    BY <1>1 DEF Tended
  <2>4. ASSUME NEW c \in LiveCalls(jobs') PROVE BoxHere(c, p, ds', snap')
    <3>1. CASE c \in SnapCalls(drawn)
      BY <1>1, <1>3, <3>1 DEF BoxHere
    <3>2. CASE c \in DsCalls(fill \ now, snaps)
      BY <1>5, <1>9, <3>2 DEF BoxHere, RowsOf
    <3>3. CASE c \in LiveCalls(js) /\ ~Hit(c, lost)
      <4>1. BoxHere(c, p, dss, sns) /\ c \in Call
        BY <3>3, LiveFact DEF Tended
      <4>2. /\ c.at = "dataset" => c.of \in Dataset
            /\ c.at = "snapshot" => c.of \in Snap /\ c.of \notin lost
        BY <3>3, <4>1, CallFact DEF DatasetJob, SnapshotJob, Hit
      <4>3. \A s \in Snap : s \notin lost => snap'[s] = sns[s]
        BY <1>1
      <4>4. QED BY <1>9, <4>1, <4>2, <4>3 DEF BoxHere
    <3>4. QED BY <1>6, <3>1, <3>2, <3>3
  <2>5. p.is = "loading" => \E c \in LiveCalls(jobs') : ForPool(c)
    <3>1. \A c : ForPool(c) => ~Hit(c, lost)
      BY <1>2 DEF ForPool, Hit
    <3>2. QED BY <1>7, <3>1 DEF Tended
  <2>6. ASSUME NEW d \in Dataset, ds'[d].is = "loading"
        PROVE  \E c \in LiveCalls(jobs') : ForDs(c, d)
    <3>1. d \notin now /\ dss[d].is = "loading"
      BY <1>1, <2>6
    <3>2. CASE d \in fill
      BY <1>5, <1>8, <3>1, <3>2
    <3>3. CASE d \notin fill
      <4>1. PICK c \in LiveCalls(js) : ForDs(c, d)
        BY <3>1, <3>3 DEF Tended
      <4>2. ~Hit(c, lost)
        BY <1>2, <4>1 DEF ForDs, Hit, ForPool
      <4>3. QED BY <1>7, <4>1, <4>2
    <3>4. QED BY <3>2, <3>3
  <2>7. ASSUME Quiet(jobs'), NEW s \in Snap, snap'[s] = "loading"
        PROVE  \E c \in LiveCalls(jobs') : ForSnap(c, s)
    <3>1. CASE s \in drawn
      BY <1>4, <1>8, <3>1
    <3>2. CASE s \notin drawn
      <4>1. s \notin lost /\ sns[s] = "loading"
        BY <1>1, <2>7, <3>2
      <4>2. PICK c \in LiveCalls(js) : ForSnap(c, s)
        BY <1>1, <2>7, <4>1 DEF Tended
      <4>3. ~Hit(c, lost)
        BY <4>1, <4>2 DEF ForSnap, Hit, ForPool
      <4>4. QED BY <1>7, <4>2, <4>3
    <3>3. QED BY <3>1, <3>2
  <2>8. QED BY <2>1, <2>2, <2>3, <2>4, <2>5, <2>6, <2>7 DEF Tended
<1>11. Fitting(p, ds', snap', jobs')
  <2> SUFFICES ASSUME Quiet(jobs')
               PROVE  /\ \A c \in LiveCalls(jobs') : c.at = "dataset"
                                                  => c.drawn = OpenSnaps(c.snaps)
                      /\ shown =>
                           /\ p.is # "absent" <=> open[Pool]
                           /\ \A d \in Dataset : ds'[d].is # "absent" <=> d \in p.twists /\ open[d]
                           /\ \A s \in Snap : snap'[s] # "absent"
                                <=> ds'[Of[s]].twisty /\ s \in ds'[Of[s]].snaps /\ open[s]
    BY DEF Fitting
  <2>1. /\ \A c \in LiveCalls(js) : c.at = "dataset" => c.drawn = OpenSnaps(c.snaps)
        /\ shown =>
             /\ p.is # "absent" <=> open[Pool]
             /\ \A d \in Dataset : dss[d].is # "absent" <=> d \in p.twists /\ open[d]
             /\ \A s \in Snap : sns[s] # "absent"
                                <=> dss[Of[s]].twisty /\ s \in dss[Of[s]].snaps /\ open[s]
    BY <1>1 DEF Fitting
  <2>2. \A c \in LiveCalls(jobs') : c.at = "dataset" => c.drawn = OpenSnaps(c.snaps)
    BY <1>3, <1>5, <1>6, <2>1
  <2>3. ASSUME NEW s \in Snap, shown
        PROVE  snap'[s] # "absent" <=> ds'[Of[s]].twisty /\ s \in ds'[Of[s]].snaps /\ open[s]
    <3>1. CASE s \in lost
      <4>1. /\ ds'[Of[s]].twisty = Twisty(Of[s]) /\ ds'[Of[s]].snaps = RowsOf(Of[s], snaps)
            /\ snap'[s] # "absent" <=> s \in drawn
        BY <1>1, <3>1
      <4>2. QED BY <1>1, <3>1, <4>1
    <3>2. CASE s \notin lost
      <4>1. ds'[Of[s]] = dss[Of[s]] /\ snap'[s] = sns[s]
        BY <1>1, <1>2, <3>2
      <4>2. QED BY <2>1, <2>3, <4>1
    <3>3. QED BY <3>1, <3>2
  <2>4. QED BY <1>9, <2>1, <2>2, <2>3
<1>12. ASSUME fill = {} \/ snaps = p.snaps, Matching(p, dss, js)
       PROVE  Matching(p, ds', jobs')
  <2>1. \A d \in fill : RowsOf(d, snaps) = p.snaps \cap SnapsOf(d)
    BY <1>12 DEF RowsOf
  <2>2. ASSUME NEW d \in Dataset, ds'[d].is = "rows" PROVE ds'[d].snaps = p.snaps \cap SnapsOf(d)
    <3>1. CASE d \in now
      BY <1>1, <2>1, <3>1
    <3>2. CASE d \notin now
      BY <1>1, <1>12, <2>2, <3>2 DEF Matching
    <3>3. QED BY <3>1, <3>2
  <2>3. ASSUME NEW c \in LiveCalls(jobs'), c.at = "dataset"
        PROVE  c.snaps = p.snaps \cap SnapsOf(c.of)
    <3>1. CASE c \in DsCalls(fill \ now, snaps)
      BY <1>5, <2>1, <3>1
    <3>2. CASE c \in LiveCalls(js)
      BY <1>12, <2>3, <3>2 DEF Matching
    <3>3. QED BY <1>3, <1>6, <2>3, <3>1, <3>2
  <2>4. QED BY <2>2, <2>3 DEF Matching
<1>13. QED BY <1>1, <1>10, <1>11, <1>12

\* A pool's listing arrives: for the box that asked, or for one that has been
\* replaced, and then for the boxes there are now.
LEMMA DeliverPoolInv ==
  ASSUME IInv, NEW i \in DOMAIN jobs, DeliverPool(i)
  PROVE  IInv'
<1> DEFINE j == jobs[i]
           twists == {d \in Dataset : HasKids(d, j.snaps)}
           rows == [is |-> "rows", snaps |-> j.snaps, twists |-> twists]
           drawn == [d \in Dataset |->
                       [NoDs EXCEPT !.is = IF d \in twists /\ open[d] THEN "loading" ELSE "absent"]]
           none == [s \in Snap |-> "absent"]
           rest == RemoveAt(jobs, i)
<1>1. /\ j.at = "answered" /\ unfiltered' = FALSE
      /\ exists' = exists /\ changes' = changes /\ cached' = cached /\ files' = files
      /\ open' = open /\ shown' = shown /\ rendering' = rendering /\ steps' = steps
  BY DEF DeliverPool, nav
<1>2. /\ TypeOK /\ jobs \in Seq(Call) /\ j \in Call
  BY Parts DEF IInv
<1>3. ForPool(j) /\ j.at # "sidebar" /\ j.snaps \in SUBSET Snap /\ j.live \in BOOLEAN
  BY <1>1, <1>2, CallFact DEF ForPool, PoolJob
<1>4. Tended(pool, ds, snap, jobs, {}) /\ Fitting(pool, ds, snap, jobs)
      /\ (~crossed => Matching(pool, ds, jobs))
  BY DEF IInv
<1>5. /\ rest \in Seq(Call) /\ LiveCalls(rest) \subseteq LiveCalls(jobs)
      /\ Quiet(rest) => Quiet(jobs)
      /\ OnePool(jobs) => OnePool(rest)
      /\ OnePool(jobs) /\ i \in LiveAt(jobs) => \A c \in LiveCalls(rest) : ~ForPool(c)
  BY <1>2, <1>3, RemoveFact
<1>6. FilterToCome'
  BY <1>1 DEF FilterToCome
<1>7. CASE ~j.live
  <2> DEFINE js == Detach(rest, {})
             fill == {d \in Dataset : open[d] /\ ds[d].is # "absent"}
  <2>1. /\ pool' = pool /\ FillDatasets(fill, ds, snap, js, j.snaps)
        /\ crossed' = (crossed \/ fill # {})
    BY <1>7 DEF DeliverPool
  <2>2. LiveCalls(rest) = LiveCalls(jobs)
    BY <1>2, <1>3, <1>7, LostFact
  <2>3. /\ js \in Seq(Call) /\ LiveCalls(js) = LiveCalls(jobs)
        /\ Quiet(js) => Quiet(jobs)
        /\ OnePool(jobs) => OnePool(js)
    <3>1. /\ js \in Seq(Call) /\ LiveCalls(js) = {c \in LiveCalls(rest) : ~Hit(c, {})}
          /\ Quiet(js) <=> Quiet(rest)
          /\ OnePool(rest) => OnePool(js)
      <4> HIDE DEF rest
      <4> QED BY <1>5, DetachFact
    <3>2. \A c : ~Hit(c, {})
      BY DEF Hit
    <3> HIDE DEF js, rest
    <3>3. QED BY <1>5, <2>2, <3>1, <3>2
  <2>4. fill \in SUBSET Dataset /\ \A d \in fill : ds[d].is # "absent"
    OBVIOUS
  <2> HIDE DEF js, fill
  <2>5. Tended(pool, ds, snap, js, fill)
    BY <1>4, <2>3 DEF Tended
  <2>6. Fitting(pool, ds, snap, js)
    BY <1>4, <2>3 DEF Fitting
  <2>7. /\ ds' \in [Dataset -> DsBox]
        /\ snap' \in [Snap -> {"absent", "loading", "rows"}]
        /\ jobs' \in Seq(Call) /\ refills' \in Nat
        /\ Tended(pool, ds', snap', jobs', {})
        /\ Fitting(pool, ds', snap', jobs')
        /\ (fill = {} \/ j.snaps = pool.snaps) /\ Matching(pool, ds, js)
              => Matching(pool, ds', jobs')
    <3>1. pool \in PoolBox /\ ds \in [Dataset -> DsBox]
          /\ snap \in [Snap -> {"absent", "loading", "rows"}]
      BY <1>2 DEF TypeOK
    <3>2. QED BY <1>2, <1>3, <2>1, <2>3, <2>4, <2>5, <2>6, <3>1, FillKeeps
  <2>8. TypeOK'
    BY <1>1, <1>2, <2>1, <2>7 DEF TypeOK, Call
  <2>9. Fitting(pool, ds, snap, jobs)'
    BY <1>1, <2>1, <2>7 DEF Fitting, OpenSnaps, LiveCalls, LiveAt, Quiet
  <2>10. ~crossed' => Matching(pool', ds', jobs')
    <3>1. ~crossed' => ~crossed /\ fill = {}
      BY <2>1
    <3>2. Matching(pool, ds, jobs) => Matching(pool, ds, js)
      BY <2>3 DEF Matching
    <3>3. QED BY <1>4, <2>1, <2>7, <3>1, <3>2
  <2>11. QED BY <1>6, <2>1, <2>7, <2>8, <2>9, <2>10, Parts
<1>8. CASE j.live
  <2> DEFINE js == Detach(rest, Dataset \cup Snap)
             fill == {d \in Dataset : open[d] /\ drawn[d].is # "absent"}
  <2>1. /\ pool' = rows /\ FillDatasets(fill, drawn, none, js, j.snaps)
        /\ crossed' = crossed
    <3>1. pool' = rows /\ FillDatasets(fill, drawn, none, js, j.snaps)
      BY <1>8 DEF DeliverPool
    <3>2. crossed \in BOOLEAN
      BY <1>2 DEF TypeOK
    <3>3. \E S : crossed' = (crossed \/ (~j.live /\ S # {}))
      BY DEF DeliverPool
    <3>4. QED BY <1>8, <3>1, <3>2, <3>3
  <2>2. i \in LiveAt(jobs) /\ j \in LiveCalls(jobs)
    BY <1>3, <1>8 DEF LiveAt, LiveCalls
  <2>3. pool.is = "loading"
    BY <1>3, <1>4, <2>2 DEF Tended, BoxHere
  <2>4. js \in Seq(Call) /\ LiveCalls(js) = {} /\ (Quiet(js) => Quiet(jobs)) /\ OnePool(js)
    <3>1. /\ js \in Seq(Call)
          /\ LiveCalls(js) = {c \in LiveCalls(rest) : ~Hit(c, Dataset \cup Snap)}
          /\ Quiet(js) <=> Quiet(rest)
          /\ OnePool(rest) => OnePool(js)
      <4> HIDE DEF rest
      <4> QED BY <1>5, DetachFact
    <3>2. ASSUME NEW c \in LiveCalls(rest) PROVE Hit(c, Dataset \cup Snap)
      <4>1. ~ForPool(c)
        BY <1>4, <1>5, <2>2 DEF Tended
      <4>2. c \in Call /\ c.at # "sidebar"
        BY <1>5, LiveFact
      <4>3. c \in DatasetJob \cup SnapshotJob
        BY <4>1, <4>2, CallFact DEF Call
      <4>4. QED BY <4>3 DEF DatasetJob, SnapshotJob, Hit
    <3> HIDE DEF js, rest
    <3>3. OnePool(jobs)
      BY <1>4 DEF Tended
    <3>4. QED BY <1>5, <3>1, <3>2, <3>3
  <2>5. /\ drawn \in [Dataset -> DsBox]
        /\ \A d \in Dataset : /\ drawn[d].is = (IF d \in twists /\ open[d] THEN "loading" ELSE "absent")
                              /\ drawn[d].twisty = FALSE
    <3>1. \A x \in {"loading", "absent"} :
            /\ [NoDs EXCEPT !.is = x] \in DsBox
            /\ [NoDs EXCEPT !.is = x].is = x /\ [NoDs EXCEPT !.is = x].twisty = FALSE
      BY DEF NoDs, DsBox
    <3> HIDE DEF twists
    <3>2. QED BY <3>1
  <2>6. /\ rows \in PoolBox /\ rows.is = "rows" /\ rows.snaps = j.snaps /\ rows.twists = twists
    BY <1>3 DEF PoolBox
  <2>7. none \in [Snap -> {"absent", "loading", "rows"}] /\ \A s \in Snap : none[s] = "absent"
    OBVIOUS
  <2>8. fill \in SUBSET Dataset /\ \A d \in fill : drawn[d].is # "absent"
    OBVIOUS
  <2>9. \A d \in Dataset : drawn[d].is = "loading" => d \in fill
    <3> HIDE DEF drawn, twists
    <3> QED BY <2>5
  <2> HIDE DEF js, fill, rows, none, drawn, twists
  <2>10. Tended(rows, drawn, none, js, fill)
    BY <2>4, <2>5, <2>6, <2>7, <2>9 DEF Tended
  <2>11. Fitting(rows, drawn, none, js)
    <3>1. Quiet(js) /\ shown => open[Pool]
      BY <1>4, <2>3, <2>4 DEF Fitting
    <3>2. \A d \in Dataset : drawn[d].is # "absent" <=> d \in rows.twists /\ open[d]
      BY <2>5, <2>6
    <3>3. \A s \in Snap : Of[s] \in Dataset
      BY TreeAssumption
    <3>4. QED BY <2>4, <2>5, <2>6, <2>7, <3>1, <3>2, <3>3 DEF Fitting
  <2>12. Matching(rows, drawn, js)
    BY <2>4, <2>5 DEF Matching
  <2>13. /\ ds' \in [Dataset -> DsBox]
         /\ snap' \in [Snap -> {"absent", "loading", "rows"}]
         /\ jobs' \in Seq(Call) /\ refills' \in Nat
         /\ Tended(rows, ds', snap', jobs', {})
         /\ Fitting(rows, ds', snap', jobs')
         /\ (fill = {} \/ j.snaps = rows.snaps) /\ Matching(rows, drawn, js)
               => Matching(rows, ds', jobs')
    BY <1>2, <1>3, <2>1, <2>4, <2>5, <2>6, <2>7, <2>8, <2>10, <2>11, FillKeeps
  <2>14. TypeOK'
    BY <1>1, <1>2, <2>1, <2>6, <2>13 DEF TypeOK, Call
  <2>15. Fitting(pool, ds, snap, jobs)'
    BY <1>1, <2>1, <2>13 DEF Fitting, OpenSnaps, LiveCalls, LiveAt, Quiet
  <2>16. QED BY <1>6, <2>1, <2>6, <2>12, <2>13, <2>14, <2>15, Parts
<1>9. QED BY <1>3, <1>7, <1>8

-----------------------------------------------------------------------------
\* Every step keeps the invariant.
LEMMA NextInv == IInv /\ [Next]_vars => IInv'
<1> SUFFICES ASSUME IInv, [Next]_vars PROVE IInv'
  OBVIOUS
<1> USE DEF nav, page, Step
<1>1. /\ TypeOK /\ cached \in BOOLEAN /\ files \in BOOLEAN
      /\ open \in [{Pool} \cup Dataset \cup Snap -> BOOLEAN]
      /\ exists \subseteq Snap /\ changes \in Nat /\ rendering \in Nat /\ steps \in Nat
      /\ changes + 1 \in Nat /\ rendering + 1 \in Nat /\ steps + 1 \in Nat
      /\ rendering > 0 => rendering - 1 \in Nat
  BY DEF IInv, TypeOK
\* Steps that leave the sidebar and its calls alone.
<1>2. ASSUME TypeOK', UNCHANGED <<open, page, jobs, refills, unfiltered, crossed>>
      PROVE  IInv'
  BY <1>2 DEF IInv, Tended, Fitting, Matching, FilterToCome, OnePool, BoxHere, OpenSnaps,
              LiveCalls, LiveAt, Quiet, ForPool, ForDs, ForSnap
<1>3. ASSUME NEW s \in Snap, Change(s) PROVE IInv'
  <2>1. TypeOK'
    BY <1>1, <1>3 DEF Change, TypeOK
  <2>2. QED BY <1>2, <1>3, <2>1 DEF Change
<1>4. ASSUME NEW f5 \in BOOLEAN, Visit(f5) PROVE IInv'
  <2>1. TypeOK'
    BY <1>1, <1>4 DEF Visit, TypeOK
  <2>2. QED BY <1>2, <1>4, <2>1 DEF Visit
<1>5. CASE ViewRendered
  BY <1>1, <1>5, RenderSidebarInv DEF ViewRendered
<1>6. CASE ListingsCached
  <2>1. TypeOK'
    BY <1>1, <1>6 DEF ListingsCached, TypeOK
  <2>2. QED BY <1>2, <1>6, <2>1 DEF ListingsCached
<1>7. CASE ToggleFiles
  BY <1>1, <1>7, RenderSidebarInv DEF ToggleFiles
<1>8. CASE Refilled
  <2>0. refills' \in Nat
    <3>1. refills \in Nat /\ refills > 0 /\ refills' = refills - 1
      BY <1>1, <1>8 DEF Refilled, TypeOK
    <3>2. QED BY <3>1
  <2>1. TypeOK'
    BY <1>1, <1>8, <2>0 DEF Refilled, TypeOK
  <2>2. FilterToCome'
    BY <1>8 DEF Refilled, FilterToCome
  <2>3. QED BY <1>8, <2>1, <2>2 DEF Refilled, IInv, Tended, Fitting, Matching, OnePool, BoxHere,
                 OpenSnaps, LiveCalls, LiveAt, Quiet, ForPool, ForDs, ForSnap
<1>9. ASSUME NEW i \in Everything, Toggle(i) PROVE IInv'
  BY <1>1, <1>9, RenderSidebarInv DEF Toggle
<1>10. ASSUME NEW i \in DOMAIN jobs,
              \/ DeliverSidebar(i) \/ AnswerPool(i) \/ DeliverPool(i) \/ FailPool(i)
              \/ DeliverDataset(i) \/ DeliverSnapshot(i)
       PROVE  IInv'
  BY <1>10, DeliverSidebarInv, AnswerPoolInv, DeliverPoolInv, FailPoolInv,
     DeliverDatasetInv, DeliverSnapshotInv
<1>11. CASE UNCHANGED vars
  <2>1. TypeOK'
    BY <1>1, <1>11 DEF vars, TypeOK
  <2>2. QED BY <1>2, <1>11, <2>1 DEF vars
<1>12. QED BY <1>3, <1>4, <1>5, <1>6, <1>7, <1>8, <1>9, <1>10, <1>11 DEF Next

\* The inductive invariant holds in every reachable state.
THEOREM Inductive == Spec => []IInv
<1>1. Init => IInv
  BY InitInv
<1>2. IInv /\ [Next]_vars => IInv'
  BY NextInv
<1>3. QED BY <1>1, <1>2, PTL DEF Spec

\* Boxes, calls and flags are always of their types.
THEOREM TypeCorrect == Spec => []TypeOK
<1>1. IInv => TypeOK
  BY DEF IInv
<1>2. QED BY <1>1, Inductive, PTL

\* At rest no call is under way.
LEMMA RestFact == AtRest => Quiet(jobs) /\ LiveCalls(jobs) = {} /\ refills = 0
BY DEF AtRest, Quiet, LiveCalls, LiveAt

\* At rest no box of a pool, a dataset or a snapshot says that it is loading, and
\* the boxes are those the flags open, also if they were clicked between the
\* drawing and the filling of a row.
THEOREM OpenFilled == Spec => []OpenBoxesFilled
<1>1. IInv => OpenBoxesFilled
  <2> SUFFICES ASSUME IInv, AtRest PROVE NoneLoading /\ (shown => BoxesOfFlags)
    BY DEF OpenBoxesFilled
  <2>1. Quiet(jobs) /\ LiveCalls(jobs) = {}
    BY RestFact
  <2>2. NoneLoading
    BY <2>1 DEF IInv, Tended, NoneLoading
  <2>3. shown => BoxesOfFlags
    BY <2>1 DEF IInv, Fitting, BoxesOfFlags
  <2>4. QED BY <2>2, <2>3
<1>2. QED BY <1>1, Inductive, PTL

\* A dataset lists the snapshots of the listing its pool shows, unless the
\* answer of a replaced box filled it.
THEOREM ListsAgree == Spec => []SameListing
<1>1. IInv => SameListing
  BY DEF IInv, Matching, SameListing
<1>2. QED BY <1>1, Inductive, PTL

\* Rows written after the filter was applied have it applied again in the end.
THEOREM Filtered == Spec => []AllFiltered
<1>1. IInv => AllFiltered
  BY RestFact DEF IInv, FilterToCome, AllFiltered
<1>2. QED BY <1>1, Inductive, PTL
=============================================================================
