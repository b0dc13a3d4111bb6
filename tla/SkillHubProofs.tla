----------------------------- MODULE SkillHubProofs -----------------------------
(***************************************************************************)
(* What the install queue guarantees for any skills, any number of items,  *)
(* slots and retries: types, one row per skill, the bound on the work      *)
(* under way, that an install cancelled while it ran is never recorded,    *)
(* that installs start in the order they were asked for and that neither   *)
(* they nor the idle notice wait for a wake-up that does not come.  Then   *)
(* what the hub built on it guarantees, whatever is installed, imported,   *)
(* removed or restarted: the ledger matches the disk, what was removed     *)
(* stays removed, and a sync has seen what the ledger lists.               *)
(***************************************************************************)
EXTENDS SkillHub, FiniteSetTheorems, SequenceTheorems, TLAPS

Item == [slug : Slugs, status : Statuses, retries : 0 .. MaxRetries]
Items == Seq(Item)

(***************************************************************************)
(* The inductive invariant.  Its parts are said of any lists, because      *)
(* drain() starts from those its caller has reached.                       *)
(***************************************************************************)

Lists(items, pend, act, comp) ==
    /\ items \in Items /\ Len(items) <= MaxItems
    /\ pend \in Seq(DOMAIN items) /\ comp \in Seq(DOMAIN items)
    /\ act \in [Slugs -> {None} \cup DOMAIN items]

\* The entry of a slug is an item of that slug, and no two entries of the three lists are of
\* the same slug.
OneRow(items, pend, act, comp) ==
    /\ \A s \in Slugs : act[s] # None => items[act[s]].slug = s
    /\ \A i \in DOMAIN pend : act[items[pend[i]].slug] = None
    /\ \A i \in DOMAIN comp : act[items[comp[i]].slug] = None
    /\ \A i, j \in DOMAIN pend : items[pend[i]].slug = items[pend[j]].slug => i = j
    /\ \A i, j \in DOMAIN comp : items[comp[i]].slug = items[comp[j]].slug => i = j
    /\ \A i \in DOMAIN pend, j \in DOMAIN comp : items[pend[i]].slug # items[comp[j]].slug

\* What has ended was done or failed; what has not has retries left.
Ended(items, pend, comp, run) ==
    /\ \A i \in DOMAIN comp : items[comp[i]].status \in {"done", "failed"}
    /\ \A i \in DOMAIN pend : items[pend[i]].retries < MaxRetries
    /\ \A id \in run : items[id].retries < MaxRetries

\* Executors and clean-ups are those of the entries of the map, and it is never too large.
Slots(items, act, run, clean) ==
    /\ IsFiniteSet(ActiveSlugs(act)) /\ Cardinality(ActiveSlugs(act)) <= MaxConcurrency
    /\ run \cup clean \subseteq DOMAIN items /\ run \cap clean = {}
    /\ \A id \in run \cup clean : act[items[id].slug] = id

\* But for the retries at the front, as many as there are free slots, the pending items are
\* in order and later than every active one.
InOrder(pend, act) ==
    \E k \in 0 .. Len(pend) :
        /\ k + Cardinality(ActiveSlugs(act)) <= MaxConcurrency
        /\ \A j \in k + 1 .. Len(pend) : /\ \A i \in 1 .. j - 1 : pend[i] < pend[j]
                                         /\ \A s \in Slugs : act[s] < pend[j]

Queue(items, pend, act, comp, run, clean) ==
    /\ Lists(items, pend, act, comp) /\ OneRow(items, pend, act, comp)
    /\ Ended(items, pend, comp, run) /\ Slots(items, act, run, clean) /\ InOrder(pend, act)

IsPending(id) == \E i \in DOMAIN pending : pending[i] = id

\* An item cancelled while it was active is marked, by its slug, as long as it may yet
\* end well.
Marked == \A id \in dropped : id \in running \/ IsPending(id) => SlugOf(id) \in cancelled

\* What was recorded is over.
RecordedIsOver ==
    /\ \A s \in Slugs : active[s] \notin recorded
    /\ \A id \in recorded : ~IsPending(id)

Sets ==
    /\ cancelled \subseteq Slugs /\ pause \in {"off", "on", "over"}
    /\ disposed \in BOOLEAN /\ hadCompletionSinceIdle \in BOOLEAN
    /\ timers \subseteq DOMAIN item /\ recorded \subseteq DOMAIN item
    /\ uninstalled \subseteq DOMAIN item /\ dropped \subseteq DOMAIN item

IInv ==
    /\ Queue(item, pending, active, completed, running, cleaning)
    /\ Sets /\ Marked /\ RecordedIsOver /\ CancelledIsNotRecorded

(***************************************************************************)
(* Counting, and lists without one of their elements.                      *)
(***************************************************************************)

LEMMA Bounds == MaxConcurrency \in Nat /\ MaxRetries \in Nat \ {0} /\ MaxItems \in Nat
  BY QueueConstants

\* The image of a finite set is no larger, and as large under an injection.
LEMMA CountImage ==
    ASSUME NEW S, IsFiniteSet(S), NEW f, DOMAIN f = S
    PROVE  LET T == {f[x] : x \in S}
           IN  /\ IsFiniteSet(T) /\ Cardinality(T) <= Cardinality(S)
               /\ (\A x, y \in S : f[x] = f[y] => x = y) => Cardinality(T) = Cardinality(S)
  <1> DEFINE T == {f[x] : x \in S}
             g == [x \in S |-> f[x]]
  <1>1. g \in Surjection(S, T)
    BY DEF Surjection
  <1>2. (\A x, y \in S : f[x] = f[y] => x = y) => g \in Injection(S, T)
    BY DEF Injection, IsInjective
  <1>3. /\ IsFiniteSet(T) /\ Cardinality(T) <= Cardinality(S)
        /\ Cardinality(T) = Cardinality(S) <=> g \in Injection(S, T)
    BY ONLY FS_Surjection, <1>1, IsFiniteSet(S)
  <1> QED
    BY <1>2, <1>3

LEMMA DisjointUnion ==
    ASSUME NEW S, NEW T, IsFiniteSet(S), IsFiniteSet(T), S \cap T = {}
    PROVE  IsFiniteSet(S \cup T) /\ Cardinality(S \cup T) = Cardinality(S) + Cardinality(T)
  <1>1. /\ IsFiniteSet(S \cup T)
        /\ Cardinality(S \cup T) = Cardinality(S) + Cardinality(T) - Cardinality({})
    BY FS_Union
  <1>2. Cardinality({}) = 0 /\ Cardinality(S) \in Nat /\ Cardinality(T) \in Nat
    BY FS_EmptySet, FS_CardinalityType
  <1> QED
    BY <1>1, <1>2

LEMMA RemoveAtProperties ==
    ASSUME NEW S, NEW s \in Seq(S), NEW i \in 1 .. Len(s)
    PROVE  /\ RemoveAt(s, i) \in Seq(S) /\ Len(RemoveAt(s, i)) = Len(s) - 1
           /\ \A j \in 1 .. Len(s) - 1 : RemoveAt(s, i)[j] = IF j < i THEN s[j] ELSE s[j + 1]
  <1>1. /\ SubSeq(s, 1, i - 1) \in Seq(S) /\ Len(SubSeq(s, 1, i - 1)) = i - 1
        /\ \A j \in 1 .. i - 1 : SubSeq(s, 1, i - 1)[j] = s[j]
    OBVIOUS
  <1>2. /\ SubSeq(s, i + 1, Len(s)) \in Seq(S) /\ Len(SubSeq(s, i + 1, Len(s))) = Len(s) - i
        /\ \A j \in 1 .. Len(s) - i : SubSeq(s, i + 1, Len(s))[j] = s[j + i]
    OBVIOUS
  <1> DEFINE front == SubSeq(s, 1, i - 1)
             back == SubSeq(s, i + 1, Len(s))
  <1> HIDE DEF front, back
  <1>3. /\ front \o back \in Seq(S) /\ Len(front \o back) = Len(front) + Len(back)
        /\ \A j \in 1 .. Len(front) + Len(back) :
              (front \o back)[j] = IF j <= Len(front) THEN front[j] ELSE back[j - Len(front)]
    BY <1>1, <1>2, ConcatProperties DEF front, back
  <1>4. RemoveAt(s, i) = front \o back
    BY DEF RemoveAt, front, back
  <1>5. /\ Len(front) = i - 1 /\ \A j \in 1 .. i - 1 : front[j] = s[j]
        /\ Len(back) = Len(s) - i /\ \A j \in 1 .. Len(s) - i : back[j] = s[j + i]
    BY <1>1, <1>2 DEF front, back
  <1>6. ASSUME NEW j \in 1 .. Len(s) - 1
        PROVE  RemoveAt(s, i)[j] = IF j < i THEN s[j] ELSE s[j + 1]
    <2>1. CASE j < i
      BY <1>3, <1>4, <1>5, <2>1
    <2>2. CASE ~(j < i)
      <3>1. PICK m \in 1 .. Len(s) - i : m = j - (i - 1) /\ m + i = j + 1
        BY <2>2
      <3>2. back[m] = s[j + 1]
        BY <1>5, <3>1
      <3> QED
        BY <1>3, <1>4, <1>5, <2>2, <3>1, <3>2
    <2> QED
      BY <2>1, <2>2
  <1> QED
    BY <1>3, <1>4, <1>5, <1>6

LEMMA Least == ASSUME NEW T \in SUBSET Nat, T # {} PROVE \E x \in T : \A y \in T : x <= y
  <1> DEFINE R == OpToRel(<, Nat)
  <1>1. IsWellFoundedOn(R, Nat)
    BY NatLessThanWellFounded
  <1> HIDE DEF R
  <1>2. PICK x \in T : \A y \in T : ~(<<y, x>> \in R)
    BY <1>1, WFMin
  <1>3. ASSUME NEW y \in T PROVE x <= y
    <2>1. x \in Nat /\ y \in Nat /\ <<y, x>> \notin R
      BY <1>2
    <2> QED
      BY <2>1 DEF R, OpToRel
  <1> QED
    BY <1>2, <1>3

\* The list without the first of some rows is the list, or it without one of them.
LEMMA WithoutFirstIsRemoveAt ==
    ASSUME NEW list, NEW rows \in SUBSET Nat
    PROVE  \/ rows = {} /\ WithoutFirst(list, rows) = list
           \/ \E i \in rows : WithoutFirst(list, rows) = RemoveAt(list, i)
  <1>1. CASE rows = {}
    BY <1>1 DEF WithoutFirst
  <1>2. CASE rows # {}
    <2>1. \E i \in rows : \A j \in rows : i <= j
      BY <1>2, Least
    <2>2. (CHOOSE i \in rows : \A j \in rows : i <= j) \in rows
      BY <2>1
    <2> QED
      BY <1>2, <2>2 DEF WithoutFirst
  <1> QED
    BY <1>1, <1>2

(***************************************************************************)
(* drain(): what it starts, and that it keeps the queue in order.          *)
(***************************************************************************)

\* The first n pending items are started, and nothing else changes.
Starts(n, items, pend, act, run) ==
    /\ pending' \in Seq(DOMAIN items) /\ Len(pending') = Len(pend) - n
    /\ \A j \in 1 .. Len(pend) - n : pending'[j] = pend[j + n]
    /\ item' \in Items /\ Len(item') = Len(items) /\ DOMAIN item' = DOMAIN items
    /\ \A id \in DOMAIN items :
          /\ item'[id].slug = items[id].slug /\ item'[id].retries = items[id].retries
          /\ (\A i \in 1 .. n : id # pend[i]) => item'[id].status = items[id].status
    /\ active' \in [Slugs -> {None} \cup DOMAIN items]
    /\ \A i \in 1 .. n : active'[items[pend[i]].slug] = pend[i]
    /\ \A s \in Slugs : active'[s] # act[s] => \E i \in 1 .. n : s = items[pend[i]].slug
    /\ running' = run \cup {pend[i] : i \in 1 .. n}

\* How many: no more than there are free slots, and if any then the retries at the front.
Fit(n, pend, act) ==
    /\ n \in 0 .. Len(pend)
    /\ n # 0 => n + Cardinality(ActiveSlugs(act)) <= MaxConcurrency
    /\ n # 0 => \A k \in 0 .. Len(pend) :
                   k + Cardinality(ActiveSlugs(act)) <= MaxConcurrency => k <= n

LEMMA DrainStarts ==
    ASSUME NEW items, NEW pend, NEW act, NEW comp, NEW run, NEW had,
           Lists(items, pend, act, comp), OneRow(items, pend, act, comp),
           IsFiniteSet(ActiveSlugs(act)), Drain(items, pend, act, run, had)
    PROVE  \E n \in Nat : Fit(n, pend, act) /\ Starts(n, items, pend, act, run)
  <1> DEFINE size == Cardinality(ActiveSlugs(act))
             free == MaxConcurrency - size
             n == IF disposed \/ pause = "on" \/ free <= 0 THEN 0
                  ELSE IF Len(pend) < free THEN Len(pend) ELSE free
             started == {pend[i] : i \in 1 .. n}
  <1>1. size \in Nat /\ MaxConcurrency \in Nat /\ Len(pend) \in Nat
    BY FS_CardinalityType, Bounds DEF Lists
  <1>2. Fit(n, pend, act)
    BY <1>1 DEF Fit
  <1>3. /\ pending' = SubSeq(pend, n + 1, Len(pend))
        /\ active' = [s \in Slugs |->
                        IF \E id \in started : items[id].slug = s
                        THEN CHOOSE id \in started : items[id].slug = s ELSE act[s]]
        /\ item' = [id \in DOMAIN items |->
                        IF id \in started THEN [items[id] EXCEPT !.status = "downloading"]
                        ELSE items[id]]
        /\ running' = run \cup started
    BY Zenon DEF Drain
  <1> HIDE DEF n
  <1>4. n \in 0 .. Len(pend) /\ pend \in Seq(DOMAIN items) /\ items \in Items
    BY <1>2 DEF Fit, Lists
  <1>5. /\ pending' \in Seq(DOMAIN items) /\ Len(pending') = Len(pend) - n
        /\ \A j \in 1 .. Len(pend) - n : pending'[j] = pend[j + n]
    BY <1>3, <1>4
  <1>6. \A i \in 1 .. n : i \in DOMAIN pend /\ pend[i] \in DOMAIN items
    BY <1>4
  <1>7. \A id \in DOMAIN items : items[id] \in Item
    BY <1>4 DEF Items
  <1>8. /\ item' \in Items /\ Len(item') = Len(items) /\ DOMAIN item' = DOMAIN items
        /\ \A id \in DOMAIN items :
              /\ item'[id].slug = items[id].slug /\ item'[id].retries = items[id].retries
              /\ (\A i \in 1 .. n : id # pend[i]) => item'[id].status = items[id].status
    <2>1. DOMAIN items = 1 .. Len(items) /\ Len(items) \in Nat /\ DOMAIN item' = DOMAIN items
      BY <1>3, <1>4 DEF Items
    <2>2. \A id \in DOMAIN items :
              /\ item'[id] \in Item
              /\ item'[id].slug = items[id].slug /\ item'[id].retries = items[id].retries
              /\ id \notin started => item'[id].status = items[id].status
      BY <1>3, <1>7 DEF Item, Statuses
    <2>3. item' = [id \in 1 .. Len(items) |-> item'[id]]
      BY <1>3, <2>1
    <2>4. item' \in Items /\ Len(item') = Len(items)
      BY <2>1, <2>2, <2>3 DEF Items
    <2> QED
      BY <2>1, <2>2, <2>4
  <1>9. \A i \in 1 .. n : active'[items[pend[i]].slug] = pend[i]
    <2> SUFFICES ASSUME NEW i \in 1 .. n PROVE active'[items[pend[i]].slug] = pend[i]
      OBVIOUS
    <2>1. items[pend[i]].slug \in Slugs /\ pend[i] \in started
      BY <1>6, <1>7 DEF Item
    <2>2. \A id \in started : items[id].slug = items[pend[i]].slug => id = pend[i]
      BY <1>6 DEF OneRow
    <2> QED
      BY <1>3, <2>1, <2>2
  <1>10. \A s \in Slugs : active'[s] # act[s] => \E i \in 1 .. n : s = items[pend[i]].slug
    BY <1>3
  <1>11. active' \in [Slugs -> {None} \cup DOMAIN items]
    <2>1. \A s \in Slugs : active'[s] \in {None} \cup DOMAIN items
      BY <1>6, <1>9, <1>10 DEF Lists
    <2> QED
      BY <1>3, <2>1
  <1>12. Starts(n, items, pend, act, run)
    BY <1>3, <1>5, <1>8, <1>9, <1>10, <1>11, Zenon DEF Starts
  <1> QED
    BY <1>2, <1>4, <1>12

\* Where the entries of the lists come from, and that none started before an earlier one.
Follows(items, pend, act, run) ==
    /\ DOMAIN item' = DOMAIN items /\ \A id \in DOMAIN items : item'[id].slug = items[id].slug
    /\ \A j \in DOMAIN pending' : \E i \in DOMAIN pend : pending'[j] = pend[i]
    /\ \A s \in Slugs : active'[s] = act[s] \/ \E i \in DOMAIN pend : active'[s] = pend[i]
    /\ \A id \in running' : id \in run \/ \E i \in DOMAIN pend : id = pend[i]
    /\ \A id \in running' \ run : \A j \in DOMAIN pending' : id < pending'[j]

\* Each one started takes a slot.
LEMMA StartsFill ==
    ASSUME NEW items, NEW pend, NEW act, NEW comp, NEW run, NEW clean, NEW n \in Nat,
           Lists(items, pend, act, comp), OneRow(items, pend, act, comp),
           Slots(items, act, run, clean), Fit(n, pend, act), Starts(n, items, pend, act, run)
    PROVE  /\ IsFiniteSet(ActiveSlugs(active')) /\ Cardinality(ActiveSlugs(active')) \in Nat
           /\ Cardinality(ActiveSlugs(act)) \in Nat
           /\ Cardinality(ActiveSlugs(active')) = Cardinality(ActiveSlugs(act)) + n
  <1> DEFINE slug(i) == items[pend[i]].slug
             f == [i \in 1 .. n |-> slug(i)]
             new == {f[i] : i \in 1 .. n}
  <1>1. \A id \in DOMAIN items : items[id] \in Item /\ id \in Nat \ {0}
    BY DEF Lists, Items
  <1>2. \A i \in 1 .. n : i \in DOMAIN pend /\ pend[i] \in DOMAIN items
    BY DEF Lists, Fit
  <1>3. \A i \in 1 .. n : pend[i] # None /\ slug(i) \in Slugs /\ act[slug(i)] = None
    BY <1>1, <1>2 DEF Item, None, OneRow
  <1>4. \A i, j \in 1 .. n : slug(i) = slug(j) => i = j
    BY <1>2, Zenon DEF OneRow
  <1>5. /\ \A i \in 1 .. n : active'[slug(i)] = pend[i]
        /\ \A s \in Slugs : active'[s] # act[s] => \E i \in 1 .. n : s = slug(i)
    BY Zenon DEF Starts
  <1> HIDE DEF slug
  <1>6. \A s : s \in new <=> \E i \in 1 .. n : s = slug(i)
    OBVIOUS
  <1>7. IsFiniteSet(1 .. n) /\ Cardinality(1 .. n) = n
    BY FS_Interval
  <1>8. IsFiniteSet(new) /\ Cardinality(new) = n
    <2>1. \A i, j \in 1 .. n : f[i] = f[j] => i = j
      BY <1>4
    <2>2. /\ IsFiniteSet({f[i] : i \in 1 .. n})
          /\ (\A i, j \in 1 .. n : f[i] = f[j] => i = j) => Cardinality({f[i] : i \in 1 .. n}) = n
      BY <1>7, CountImage
    <2> QED
      BY <2>1, <2>2
  <1> HIDE DEF new
  <1>9. ActiveSlugs(active') = ActiveSlugs(act) \cup new
    BY <1>3, <1>5, <1>6 DEF ActiveSlugs
  <1>10. ActiveSlugs(act) \cap new = {}
    BY <1>3, <1>6 DEF ActiveSlugs
  <1>11. IsFiniteSet(ActiveSlugs(act)) /\ Cardinality(ActiveSlugs(act)) \in Nat
    BY FS_CardinalityType DEF Slots
  <1>12. /\ IsFiniteSet(ActiveSlugs(act) \cup new)
         /\ Cardinality(ActiveSlugs(act) \cup new) = Cardinality(ActiveSlugs(act)) + n
    BY <1>8, <1>10, <1>11, DisjointUnion
  <1> QED
    BY <1>9, <1>11, <1>12

LEMMA DrainKeeps ==
    ASSUME NEW items, NEW pend, NEW act, NEW comp, NEW run, NEW clean, NEW had,
           Queue(items, pend, act, comp, run, clean), Drain(items, pend, act, run, had)
    PROVE  /\ Queue(item', pending', active', comp, running', clean)
           /\ Follows(items, pend, act, run)
  <1>0. /\ Lists(items, pend, act, comp) /\ OneRow(items, pend, act, comp)
        /\ Ended(items, pend, comp, run) /\ Slots(items, act, run, clean) /\ InOrder(pend, act)
    BY Zenon DEF Queue
  <1>1. PICK n \in Nat : Fit(n, pend, act) /\ Starts(n, items, pend, act, run)
    BY <1>0, DrainStarts DEF Slots
  <1>2. /\ n \in 0 .. Len(pend) /\ Len(pend) \in Nat /\ n \in Nat
        /\ DOMAIN pend = 1 .. Len(pend) /\ DOMAIN comp = 1 .. Len(comp)
    BY <1>0, <1>1 DEF Fit, Lists
  <1>3. /\ item' \in Items /\ Len(item') = Len(items) /\ DOMAIN item' = DOMAIN items
        /\ \A id \in DOMAIN items :
              /\ item'[id].slug = items[id].slug /\ item'[id].retries = items[id].retries
              /\ (\A i \in 1 .. n : id # pend[i]) => item'[id].status = items[id].status
        /\ pending' \in Seq(DOMAIN items) /\ active' \in [Slugs -> {None} \cup DOMAIN items]
        /\ Len(pending') = Len(pend) - n /\ \A j \in 1 .. Len(pend) - n : pending'[j] = pend[j + n]
        /\ running' = run \cup {pend[i] : i \in 1 .. n}
    BY <1>1, Zenon DEF Starts
  <1>4. \A id \in DOMAIN items : items[id].slug \in Slugs /\ id \in Nat /\ id # None
    <2>1. \A id \in DOMAIN items : items[id] \in Item /\ id \in Nat \ {0}
      BY <1>0 DEF Lists, Items
    <2> QED
      BY <2>1 DEF Item, None
  <1> DEFINE slug(i) == items[pend[i]].slug
             old(j) == items[comp[j]].slug
  <1>5. /\ \A i \in DOMAIN pend : /\ pend[i] \in DOMAIN items /\ pend[i] # None
                                  /\ slug(i) \in Slugs /\ item'[pend[i]].slug = slug(i)
        /\ \A j \in DOMAIN comp : /\ comp[j] \in DOMAIN items
                                  /\ old(j) \in Slugs /\ item'[comp[j]].slug = old(j)
    <2>1. \A i \in DOMAIN pend : pend[i] \in DOMAIN items
      BY <1>0 DEF Lists
    <2>2. \A i \in DOMAIN comp : comp[i] \in DOMAIN items
      BY <1>0 DEF Lists
    <2> QED
      BY <1>3, <1>4, <2>1, <2>2
  <1>6. /\ \A i \in 1 .. n : i \in DOMAIN pend
        /\ \A j \in DOMAIN pending' : j + n \in DOMAIN pend /\ pending'[j] = pend[j + n]
        /\ \A j \in DOMAIN pending' : j + n \notin 1 .. n
    <2>1. DOMAIN pending' = 1 .. Len(pend) - n
      BY <1>3
    <2> QED
      BY <1>2, <1>3, <2>1
  <1>7. /\ \A i \in 1 .. n : active'[slug(i)] = pend[i]
        /\ \A s \in Slugs : active'[s] = act[s]
                            \/ \E i \in 1 .. n : s = slug(i) /\ active'[s] = pend[i]
    BY <1>1 DEF Starts
  <1>8. /\ \A s \in Slugs : act[s] # None => items[act[s]].slug = s
        /\ \A i \in DOMAIN pend : act[slug(i)] = None
        /\ \A j \in DOMAIN comp : act[old(j)] = None
        /\ \A i, j \in DOMAIN pend : slug(i) = slug(j) => i = j
        /\ \A i, j \in DOMAIN comp : old(i) = old(j) => i = j
        /\ \A i \in DOMAIN pend, j \in DOMAIN comp : slug(i) # old(j)
    BY <1>0, Zenon DEF OneRow
  <1>9. Lists(item', pending', active', comp)
    BY <1>0, <1>3 DEF Lists
  <1>10. OneRow(item', pending', active', comp)
    <2>1. ASSUME NEW s \in Slugs, active'[s] # None PROVE item'[active'[s]].slug = s
      <3>1. CASE active'[s] = act[s]
        <4>1. act[s] \in DOMAIN items
          BY <1>0, <2>1, <3>1 DEF Lists
        <4> QED
          BY <1>3, <1>8, <2>1, <3>1, <4>1
      <3>2. ASSUME NEW i \in 1 .. n, s = slug(i),
      active'[s] = pend[i] PROVE item'[active'[s]].slug = s
        BY <1>5, <1>6, <3>2
      <3> QED
        BY <1>7, <3>1, <3>2
    <2>2. ASSUME NEW j \in DOMAIN pending' PROVE active'[item'[pending'[j]].slug] = None
      <3>1. j + n \in DOMAIN pend /\ item'[pending'[j]].slug = slug(j + n) /\ slug(j + n) \in Slugs
        BY <1>5, <1>6
      <3>2. \A i \in 1 .. n : slug(i) # slug(j + n)
        BY <1>6, <1>8, <3>1
      <3>3. act[slug(j + n)] = None
        BY <1>8, <3>1
      <3> QED
        BY <1>7, <3>1, <3>2, <3>3
    <2>3. ASSUME NEW j \in DOMAIN comp PROVE active'[item'[comp[j]].slug] = None
      <3>1. \A i \in 1 .. n : slug(i) # old(j)
        BY <1>6, <1>8
      <3>2. act[old(j)] = None /\ old(j) \in Slugs /\ item'[comp[j]].slug = old(j)
        BY <1>5, <1>8
      <3> QED
        BY <1>7, <3>1, <3>2
    <2>4. ASSUME NEW i \in DOMAIN pending', NEW j \in DOMAIN pending',
                 item'[pending'[i]].slug = item'[pending'[j]].slug
          PROVE  i = j
      <3>1. slug(i + n) = slug(j + n)
        BY <1>5, <1>6, <2>4
      <3>2. i + n = j + n
        BY <1>6, <1>8, <3>1
      <3>3. i \in Nat /\ j \in Nat
        BY <1>3
      <3> QED
        BY <1>2, <3>2, <3>3
    <2>5. \A i, j \in DOMAIN comp : item'[comp[i]].slug = item'[comp[j]].slug => i = j
      BY <1>5, <1>8
    <2>6. ASSUME NEW i \in DOMAIN pending', NEW j \in DOMAIN comp
          PROVE  item'[pending'[i]].slug # item'[comp[j]].slug
      <3>1. i + n \in DOMAIN pend /\ item'[pending'[i]].slug = slug(i + n) /\ item'[comp[j]].slug = old(j)
        BY <1>5, <1>6
      <3> QED
        BY <1>8, <3>1
    <2> QED
      BY <2>1, <2>2, <2>3, <2>4, <2>5, <2>6, Zenon DEF OneRow
  <1>11. Ended(item', pending', comp, running')
    <2>1. \A j \in DOMAIN comp, i \in 1 .. n : comp[j] # pend[i]
      BY <1>6, <1>8
    <2>2. \A j \in DOMAIN comp : item'[comp[j]].status \in {"done", "failed"}
      <3>1. \A j \in DOMAIN comp : item'[comp[j]].status = items[comp[j]].status
        BY <1>3, <1>5, <2>1
      <3> QED
        BY <1>0, <3>1 DEF Ended
    <2>3. ASSUME NEW i \in DOMAIN pend PROVE item'[pend[i]].retries < MaxRetries
      <3>1. item'[pend[i]].retries = items[pend[i]].retries
        BY <1>3, <1>5
      <3> QED
        BY <1>0, <3>1 DEF Ended
    <2>4. ASSUME NEW id \in run PROVE item'[id].retries < MaxRetries
      <3>1. id \in DOMAIN items
        BY <1>0 DEF Slots
      <3>2. item'[id].retries = items[id].retries
        BY <1>3, <3>1
      <3> QED
        BY <1>0, <3>2 DEF Ended
    <2>5. \A j \in DOMAIN pending' : item'[pending'[j]].retries < MaxRetries
      BY <1>6, <2>3
    <2>6. \A id \in running' : item'[id].retries < MaxRetries
      BY <1>3, <1>6, <2>3, <2>4
    <2> QED
      BY <2>2, <2>5, <2>6 DEF Ended
  <1>12. /\ IsFiniteSet(ActiveSlugs(active')) /\ Cardinality(ActiveSlugs(active')) \in Nat
         /\ Cardinality(ActiveSlugs(active')) = Cardinality(ActiveSlugs(act)) + n
         /\ Cardinality(ActiveSlugs(act)) \in Nat
    BY <1>0, <1>1, StartsFill
  <1>13. Slots(item', active', running', clean)
    <2>1. Cardinality(ActiveSlugs(active')) <= MaxConcurrency
      BY <1>0, <1>1, <1>2, <1>12, Bounds DEF Slots, Fit
    <2>2. \A id \in run \cup clean : /\ id \in DOMAIN items /\ id # None /\ items[id].slug \in Slugs
                                    /\ act[items[id].slug] = id
      BY <1>0, <1>4 DEF Slots
    <2>3. \A i \in 1 .. n : pend[i] \in DOMAIN items /\ pend[i] \notin clean
      BY <1>5, <1>6, <1>8, <2>2
    <2>4. running' \cup clean \subseteq DOMAIN items /\ running' \cap clean = {}
      BY <1>0, <1>3, <2>2, <2>3 DEF Slots
    <2>5. ASSUME NEW id \in run \cup clean PROVE active'[item'[id].slug] = id
      <3>1. \A i \in 1 .. n : items[id].slug # slug(i)
        BY <1>6, <1>8, <2>2
      <3>2. active'[items[id].slug] = id
        BY <1>7, <2>2, <3>1
      <3> QED
        BY <1>3, <2>2, <3>2
    <2>6. ASSUME NEW i \in 1 .. n PROVE active'[item'[pend[i]].slug] = pend[i]
      BY <1>5, <1>6, <1>7
    <2>7. \A id \in running' \cup clean : active'[item'[id].slug] = id
      BY <1>3, <2>5, <2>6
    <2> QED
      BY <1>3, <1>12, <2>1, <2>4, <2>7 DEF Slots
  <1>14. PICK k \in 0 .. Len(pend) :
            /\ k + Cardinality(ActiveSlugs(act)) <= MaxConcurrency
            /\ \A j \in k + 1 .. Len(pend) : /\ \A i \in 1 .. j - 1 : pend[i] < pend[j]
                                             /\ \A s \in Slugs : act[s] < pend[j]
    BY <1>0 DEF InOrder
  <1>15. InOrder(pending', active')
    <2>1. CASE n = 0
      <3>1. pending' = pend
        <4>1. Len(pending') = Len(pend) /\ \A j \in 1 .. Len(pend) : pending'[j] = pend[j]
          BY <1>2, <1>3, <2>1
        <4> QED
          BY <1>0, <1>3, <4>1, SeqEqual DEF Lists
      <3>2. active' = act
        BY <1>0, <1>2, <1>3, <1>7, <2>1 DEF Lists
      <3> QED
        BY <1>0, <3>1, <3>2
    <2>2. CASE n # 0
      <3>1. k <= n
        BY <1>1, <1>14, <2>2 DEF Fit
      <3>2. Cardinality(ActiveSlugs(active')) <= MaxConcurrency
        BY <1>13 DEF Slots
      <3>3. ASSUME NEW j \in 1 .. Len(pending')
            PROVE  /\ \A i \in 1 .. j - 1 : pending'[i] < pending'[j]
                   /\ \A s \in Slugs : active'[s] < pending'[j]
        <4>1. /\ pending'[j] = pend[j + n] /\ j + n \in k + 1 .. Len(pend)
              /\ \A i \in 1 .. n : i \in 1 .. (j + n) - 1
              /\ \A i \in 1 .. j - 1 : i \in 1 .. Len(pend) - n /\ i + n \in 1 .. (j + n) - 1
          BY <1>2, <1>3, <3>1
        <4>2. \A i \in 1 .. j - 1 : pending'[i] = pend[i + n] /\ pend[i + n] < pend[j + n]
          BY <1>3, <1>14, <4>1
        <4>3. \A s \in Slugs : active'[s] < pend[j + n]
          BY <1>7, <1>14, <4>1
        <4> QED
          BY <4>1, <4>2, <4>3
      <3>4. Len(pending') \in Nat
        BY <1>3
      <3> QED
        BY <1>12, <3>2, <3>3, <3>4 DEF InOrder
    <2> QED
      BY <2>1, <2>2
  <1>16. Follows(items, pend, act, run)
    <2>1. \A id \in running' \ run : \A j \in DOMAIN pending' : id < pending'[j]
      <3> SUFFICES ASSUME NEW i \in 1 .. n,
      NEW j \in DOMAIN pending' PROVE pend[i] < pending'[j]
        BY <1>3
      <3>1. k <= n
        BY <1>1, <1>2, <1>14 DEF Fit
      <3>2. pending'[j] = pend[j + n] /\ j + n \in DOMAIN pend /\ j \in Nat /\ j > 0
        BY <1>3, <1>6
      <3>3. j + n \in k + 1 .. Len(pend) /\ i \in 1 .. (j + n) - 1
        BY <1>2, <3>1, <3>2
      <3> QED
        BY <1>14, <3>2, <3>3
    <2>2. DOMAIN item' = DOMAIN items /\ \A id \in DOMAIN items : item'[id].slug = items[id].slug
      BY <1>3
    <2>3. \A j \in DOMAIN pending' : \E i \in DOMAIN pend : pending'[j] = pend[i]
      BY <1>6
    <2>4. \A s \in Slugs : active'[s] = act[s] \/ \E i \in DOMAIN pend : active'[s] = pend[i]
      BY <1>6, <1>7
    <2>5. \A id \in running' : id \in run \/ \E i \in DOMAIN pend : id = pend[i]
      BY <1>3, <1>6
    <2> QED
      BY <2>1, <2>2, <2>3, <2>4, <2>5, Zenon DEF Follows
  <1> QED
    BY <1>9, <1>10, <1>11, <1>13, <1>15, <1>16 DEF Queue

(***************************************************************************)
(* The queue with fewer rows, or with one ended or put back.               *)
(***************************************************************************)

\* Where the elements of a list without one of them were.
LEMMA Shift ==
    ASSUME NEW S, NEW list \in Seq(S), NEW i \in DOMAIN list
    PROVE  LET to(j) == IF j < i THEN j ELSE j + 1
               rest == RemoveAt(list, i)
           IN  /\ rest \in Seq(S) /\ Len(rest) = Len(list) - 1 /\ DOMAIN rest = 1 .. Len(list) - 1
               /\ \A j \in DOMAIN rest : to(j) \in DOMAIN list /\ to(j) # i /\ rest[j] = list[to(j)]
               /\ \A j, k \in DOMAIN rest : (to(j) = to(k) => j = k) /\ (j < k => to(j) < to(k))
               /\ \A j \in DOMAIN list \ {i} : \E k \in DOMAIN rest : j = to(k)
  <1> DEFINE to(j) == IF j < i THEN j ELSE j + 1
             rest == RemoveAt(list, i)
  <1>1. Len(list) \in Nat /\ DOMAIN list = 1 .. Len(list) /\ i \in 1 .. Len(list)
    OBVIOUS
  <1>2. /\ rest \in Seq(S) /\ Len(rest) = Len(list) - 1
        /\ \A j \in 1 .. Len(list) - 1 : rest[j] = IF j < i THEN list[j] ELSE list[j + 1]
    BY <1>1, RemoveAtProperties
  <1>3. DOMAIN rest = 1 .. Len(list) - 1
    BY <1>1, <1>2
  <1>4. \A j \in 1 .. Len(list) - 1 : to(j) \in DOMAIN list /\ to(j) # i /\ rest[j] = list[to(j)]
    BY <1>1, <1>2
  <1>5. \A j, k \in 1 .. Len(list) - 1 : (to(j) = to(k) => j = k) /\ (j < k => to(j) < to(k))
    BY <1>1
  <1>6. ASSUME NEW j \in DOMAIN list \ {i} PROVE \E k \in 1 .. Len(list) - 1 : j = to(k)
    <2>1. CASE j < i
      BY <1>1, <2>1
    <2>2. CASE ~(j < i)
      <3>1. j - 1 \in 1 .. Len(list) - 1 /\ j = to(j - 1)
        BY <1>1, <2>2
      <3> QED
        BY <3>1
    <2> QED
      BY <2>1, <2>2
  <1> HIDE DEF to, rest
  <1>7. /\ rest \in Seq(S) /\ Len(rest) = Len(list) - 1 /\ DOMAIN rest = 1 .. Len(list) - 1
        /\ \A j \in DOMAIN rest : to(j) \in DOMAIN list /\ to(j) # i /\ rest[j] = list[to(j)]
        /\ \A j, k \in DOMAIN rest : (to(j) = to(k) => j = k) /\ (j < k => to(j) < to(k))
        /\ \A j \in DOMAIN list \ {i} : \E k \in DOMAIN rest : j = to(k)
    BY <1>2, <1>3, <1>4, <1>5, <1>6
  <1> QED
    BY <1>7 DEF to, rest

LEMMA RemovedStay ==
    ASSUME NEW S, NEW list \in Seq(S), NEW i \in DOMAIN list
    PROVE  \A j \in DOMAIN RemoveAt(list, i) :
               \E k \in DOMAIN list \ {i} : RemoveAt(list, i)[j] = list[k]
  <1> DEFINE to(j) == IF j < i THEN j ELSE j + 1
             rest == RemoveAt(list, i)
  <1>1. \A j \in DOMAIN rest : to(j) \in DOMAIN list /\ to(j) # i /\ rest[j] = list[to(j)]
    BY Shift
  <1> HIDE DEF to
  <1> QED
    BY <1>1

\* A row of the ended ones is taken away.
LEMMA LosesRow ==
    ASSUME NEW items, NEW pend, NEW act, NEW comp, NEW run, NEW clean,
           Queue(items, pend, act, comp, run, clean), NEW i \in DOMAIN comp
    PROVE  /\ Queue(items, pend, act, RemoveAt(comp, i), run, clean)
           /\ \A j \in DOMAIN RemoveAt(comp, i) :
                 \E k \in DOMAIN comp \ {i} : RemoveAt(comp, i)[j] = comp[k]
  <1>0. /\ Lists(items, pend, act, comp) /\ OneRow(items, pend, act, comp)
        /\ Ended(items, pend, comp, run) /\ Slots(items, act, run, clean) /\ InOrder(pend, act)
    BY Zenon DEF Queue
  <1> DEFINE to(j) == IF j < i THEN j ELSE j + 1
             rest == RemoveAt(comp, i)
  <1>1. comp \in Seq(DOMAIN items)
    BY <1>0 DEF Lists
  <1>2. /\ rest \in Seq(DOMAIN items)
        /\ \A j \in DOMAIN rest : to(j) \in DOMAIN comp /\ to(j) # i /\ rest[j] = comp[to(j)]
        /\ \A j, k \in DOMAIN rest : to(j) = to(k) => j = k
    BY <1>1, Shift
  <1> HIDE DEF to, rest
  <1>3. Lists(items, pend, act, rest)
    BY <1>0, <1>2 DEF Lists
  <1>4. OneRow(items, pend, act, rest)
    BY <1>0, <1>2 DEF OneRow
  <1>5. Ended(items, pend, rest, run)
    BY <1>0, <1>2 DEF Ended
  <1>6. Queue(items, pend, act, rest, run, clean)
    BY <1>0, <1>3, <1>4, <1>5, Zenon DEF Queue
  <1>7. \A j \in DOMAIN rest : \E k \in DOMAIN comp \ {i} : rest[j] = comp[k]
    BY <1>2
  <1> QED
    BY <1>6, <1>7 DEF rest

LEMMA LosesFirst ==
    ASSUME NEW items, NEW pend, NEW act, NEW comp, NEW run, NEW clean,
           Queue(items, pend, act, comp, run, clean), NEW rows \in SUBSET DOMAIN comp
    PROVE  Queue(items, pend, act, WithoutFirst(comp, rows), run, clean)
  <1>1. rows \in SUBSET Nat
    BY DEF Queue, Lists
  <1>2. CASE WithoutFirst(comp, rows) = comp
    BY <1>2
  <1>3. ASSUME NEW i \in rows, WithoutFirst(comp, rows) = RemoveAt(comp, i)
        PROVE  Queue(items, pend, act, WithoutFirst(comp, rows), run, clean)
    BY <1>3, LosesRow
  <1> QED
    BY <1>1, <1>2, <1>3, WithoutFirstIsRemoveAt

\* What an entry of the map is.
LEMMA Working ==
    ASSUME Queue(item, pending, active, completed, running, cleaning),
           NEW id \in running \cup cleaning
    PROVE  /\ id \in DOMAIN item /\ id \in Nat /\ id # None
           /\ SlugOf(id) \in Slugs /\ active[SlugOf(id)] = id
           /\ \A i \in DOMAIN pending : SlugOf(pending[i]) # SlugOf(id)
           /\ \A i \in DOMAIN completed : SlugOf(completed[i]) # SlugOf(id)
           /\ \A s \in Slugs : active[s] = id => s = SlugOf(id)
  <1>0. /\ Lists(item, pending, active, completed) /\ OneRow(item, pending, active, completed)
        /\ Slots(item, active, running, cleaning)
    BY Zenon DEF Queue
  <1>1. id \in DOMAIN item /\ active[SlugOf(id)] = id
    BY <1>0 DEF Slots, SlugOf
  <1>2. id \in Nat /\ id # None /\ item[id] \in Item
    BY <1>0, <1>1 DEF Lists, Items, None
  <1>3. SlugOf(id) \in Slugs
    BY <1>2 DEF Item, SlugOf
  <1> QED
    BY <1>0, <1>1, <1>2, <1>3 DEF OneRow, SlugOf

\* A slot is freed.
LEMMA FreedSlots ==
    ASSUME Queue(item, pending, active, completed, running, cleaning),
           NEW id \in running \cup cleaning
    PROVE  /\ Freed(id) \in [Slugs -> {None} \cup DOMAIN item]
           /\ \A s \in Slugs : Freed(id)[s] = IF s = SlugOf(id) THEN None ELSE active[s]
           /\ IsFiniteSet(ActiveSlugs(Freed(id))) /\ Cardinality(ActiveSlugs(active)) \in Nat
           /\ Cardinality(ActiveSlugs(Freed(id))) = Cardinality(ActiveSlugs(active)) - 1
           /\ Cardinality(ActiveSlugs(Freed(id))) \in Nat
  <1>0. /\ Lists(item, pending, active, completed) /\ Slots(item, active, running, cleaning)
    BY Zenon DEF Queue
  <1>1. /\ Freed(id) \in [Slugs -> {None} \cup DOMAIN item]
        /\ \A s \in Slugs : Freed(id)[s] = IF s = SlugOf(id) THEN None ELSE active[s]
    BY <1>0 DEF Lists, Freed
  <1>2. ActiveSlugs(Freed(id)) = ActiveSlugs(active) \ {SlugOf(id)} /\ SlugOf(id) \in ActiveSlugs(active)
    BY <1>1, Working DEF ActiveSlugs
  <1>3. IsFiniteSet(ActiveSlugs(active)) /\ Cardinality(ActiveSlugs(active)) \in Nat
    BY <1>0, FS_CardinalityType DEF Slots
  <1>4. /\ IsFiniteSet(ActiveSlugs(Freed(id)))
        /\ Cardinality(ActiveSlugs(Freed(id))) = Cardinality(ActiveSlugs(active)) - 1
    BY <1>2, <1>3, FS_RemoveElement
  <1>5. Cardinality(ActiveSlugs(Freed(id))) \in Nat
    BY <1>4, FS_CardinalityType
  <1> QED
    BY <1>1, <1>3, <1>4, <1>5

\* One item is given another status; all keep their slugs.
Rewrites(items, id) ==
    /\ items \in Items /\ Len(items) = Len(item) /\ DOMAIN items = DOMAIN item
    /\ \A j \in DOMAIN item : items[j].slug = SlugOf(j) /\ (j # id => items[j] = item[j])

LEMMA WithRewrites ==
    ASSUME item \in Items, NEW id \in DOMAIN item, NEW status \in Statuses
    PROVE  /\ Rewrites(With(id, status), id) /\ With(id, status)[id].status = status
           /\ With(id, status)[id].retries = item[id].retries
  <1>1. \A j \in DOMAIN item : item[j] \in Item
    BY DEF Items
  <1>2. /\ DOMAIN With(id, status) = DOMAIN item
        /\ \A j \in DOMAIN item : j # id => With(id, status)[j] = item[j]
        /\ With(id, status)[id] = [item[id] EXCEPT !.status = status]
    BY DEF With, Items
  <1>3. /\ [item[id] EXCEPT !.status = status] \in Item
        /\ [item[id] EXCEPT !.status = status].slug = item[id].slug
        /\ [item[id] EXCEPT !.status = status].status = status
        /\ [item[id] EXCEPT !.status = status].retries = item[id].retries
    BY <1>1 DEF Item
  <1>4. With(id, status) \in Items /\ Len(With(id, status)) = Len(item)
    BY <1>1, <1>2, <1>3 DEF With, Items
  <1> QED
    BY <1>2, <1>3, <1>4 DEF Rewrites, SlugOf

Retried(id, status) == [item EXCEPT ![id].status = status, ![id].retries = @ + 1]

LEMMA RetriedRewrites ==
    ASSUME item \in Items, NEW id \in DOMAIN item, NEW status \in Statuses,
           item[id].retries < MaxRetries
    PROVE  /\ Rewrites(Retried(id, status), id) /\ Retried(id, status)[id].status = status
           /\ Retried(id, status)[id].retries = item[id].retries + 1
  <1> DEFINE new == [item[id] EXCEPT !.status = status, !.retries = @ + 1]
  <1>1. \A j \in DOMAIN item : item[j] \in Item
    BY DEF Items
  <1>2. item[id].retries \in Nat /\ item[id].retries + 1 \in 0 .. MaxRetries
    BY <1>1, Bounds DEF Item
  <1>3. /\ new \in Item /\ new.slug = item[id].slug
        /\ new.status = status /\ new.retries = item[id].retries + 1
    BY <1>1, <1>2 DEF Item
  <1>4. DOMAIN item = 1 .. Len(item) /\ Len(item) \in Nat
    BY DEF Items
  <1>5. /\ DOMAIN Retried(id, status) = DOMAIN item
        /\ \A j \in DOMAIN item : j # id => Retried(id, status)[j] = item[j]
        /\ Retried(id, status)[id] = new
    BY <1>4 DEF Retried
  <1> HIDE DEF new
  <1>6. \A j \in 1 .. Len(item) : Retried(id, status)[j] \in Item
    BY <1>1, <1>3, <1>4, <1>5
  <1>7. Retried(id, status) = [j \in 1 .. Len(item) |-> Retried(id, status)[j]]
    BY <1>4 DEF Retried
  <1>8. Retried(id, status) \in Items /\ Len(Retried(id, status)) = Len(item)
    BY <1>4, <1>6, <1>7 DEF Items
  <1> QED
    BY <1>3, <1>5, <1>8 DEF Rewrites, SlugOf

\* An item that is worked on ends: its slot is freed and it joins the ended ones.
LEMMA EndsQueue ==
    ASSUME Queue(item, pending, active, completed, running, cleaning),
           NEW id \in running \cup cleaning, NEW items, Rewrites(items, id),
           items[id].status \in {"done", "failed"}
    PROVE  Queue(items, pending, Freed(id), Append(completed, id), running \ {id},
                 cleaning \ {id})
  <1>0. /\ Lists(item, pending, active, completed) /\ OneRow(item, pending, active, completed)
        /\ Ended(item, pending, completed, running) /\ Slots(item, active, running, cleaning)
        /\ InOrder(pending, active)
    BY Zenon DEF Queue
  <1> DEFINE comp == Append(completed, id)
             act == Freed(id)
  <1>1. /\ id \in DOMAIN item /\ id # None /\ SlugOf(id) \in Slugs /\ active[SlugOf(id)] = id
        /\ \A i \in DOMAIN pending : SlugOf(pending[i]) # SlugOf(id)
        /\ \A i \in DOMAIN completed : SlugOf(completed[i]) # SlugOf(id)
    BY Working
  <1>2. /\ act \in [Slugs -> {None} \cup DOMAIN item]
        /\ \A s \in Slugs : act[s] = IF s = SlugOf(id) THEN None ELSE active[s]
        /\ IsFiniteSet(ActiveSlugs(act)) /\ Cardinality(ActiveSlugs(act)) \in Nat
        /\ Cardinality(ActiveSlugs(act)) = Cardinality(ActiveSlugs(active)) - 1
        /\ Cardinality(ActiveSlugs(active)) \in Nat
    BY FreedSlots
  <1>3. /\ items \in Items /\ Len(items) = Len(item) /\ DOMAIN items = DOMAIN item
        /\ \A j \in DOMAIN item : items[j].slug = SlugOf(j)
        /\ \A j \in DOMAIN item : j # id => items[j] = item[j]
    BY DEF Rewrites
  <1>4. /\ comp \in Seq(DOMAIN item)
        /\ \A j \in DOMAIN comp : \/ j \in DOMAIN completed /\ comp[j] = completed[j]
                                  \/ j = Len(completed) + 1 /\ comp[j] = id
        /\ \A j \in DOMAIN completed : j # Len(completed) + 1
    BY <1>0, <1>1 DEF Lists
  <1> HIDE DEF comp, act
  <1>5. \A i \in DOMAIN pending : pending[i] \in DOMAIN item
    BY <1>0 DEF Lists
  <1>6. \A i \in DOMAIN completed : completed[i] \in DOMAIN item
    BY <1>0 DEF Lists
  <1>7. Lists(items, pending, act, comp)
    BY <1>0, <1>2, <1>3, <1>4 DEF Lists
  <1>8. OneRow(items, pending, act, comp)
    <2>1. ASSUME NEW s \in Slugs, act[s] # None PROVE items[act[s]].slug = s
      <3>1. act[s] = active[s] /\ active[s] \in DOMAIN item
        BY <1>0, <1>2, <2>1 DEF Lists
      <3> QED
        BY <1>0, <1>3, <2>1, <3>1 DEF OneRow, SlugOf
    <2>2. \A i \in DOMAIN pending : active[SlugOf(pending[i])] = None /\ SlugOf(pending[i]) \in Slugs
      <3>1. \A j \in DOMAIN item : item[j] \in Item
        BY <1>0 DEF Lists, Items
      <3>2. \A j \in DOMAIN item : SlugOf(j) \in Slugs
        BY <3>1 DEF Item, SlugOf
      <3> QED
        BY <1>0, <1>5, <3>2 DEF OneRow, SlugOf
    <2>3. \A i \in DOMAIN completed : active[SlugOf(completed[i])] = None /\ SlugOf(completed[i]) \in Slugs
      <3>1. \A j \in DOMAIN item : item[j] \in Item
        BY <1>0 DEF Lists, Items
      <3>2. \A j \in DOMAIN item : SlugOf(j) \in Slugs
        BY <3>1 DEF Item, SlugOf
      <3> QED
        BY <1>0, <1>6, <3>2 DEF OneRow, SlugOf
    <2>4. \A i \in DOMAIN pending : act[items[pending[i]].slug] = None
      BY <1>2, <1>3, <1>5, <2>2
    <2>5. ASSUME NEW i \in DOMAIN comp PROVE act[items[comp[i]].slug] = None
      <3>1. CASE comp[i] = id
        BY <1>1, <1>2, <1>3, <3>1
      <3>2. CASE i \in DOMAIN completed /\ comp[i] = completed[i]
        BY <1>2, <1>3, <1>6, <2>3, <3>2
      <3> QED
        BY <1>4, <3>1, <3>2
    <2>6. \A i, j \in DOMAIN pending : items[pending[i]].slug = items[pending[j]].slug => i = j
      BY <1>0, <1>3, <1>5 DEF OneRow, SlugOf
    <2>7. ASSUME NEW i \in DOMAIN comp, NEW j \in DOMAIN comp,
                 items[comp[i]].slug = items[comp[j]].slug
          PROVE  i = j
      <3>1. \A k, l \in DOMAIN completed : SlugOf(completed[k]) = SlugOf(completed[l]) => k = l
        BY <1>0 DEF OneRow, SlugOf
      <3>2. /\ \A k \in DOMAIN completed : items[completed[k]].slug = SlugOf(completed[k])
            /\ items[id].slug = SlugOf(id)
        BY <1>1, <1>3, <1>6
      <3> QED
        BY <1>1, <1>4, <2>7, <3>1, <3>2
    <2>8. \A i \in DOMAIN pending, j \in DOMAIN comp : items[pending[i]].slug # items[comp[j]].slug
      <3>1. \A i \in DOMAIN pending, j \in DOMAIN completed : SlugOf(pending[i]) # SlugOf(completed[j])
        BY <1>0 DEF OneRow, SlugOf
      <3>2. \A i \in DOMAIN pending : items[pending[i]].slug = SlugOf(pending[i])
        BY <1>3, <1>5
      <3>3. items[id].slug = SlugOf(id) /\ \A i \in DOMAIN pending : SlugOf(pending[i]) # SlugOf(id)
        BY <1>1, <1>3
      <3>4. \A j \in DOMAIN completed : items[completed[j]].slug = SlugOf(completed[j])
        BY <1>3, <1>6
      <3>5. ASSUME NEW i \in DOMAIN pending, NEW j \in DOMAIN comp
            PROVE  items[pending[i]].slug # items[comp[j]].slug
        <4>1. CASE comp[j] = id
          BY <3>2, <3>3, <4>1
        <4>2. CASE j \in DOMAIN completed /\ comp[j] = completed[j]
          BY <3>1, <3>2, <3>4, <4>2
        <4> QED
          BY <1>4, <4>1, <4>2
      <3> QED
        BY <3>5
    <2> QED
      BY <2>1, <2>4, <2>5, <2>6, <2>7, <2>8 DEF OneRow
  <1>9. Ended(items, pending, comp, running \ {id})
    <2>1. \A j \in DOMAIN comp : items[comp[j]].status \in {"done", "failed"}
      BY <1>0, <1>1, <1>3, <1>4, <1>6 DEF Ended
    <2>2. \A i \in DOMAIN pending : items[pending[i]].retries < MaxRetries
      BY <1>0, <1>1, <1>3, <1>5 DEF Ended
    <2>3. \A j \in running \ {id} : items[j].retries < MaxRetries
      BY <1>0, <1>3 DEF Ended, Slots
    <2> QED
      BY <2>1, <2>2, <2>3 DEF Ended
  <1>10. Slots(items, act, running \ {id}, cleaning \ {id})
    <2>1. Cardinality(ActiveSlugs(act)) <= MaxConcurrency
      BY <1>0, <1>2, Bounds DEF Slots
    <2>2. ASSUME NEW j \in (running \cup cleaning) \ {id} PROVE act[items[j].slug] = j
      <3>1. j \in DOMAIN item /\ SlugOf(j) \in Slugs /\ active[SlugOf(j)] = j
        BY Working
      <3> QED
        BY <1>1, <1>2, <1>3, <3>1
    <2> QED
      BY <1>0, <1>2, <1>3, <2>1, <2>2 DEF Slots
  <1>11. InOrder(pending, act)
    <2>1. PICK k \in 0 .. Len(pending) :
              /\ k + Cardinality(ActiveSlugs(active)) <= MaxConcurrency
              /\ \A j \in k + 1 .. Len(pending) : /\ \A i \in 1 .. j - 1 : pending[i] < pending[j]
                                                  /\ \A s \in Slugs : active[s] < pending[j]
      BY <1>0 DEF InOrder
    <2>2. k + Cardinality(ActiveSlugs(act)) <= MaxConcurrency
      BY <1>2, <2>1, Bounds
    <2>3. ASSUME NEW j \in k + 1 .. Len(pending), NEW s \in Slugs PROVE act[s] < pending[j]
      <3>1. pending[j] \in Nat \ {0}
        BY <1>0, <2>1 DEF Lists, Items
      <3> QED
        BY <1>2, <2>1, <3>1 DEF None
    <2> QED
      BY <2>1, <2>2, <2>3 DEF InOrder
  <1> QED
    BY <1>7, <1>8, <1>9, <1>10, <1>11 DEF Queue, comp, act

(***************************************************************************)
(* The steps.  Each keeps the invariant and lets no item overtake another. *)
(***************************************************************************)

Orderly == \A id \in running' \ running : \A i \in DOMAIN pending' : id < pending'[i]

LEMMA Parts == IInv => /\ Queue(item, pending, active, completed, running, cleaning)
                       /\ Lists(item, pending, active, completed)
                       /\ OneRow(item, pending, active, completed)
                       /\ Ended(item, pending, completed, running)
                       /\ Slots(item, active, running, cleaning) /\ InOrder(pending, active)
                       /\ Sets /\ Marked /\ RecordedIsOver /\ CancelledIsNotRecorded
  BY Zenon DEF IInv, Queue

LEMMA Ids0 == Lists(item, pending, active, completed) => \A id \in DOMAIN item : id \in Nat /\ id # None
  BY DEF Lists, Items, None

\* A method that has changed the lists and ends in drain().
LEMMA DrainedKeeps ==
    ASSUME IInv, NEW items, NEW pend, NEW act, NEW run, NEW had,
           Drain(items, pend, act, run, had), Queue(items, pend, act, completed', run, cleaning'),
           DOMAIN item \subseteq DOMAIN items,
           \A j \in DOMAIN item : items[j].slug = SlugOf(j),
           \A i \in DOMAIN pend : IsPending(pend[i]) \/ pend[i] \notin DOMAIN item,
           \A s \in Slugs : act[s] \in {None, active[s]},
           run \subseteq running, cancelled' = cancelled, dropped' = dropped,
           uninstalled' = uninstalled, disposed' = disposed, pause' \in {"off", "on", "over"},
           timers' \subseteq DOMAIN item,
           \A id \in recorded' \ recorded :
               /\ id \in DOMAIN item /\ id \notin dropped /\ \A s \in Slugs : act[s] # id
               /\ \A i \in DOMAIN pend : pend[i] # id
    PROVE  IInv' /\ Orderly
  <1>0. /\ Lists(item, pending, active, completed)
        /\ Sets /\ Marked /\ RecordedIsOver /\ CancelledIsNotRecorded
    BY Parts
  <1>1. /\ Queue(item', pending', active', completed', running', cleaning')
        /\ Follows(items, pend, act, run)
    BY DrainKeeps
  <1>2. /\ DOMAIN item \subseteq DOMAIN item' /\ \A j \in DOMAIN item : item'[j].slug = SlugOf(j)
        /\ \A j \in DOMAIN pending' : \E i \in DOMAIN pend : pending'[j] = pend[i]
        /\ \A s \in Slugs : active'[s] = act[s] \/ \E i \in DOMAIN pend : active'[s] = pend[i]
        /\ \A id \in running' : id \in run \/ \E i \in DOMAIN pend : id = pend[i]
        /\ \A id \in running' \ run : \A j \in DOMAIN pending' : id < pending'[j]
    BY <1>1 DEF Follows
  <1>3. Sets'
    <2>1. hadCompletionSinceIdle' \in BOOLEAN
      BY Zenon DEF Drain
    <2> QED
      BY <1>0, <1>2, <2>1 DEF Sets
  <1>4. Marked'
    <2> SUFFICES ASSUME NEW id \in dropped,
    id \in running' \/ \E j \in DOMAIN pending' : pending'[j] = id
                 PROVE  item'[id].slug \in cancelled
      BY Zenon DEF Marked, IsPending, SlugOf
    <2>1. id \in DOMAIN item
      BY <1>0 DEF Sets
    <2>2. id \in running \/ IsPending(id)
      BY <1>2, <2>1
    <2> QED
      BY <1>0, <1>2, <2>1, <2>2 DEF Marked
  <1>5. RecordedIsOver' /\ CancelledIsNotRecorded'
    <2>1. ASSUME NEW id \in recorded'
          PROVE  /\ id \notin dropped /\ \A s \in Slugs : act[s] # id
                 /\ \A i \in DOMAIN pend : pend[i] # id
      <3>1. CASE id \in recorded
        <4>1. id \in DOMAIN item /\ id # None /\ id \notin dropped
          BY <1>0, <3>1, Ids0 DEF Sets, CancelledIsNotRecorded
        <4> QED
          BY <1>0, <3>1, <4>1 DEF RecordedIsOver
      <3>2. CASE id \notin recorded
        BY <3>2
      <3> QED
        BY <3>1, <3>2
    <2>2. \A s \in Slugs : active'[s] \notin recorded'
      BY <1>2, <2>1
    <2>3. \A id \in recorded' : \A j \in DOMAIN pending' : pending'[j] # id
      BY <1>2, <2>1
    <2> QED
      BY <2>1, <2>2, <2>3 DEF RecordedIsOver, IsPending, CancelledIsNotRecorded
  <1>6. Orderly
    BY <1>2 DEF Orderly
  <1> QED
    BY <1>1, <1>3, <1>4, <1>5, <1>6 DEF IInv

\* The executor or a clean-up settles and the item ends for good.
LEMMA EndsKeeps ==
    ASSUME IInv, NEW id \in running \cup cleaning, NEW items, NEW had,
           Rewrites(items, id), items[id].status \in {"done", "failed"},
           Drain(items, pending, Freed(id), running \ {id}, had),
           cleaning' = cleaning \ {id}, completed' = Append(completed, id),
           cancelled' = cancelled, dropped' = dropped, uninstalled' = uninstalled,
           disposed' = disposed, pause' = pause, timers' \in {timers, timers \cup {id}},
           recorded' = recorded \/ (id \notin dropped /\ recorded' = recorded \cup {id})
    PROVE  IInv' /\ Orderly
  <1>0. Queue(item, pending, active, completed, running, cleaning) /\ Sets
    BY Parts
  <1>1. Queue(items, pending, Freed(id), completed', running \ {id}, cleaning')
    BY <1>0, EndsQueue
  <1>2. DOMAIN items = DOMAIN item /\ \A j \in DOMAIN item : items[j].slug = SlugOf(j)
    BY DEF Rewrites
  <1>3. id \in DOMAIN item /\ id # None /\ \A i \in DOMAIN pending : pending[i] # id
    BY <1>0, Working
  <1>4. \A s \in Slugs : Freed(id)[s] \in {None, active[s]} /\ Freed(id)[s] # id
    BY <1>0, <1>3, FreedSlots, Working
  <1>5. recorded' \subseteq DOMAIN item /\ timers' \subseteq DOMAIN item /\ pause' \in {"off", "on", "over"}
    BY <1>0, <1>3 DEF Sets
  <1>6. \A i \in DOMAIN pending : IsPending(pending[i])
    BY DEF IsPending
  <1>7. \A x \in recorded' \ recorded :
            /\ x \in DOMAIN item /\ x \notin dropped /\ \A s \in Slugs : Freed(id)[s] # x
            /\ \A i \in DOMAIN pending : pending[i] # x
    BY <1>3, <1>4
  <1>8. /\ DOMAIN item \subseteq DOMAIN items /\ running \ {id} \subseteq running
        /\ \A s \in Slugs : Freed(id)[s] \in {None, active[s]}
        /\ \A i \in DOMAIN pending : IsPending(pending[i]) \/ pending[i] \notin DOMAIN item
    BY <1>2, <1>4, <1>6
  <1> QED
    BY <1>1, <1>2, <1>5, <1>7, <1>8, DrainedKeeps

LEMMA SucceedsKeeps == ASSUME IInv, NEW id, Succeeds(id) PROVE IInv' /\ Orderly
  <1>0. /\ item \in Items /\ id \in DOMAIN item /\ id \in running /\ id \notin cleaning
        /\ id \notin dropped
    BY Parts, Working DEF Lists, Slots, Marked, Succeeds
  <1>1. Rewrites(With(id, "done"), id) /\ With(id, "done")[id].status = "done"
    BY <1>0, WithRewrites DEF Statuses
  <1>2. cleaning' = cleaning \ {id}
    BY <1>0 DEF Succeeds
  <1>3. /\ Drain(With(id, "done"), pending, Freed(id), running \ {id}, TRUE)
        /\ completed' = Append(completed, id) /\ timers' = timers \cup {id}
        /\ recorded' = recorded \cup {id} /\ cancelled' = cancelled /\ dropped' = dropped
        /\ uninstalled' = uninstalled /\ disposed' = disposed /\ pause' = pause
    BY Zenon DEF Succeeds
  <1> QED
    BY <1>0, <1>1, <1>2, <1>3, EndsKeeps

LEMMA CleanedKeeps == ASSUME IInv, NEW id, Cleaned(id) PROVE IInv' /\ Orderly
  <1>0. item \in Items /\ id \in DOMAIN item /\ id \in cleaning /\ running = running \ {id}
    BY Parts, Working DEF Lists, Slots, Cleaned
  <1>1. Rewrites(With(id, "failed"), id) /\ With(id, "failed")[id].status = "failed"
    BY <1>0, WithRewrites DEF Statuses
  <1>2. /\ Drain(With(id, "failed"), pending, Freed(id), running, hadCompletionSinceIdle)
        /\ completed' = Append(completed, id) /\ timers' = timers \cup {id}
        /\ recorded' = recorded /\ cancelled' = cancelled /\ dropped' = dropped
        /\ uninstalled' = uninstalled /\ disposed' = disposed /\ pause' = pause
        /\ cleaning' = cleaning \ {id}
    BY Zenon DEF Cleaned, history
  <1>3. Drain(With(id, "failed"), pending, Freed(id), running \ {id}, hadCompletionSinceIdle)
    BY <1>0, <1>2
  <1>4. /\ id \in running \cup cleaning /\ timers' \in {timers, timers \cup {id}}
        /\ With(id, "failed")[id].status \in {"done", "failed"}
    BY <1>0, <1>1, <1>2
  <1> QED
    BY <1>1, <1>2, <1>3, <1>4, EndsKeeps

LEMMA FailsKeeps == ASSUME IInv, NEW id, Fails(id) PROVE IInv' /\ Orderly
  <1>0. /\ item \in Items /\ id \in DOMAIN item /\ id \in running /\ id \notin cleaning
        /\ item[id].retries < MaxRetries
    BY Parts, Working DEF Lists, Slots, Ended, Fails
  <1>1. /\ Rewrites(With(id, "failed"), id) /\ With(id, "failed")[id].status = "failed"
        /\ Rewrites(Retried(id, "failed"), id) /\ Retried(id, "failed")[id].status = "failed"
    BY <1>0, WithRewrites, RetriedRewrites DEF Statuses
  <1>2. /\ completed' = Append(completed, id) /\ timers' = timers
        /\ recorded' = recorded /\ cancelled' = cancelled /\ dropped' = dropped
        /\ uninstalled' = uninstalled /\ disposed' = disposed /\ pause' = pause
        /\ cleaning' = cleaning
    BY Zenon DEF Fails, history
  <1>3. \/ Drain(With(id, "failed"), pending, Freed(id), running \ {id}, hadCompletionSinceIdle)
        \/ Drain(Retried(id, "failed"), pending, Freed(id), running \ {id},
                 hadCompletionSinceIdle)
    BY Zenon DEF Fails, Retried
  <1>4. /\ cleaning' = cleaning \ {id} /\ id \in running \cup cleaning
        /\ timers' \in {timers, timers \cup {id}}
        /\ With(id, "failed")[id].status \in {"done", "failed"}
        /\ Retried(id, "failed")[id].status \in {"done", "failed"}
    BY <1>0, <1>1, <1>2
  <1>5. CASE Drain(With(id, "failed"), pending, Freed(id), running \ {id}, hadCompletionSinceIdle)
    BY <1>1, <1>2, <1>4, <1>5, EndsKeeps
  <1>6. CASE Drain(Retried(id, "failed"), pending, Freed(id), running \ {id}, hadCompletionSinceIdle)
    BY <1>1, <1>2, <1>4, <1>6, EndsKeeps
  <1> QED
    BY <1>3, <1>5, <1>6

LEMMA PauseTimerKeeps == ASSUME IInv, PauseTimer PROVE IInv' /\ Orderly
  <1>0. Queue(item, pending, active, completed, running, cleaning) /\ Sets
    BY Parts
  <1>1. /\ Drain(item, pending, active, running, hadCompletionSinceIdle)
        /\ completed' = completed /\ cleaning' = cleaning /\ timers' = timers
        /\ recorded' = recorded /\ cancelled' = cancelled /\ dropped' = dropped
        /\ uninstalled' = uninstalled /\ disposed' = disposed /\ pause' = "off"
    BY Zenon DEF PauseTimer, history
  <1>2. /\ \A j \in DOMAIN item : item[j].slug = SlugOf(j)
        /\ \A i \in DOMAIN pending : IsPending(pending[i])
        /\ timers' \subseteq DOMAIN item /\ \A s \in Slugs : active[s] \in {None, active[s]}
        /\ pause' \in {"off", "on", "over"}
    BY <1>0, <1>1 DEF SlugOf, IsPending, Sets
  <1>3. Queue(item, pending, active, completed', running, cleaning')
    BY <1>0, <1>1
  <1> QED
    BY <1>1, <1>2, <1>3, DrainedKeeps

\* No row of the ended ones is left of a slug that is enqueued.
LEMMA EnqueueClears ==
    ASSUME IInv, NEW s \in Slugs, RowsOf(completed, s, {"done"}) = {},
           NEW comp, comp = WithoutFirst(completed, RowsOf(completed, s, {"failed"}))
    PROVE  /\ Queue(item, pending, active, comp, running, cleaning)
           /\ \A j \in DOMAIN comp : SlugOf(comp[j]) # s
  <1>0. /\ Queue(item, pending, active, completed, running, cleaning)
        /\ Lists(item, pending, active, completed)
        /\ OneRow(item, pending, active, completed) /\ Ended(item, pending, completed, running)
    BY Parts
  <1> DEFINE rows == RowsOf(completed, s, {"failed"})
  <1>1. rows \in SUBSET DOMAIN completed /\ rows \in SUBSET Nat
    BY <1>0 DEF RowsOf, Lists
  <1>2. Queue(item, pending, active, comp, running, cleaning)
    BY <1>0, <1>1, LosesFirst
  <1>3. \A j \in DOMAIN completed : SlugOf(completed[j]) = s => j \in rows
    BY <1>0 DEF Ended, RowsOf
  <1> HIDE DEF rows
  <1>4. \A i, j \in DOMAIN completed : SlugOf(completed[i]) = SlugOf(completed[j]) => i = j
    BY <1>0 DEF OneRow, SlugOf
  <1>5. CASE rows = {} /\ comp = completed
    BY <1>2, <1>3, <1>5
  <1>6. ASSUME NEW i \in rows, comp = RemoveAt(completed, i)
        PROVE  \A j \in DOMAIN comp : SlugOf(comp[j]) # s
    <2>1. SlugOf(completed[i]) = s
      BY DEF rows, RowsOf
    <2>2. \A j \in DOMAIN comp : \E k \in DOMAIN completed \ {i} : comp[j] = completed[k]
      BY <1>0, <1>1, <1>6, LosesRow
    <2> QED
      BY <1>1, <1>4, <2>1, <2>2
  <1> QED
    BY <1>1, <1>2, <1>5, <1>6, WithoutFirstIsRemoveAt DEF rows

\* The queue enqueue() hands to drain().
LEMMA EnqueueQueues ==
    ASSUME IInv, NEW s \in Slugs, Enqueue(s)
    PROVE  \E items, pend :
              /\ Queue(items, pend, active, completed', running, cleaning')
              /\ Drain(items, pend, active, running, hadCompletionSinceIdle)
              /\ DOMAIN item \subseteq DOMAIN items /\ \A j \in DOMAIN item : items[j].slug = SlugOf(j)
              /\ \A i \in DOMAIN pend : \/ IsPending(pend[i])
                                        \/ pend[i] \notin DOMAIN item /\ items[pend[i]].slug = s
  <1> DEFINE new == [slug |-> s, status |-> "queued", retries |-> 0]
             last == Len(item) + 1
             items == Append(item, new)
             pend == Append(pending, last)
             comp == completed'
  <1>0. /\ ~InFlight(s) /\ Len(item) < MaxItems
        /\ Drain(items, pend, active, running, hadCompletionSinceIdle)
        /\ comp = WithoutFirst(completed, RowsOf(completed, s, {"failed"}))
        /\ RowsOf(completed, s, {"done"}) = {}
        /\ UNCHANGED <<cancelled, cleaning, pause, timers, disposed, recorded, uninstalled,
                       dropped>>
    BY Zenon DEF Enqueue, history
  <1>1. /\ Queue(item, pending, active, comp, running, cleaning)
        /\ \A j \in DOMAIN comp : SlugOf(comp[j]) # s
    BY <1>0, EnqueueClears
  <1>2. /\ Lists(item, pending, active, comp) /\ OneRow(item, pending, active, comp)
        /\ Ended(item, pending, comp, running) /\ Slots(item, active, running, cleaning)
        /\ InOrder(pending, active)
    BY <1>1, Zenon DEF Queue
  <1>3. /\ item \in Items /\ DOMAIN item = 1 .. Len(item) /\ Len(item) \in Nat
        /\ last \in Nat /\ last \notin DOMAIN item /\ last # None
        /\ \A id \in DOMAIN item : id \in Nat /\ id # None /\ id < last
    BY <1>2 DEF Lists, Items, None
  <1>4. new \in Item /\ new.slug = s /\ new.retries = 0
    BY Bounds DEF Item, Statuses
  <1> HIDE DEF new
  <1>5. /\ items \in Items /\ Len(items) = last /\ DOMAIN items = DOMAIN item \cup {last}
        /\ \A id \in DOMAIN item : items[id] = item[id]
        /\ items[last] = new
    BY <1>3, <1>4 DEF Items
  <1>6. /\ pending \in Seq(DOMAIN item) /\ comp \in Seq(DOMAIN item)
        /\ \A i \in DOMAIN pending : pending[i] \in DOMAIN item
        /\ \A i \in DOMAIN comp : comp[i] \in DOMAIN item
    BY <1>2 DEF Lists
  <1>7. /\ pend \in Seq(DOMAIN items) /\ Len(pend) = Len(pending) + 1 /\ Len(pending) \in Nat
        /\ \A j \in DOMAIN pending : j \in DOMAIN pend /\ pend[j] = pending[j] /\ j # Len(pending) + 1
        /\ \A j \in DOMAIN pend : j \in DOMAIN pending \/ j = Len(pending) + 1
        /\ pend[Len(pending) + 1] = last
    BY <1>5, <1>6
  <1>8. comp \in Seq(DOMAIN items)
    BY <1>5, <1>6
  <1> HIDE DEF last, items, pend, comp
  <1>9. \A i \in DOMAIN pending : items[pending[i]] = item[pending[i]]
    BY <1>5, <1>6
  <1>10. \A i \in DOMAIN comp : items[comp[i]] = item[comp[i]]
    BY <1>5, <1>6
  <1>11. active[s] = None /\ \A i \in DOMAIN pending : SlugOf(pending[i]) # s
    BY <1>0 DEF InFlight
  <1>12. Lists(items, pend, active, comp)
    BY <1>0, <1>2, <1>3, <1>5, <1>7, <1>8, Bounds DEF Lists, last
  <1>13. OneRow(items, pend, active, comp)
    <2>1. \A t \in Slugs : active[t] # None => items[active[t]].slug = t
      BY <1>2, <1>5 DEF OneRow, Lists
    <2>2. ASSUME NEW i \in DOMAIN pend PROVE active[items[pend[i]].slug] = None
      BY <1>2, <1>4, <1>5, <1>7, <1>9, <1>11 DEF OneRow
    <2>3. \A j \in DOMAIN comp : active[items[comp[j]].slug] = None
      BY <1>2, <1>10 DEF OneRow
    <2>4. ASSUME NEW i \in DOMAIN pend, NEW j \in DOMAIN pend,
                 items[pend[i]].slug = items[pend[j]].slug
          PROVE  i = j
      BY <1>2, <1>4, <1>5, <1>7, <1>9, <1>11, <2>4 DEF OneRow, SlugOf
    <2>5. \A i, j \in DOMAIN comp : items[comp[i]].slug = items[comp[j]].slug => i = j
      BY <1>2, <1>10 DEF OneRow
    <2>6. ASSUME NEW i \in DOMAIN pend, NEW j \in DOMAIN comp
          PROVE  items[pend[i]].slug # items[comp[j]].slug
      BY <1>1, <1>2, <1>4, <1>5, <1>7, <1>9, <1>10 DEF OneRow, SlugOf
    <2> QED
      BY <2>1, <2>2, <2>3, <2>4, <2>5, <2>6, Zenon DEF OneRow
  <1>14. Ended(items, pend, comp, running)
    <2>1. \A i \in DOMAIN comp : items[comp[i]].status \in {"done", "failed"}
      BY <1>2, <1>10 DEF Ended
    <2>2. \A i \in DOMAIN pend : items[pend[i]].retries < MaxRetries
      <3>1. \A i \in DOMAIN pending : items[pending[i]].retries < MaxRetries
        BY <1>2, <1>9 DEF Ended
      <3>2. items[last].retries < MaxRetries
        BY <1>4, <1>5, Bounds
      <3> QED
        BY <1>7, <3>1, <3>2
    <2>3. \A id \in running : items[id].retries < MaxRetries
      BY <1>2, <1>5 DEF Ended, Slots
    <2> QED
      BY <2>1, <2>2, <2>3 DEF Ended
  <1>15. Slots(items, active, running, cleaning)
    BY <1>2, <1>5 DEF Slots
  <1>16. InOrder(pend, active)
    <2>1. PICK k \in 0 .. Len(pending) :
              /\ k + Cardinality(ActiveSlugs(active)) <= MaxConcurrency
              /\ \A j \in k + 1 .. Len(pending) : /\ \A i \in 1 .. j - 1 : pending[i] < pending[j]
                                                  /\ \A t \in Slugs : active[t] < pending[j]
      BY <1>2 DEF InOrder
    <2>2. ASSUME NEW j \in k + 1 .. Len(pend)
          PROVE  /\ \A i \in 1 .. j - 1 : pend[i] < pend[j]
                 /\ \A t \in Slugs : active[t] < pend[j]
      <3>1. DOMAIN pending = 1 .. Len(pending) /\ j \in Nat
        BY <1>6
      <3>2. CASE j \in 1 .. Len(pending)
        <4>1. j \in k + 1 .. Len(pending) /\ \A i \in 1 .. j - 1 : i \in DOMAIN pending
          BY <3>1, <3>2
        <4>2. pend[j] = pending[j] /\ \A i \in 1 .. j - 1 : pend[i] = pending[i]
          BY <1>7, <3>1, <3>2, <4>1
        <4> QED
          BY <2>1, <4>1, <4>2
      <3>3. CASE j = Len(pending) + 1
        <4>1. pend[j] = last
          BY <1>7, <3>3
        <4>2. \A i \in 1 .. j - 1 : i \in DOMAIN pending
          BY <1>7, <3>1, <3>3
        <4>3. \A i \in 1 .. j - 1 : pend[i] < last
          BY <1>3, <1>6, <1>7, <4>2
        <4>4. \A t \in Slugs : active[t] < last
          <5>1. None < last
            BY <1>3 DEF None
          <5> QED
            BY <1>2, <1>3, <5>1 DEF Lists
        <4> QED
          BY <4>1, <4>3, <4>4
      <3> QED
        BY <1>7, <2>1, <3>1, <3>2, <3>3
    <2>3. k \in 0 .. Len(pend)
      BY <1>7, <2>1
    <2> QED
      BY <2>1, <2>2, <2>3 DEF InOrder
  <1>17. Queue(items, pend, active, completed', running, cleaning')
    BY <1>0, <1>12, <1>13, <1>14, <1>15, <1>16 DEF Queue, comp
  <1>18. /\ DOMAIN item \subseteq DOMAIN items /\ \A j \in DOMAIN item : items[j].slug = SlugOf(j)
         /\ \A i \in DOMAIN pend : \/ IsPending(pend[i])
                                   \/ pend[i] \notin DOMAIN item /\ items[pend[i]].slug = s
    <2>1. ASSUME NEW i \in DOMAIN pend
          PROVE  \/ \E j \in DOMAIN pending : pending[j] = pend[i]
                 \/ pend[i] = last
      BY <1>7
    <2>2. last \notin DOMAIN item /\ items[last].slug = s
      BY <1>3, <1>4, <1>5
    <2>3. DOMAIN item \subseteq DOMAIN items /\ \A j \in DOMAIN item : items[j].slug = SlugOf(j)
      BY <1>5 DEF SlugOf
    <2> QED
      BY <2>1, <2>2, <2>3 DEF IsPending
  <1> QED
    BY <1>0, <1>17, <1>18

LEMMA EnqueueKeeps == ASSUME IInv, NEW s \in Slugs, Enqueue(s) PROVE IInv' /\ Orderly
  <1>1. PICK items, pend :
              /\ Queue(items, pend, active, completed', running, cleaning')
              /\ Drain(items, pend, active, running, hadCompletionSinceIdle)
              /\ DOMAIN item \subseteq DOMAIN items /\ \A j \in DOMAIN item : items[j].slug = SlugOf(j)
              /\ \A i \in DOMAIN pend : \/ IsPending(pend[i])
                                        \/ pend[i] \notin DOMAIN item /\ items[pend[i]].slug = s
    BY EnqueueQueues
  <1>2. UNCHANGED <<cancelled, cleaning, pause, timers, disposed, recorded, uninstalled, dropped>>
    BY Zenon DEF Enqueue, history
  <1>3. pause' \in {"off", "on", "over"} /\ timers' \subseteq DOMAIN item
    BY <1>2, Parts DEF Sets
  <1> QED
    BY <1>1, <1>2, <1>3, DrainedKeeps

\* A step without drain(): nothing starts.
LEMMA QuietKeeps ==
    ASSUME IInv, Queue(item', pending', active', completed', running', cleaning'), Sets', Marked',
           \A s \in Slugs : active'[s] \in {None, active[s]}, running' \subseteq running,
           \A j \in DOMAIN pending' : IsPending(pending'[j]) \/ pending'[j] \in running,
           recorded' = recorded, dropped' \cap recorded = {}
    PROVE  IInv' /\ Orderly
  <1>0. /\ Lists(item, pending, active, completed) /\ RecordedIsOver /\ Sets
        /\ Queue(item, pending, active, completed, running, cleaning)
    BY Parts
  <1>1. \A id \in running : id \notin recorded
    BY <1>0, Working DEF RecordedIsOver
  <1>2. None \notin recorded
    BY <1>0, Ids0 DEF Sets
  <1>3. \A s \in Slugs : active'[s] \notin recorded'
    BY <1>0, <1>2 DEF RecordedIsOver
  <1>4. \A id \in recorded' : \A j \in DOMAIN pending' : pending'[j] # id
    BY <1>0, <1>1 DEF RecordedIsOver
  <1>5. RecordedIsOver' /\ CancelledIsNotRecorded'
    BY <1>3, <1>4 DEF RecordedIsOver, IsPending, CancelledIsNotRecorded
  <1> QED
    BY <1>5 DEF IInv, Orderly

\* Marks stay while nothing is cancelled and no cancelled item is put back.
LEMMA MarksStay ==
    ASSUME IInv, \A j \in DOMAIN item : item'[j].slug = SlugOf(j),
           cancelled' = cancelled, dropped' = dropped, running' \subseteq running,
           \A j \in DOMAIN pending' : IsPending(pending'[j]) \/ pending'[j] \in running
    PROVE  Marked' /\ dropped' \cap recorded = {}
  <1>0. Sets /\ Marked /\ CancelledIsNotRecorded
    BY Parts
  <1>1. ASSUME NEW id \in dropped, id \in running' \/ \E j \in DOMAIN pending' : pending'[j] = id
        PROVE  item'[id].slug \in cancelled
    <2>1. id \in DOMAIN item /\ (id \in running \/ IsPending(id))
      BY <1>0, <1>1 DEF Sets
    <2> QED
      BY <1>0, <2>1 DEF Marked
  <1>2. Marked'
    BY <1>1, Zenon DEF Marked, IsPending, SlugOf
  <1> QED
    BY <1>0, <1>2 DEF CancelledIsNotRecorded

LEMMA CancelPendingKeeps == ASSUME IInv, NEW s \in Slugs, CancelPending(s) PROVE IInv' /\ Orderly
  <1>0. /\ Queue(item, pending, active, completed, running, cleaning) /\ Sets
        /\ Lists(item, pending, active, completed) /\ OneRow(item, pending, active, completed)
        /\ Ended(item, pending, completed, running) /\ Slots(item, active, running, cleaning)
        /\ InOrder(pending, active)
    BY Parts
  <1>1. PICK i \in DOMAIN pending :
            /\ pending' = RemoveAt(pending, i) /\ Settle(pending[i], "failed")
            /\ completed' = Append(completed, pending[i]) /\ timers' = timers \cup {pending[i]}
            /\ UNCHANGED <<active, cancelled, running, cleaning, pause, disposed,
                           hadCompletionSinceIdle, recorded, uninstalled, dropped>>
    BY Zenon DEF CancelPending, history
  <1> DEFINE id == pending[i]
             to(j) == IF j < i THEN j ELSE j + 1
  <1>2. /\ id \in DOMAIN item /\ id \in Nat /\ id # None
        /\ \A j \in DOMAIN pending : pending[j] \in DOMAIN item
        /\ \A j \in DOMAIN completed : completed[j] \in DOMAIN item
        /\ \A j \in DOMAIN item : item[j] \in Item
    BY <1>0 DEF Lists, Items, None
  <1>3. Rewrites(item', id) /\ item'[id].status = "failed"
    <2>1. item' = With(id, "failed") /\ item \in Items
      BY <1>0, <1>1 DEF Settle, With, Lists
    <2> QED
      BY <1>2, <2>1, WithRewrites DEF Statuses
  <1>4. /\ item' \in Items /\ Len(item') = Len(item) /\ DOMAIN item' = DOMAIN item
        /\ \A j \in DOMAIN item : item'[j].slug = item[j].slug /\ (j # id => item'[j] = item[j])
    BY <1>3 DEF Rewrites, SlugOf
  <1>5. /\ pending' \in Seq(DOMAIN item) /\ Len(pending') = Len(pending) - 1
        /\ DOMAIN pending' = 1 .. Len(pending) - 1
        /\ \A j \in DOMAIN pending' : to(j) \in DOMAIN pending /\ to(j) # i /\ pending'[j] = pending[to(j)]
        /\ \A j, k \in DOMAIN pending' : (to(j) = to(k) => j = k) /\ (j < k => to(j) < to(k))
    <2> DEFINE rest == RemoveAt(pending, i)
    <2>1. pending \in Seq(DOMAIN item)
      BY <1>0 DEF Lists
    <2>2. /\ rest \in Seq(DOMAIN item) /\ Len(rest) = Len(pending) - 1
          /\ DOMAIN rest = 1 .. Len(pending) - 1
          /\ \A j \in DOMAIN rest : to(j) \in DOMAIN pending /\ to(j) # i /\ rest[j] = pending[to(j)]
          /\ \A j, k \in DOMAIN rest : (to(j) = to(k) => j = k) /\ (j < k => to(j) < to(k))
      BY <2>1, Shift
    <2>3. pending' = rest
      BY <1>1
    <2> QED
      BY <2>2, <2>3
  <1>6. /\ completed' \in Seq(DOMAIN item)
        /\ \A j \in DOMAIN completed' : \/ j \in DOMAIN completed /\ completed'[j] = completed[j]
                                        \/ j = Len(completed) + 1 /\ completed'[j] = id
        /\ \A j \in DOMAIN completed : j # Len(completed) + 1
    BY <1>0, <1>1, <1>2 DEF Lists
  <1> DEFINE slug(j) == item[pending[j]].slug
             old(j) == item[completed[j]].slug
  <1>7. /\ \A j, k \in DOMAIN pending : slug(j) = slug(k) => j = k
        /\ \A j, k \in DOMAIN completed : old(j) = old(k) => j = k
        /\ \A j \in DOMAIN pending, k \in DOMAIN completed : slug(j) # old(k)
        /\ \A j \in DOMAIN pending : active[slug(j)] = None
        /\ \A j \in DOMAIN completed : active[old(j)] = None
    BY <1>0, Zenon DEF OneRow
  <1>8. /\ \A j \in DOMAIN pending' : item'[pending'[j]].slug = slug(to(j)) /\ pending'[j] # id
        /\ \A j \in DOMAIN pending' : slug(to(j)) # slug(i)
    BY <1>2, <1>4, <1>5, <1>7
  <1>9. \A j \in DOMAIN completed' :
            \/ j \in DOMAIN completed /\ item'[completed'[j]].slug = old(j)
            \/ j = Len(completed) + 1 /\ item'[completed'[j]].slug = slug(i)
    BY <1>2, <1>4, <1>6
  <1> HIDE DEF to, slug, old
  <1>10. Lists(item', pending', active', completed')
    BY <1>0, <1>1, <1>4, <1>5, <1>6 DEF Lists
  <1>11. OneRow(item', pending', active', completed')
    <2>1. ASSUME NEW t \in Slugs, active'[t] # None PROVE item'[active'[t]].slug = t
      <3>1. active[t] \in DOMAIN item /\ active'[t] = active[t]
        BY <1>0, <1>1, <2>1 DEF Lists
      <3> QED
        BY <1>0, <1>4, <2>1, <3>1 DEF OneRow
    <2>2. \A j \in DOMAIN pending' : active'[item'[pending'[j]].slug] = None
      BY <1>1, <1>5, <1>7, <1>8
    <2>3. \A j \in DOMAIN completed' : active'[item'[completed'[j]].slug] = None
      BY <1>1, <1>7, <1>9
    <2>4. \A j,
    k \in DOMAIN pending' : item'[pending'[j]].slug = item'[pending'[k]].slug => j = k
      BY <1>5, <1>7, <1>8
    <2>5. ASSUME NEW j \in DOMAIN completed', NEW k \in DOMAIN completed',
                 item'[completed'[j]].slug = item'[completed'[k]].slug
          PROVE  j = k
      BY <1>6, <1>7, <1>9, <2>5
    <2>6. ASSUME NEW j \in DOMAIN pending', NEW k \in DOMAIN completed'
          PROVE  item'[pending'[j]].slug # item'[completed'[k]].slug
      BY <1>5, <1>7, <1>8, <1>9
    <2> QED
      BY <2>1, <2>2, <2>3, <2>4, <2>5, <2>6, Zenon DEF OneRow
  <1>12. Ended(item', pending', completed', running')
    <2>1. ASSUME NEW j \in DOMAIN completed' PROVE item'[completed'[j]].status \in {"done", "failed"}
      <3>1. CASE completed'[j] = id
        BY <1>3, <3>1
      <3>2. CASE j \in DOMAIN completed /\ completed'[j] = completed[j] /\ completed[j] # id
        BY <1>0, <1>2, <1>4, <3>2 DEF Ended
      <3> QED
        BY <1>6, <3>1, <3>2
    <2>2. \A j \in DOMAIN pending' : item'[pending'[j]].retries < MaxRetries
      <3>1. \A j \in DOMAIN pending' : item'[pending'[j]] = item[pending[to(j)]]
        BY <1>2, <1>4, <1>5, <1>8
      <3> QED
        BY <1>0, <1>5, <3>1 DEF Ended
    <2>3. ASSUME NEW j \in running' PROVE item'[j].retries < MaxRetries
      <3>1. j \in running /\ j \in DOMAIN item /\ SlugOf(j) # SlugOf(id)
        BY <1>0, <1>1, Working
      <3> QED
        BY <1>0, <1>4, <3>1 DEF Ended, SlugOf
    <2> QED
      BY <2>1, <2>2, <2>3 DEF Ended
  <1>13. Slots(item', active', running', cleaning')
    BY <1>0, <1>1, <1>4 DEF Slots
  <1>14. InOrder(pending', active')
    <2>1. PICK k \in 0 .. Len(pending) :
              /\ k + Cardinality(ActiveSlugs(active)) <= MaxConcurrency
              /\ \A j \in k + 1 .. Len(pending) : /\ \A l \in 1 .. j - 1 : pending[l] < pending[j]
                                                  /\ \A t \in Slugs : active[t] < pending[j]
      BY <1>0 DEF InOrder
    <2> DEFINE m == IF i <= k THEN k - 1 ELSE k
    <2>2. /\ Len(pending) \in Nat /\ DOMAIN pending = 1 .. Len(pending) /\ i \in 1 .. Len(pending)
          /\ Cardinality(ActiveSlugs(active)) \in Nat
      BY <1>0, FS_CardinalityType DEF Lists, Slots
    <2>3. m \in 0 .. Len(pending') /\ m + Cardinality(ActiveSlugs(active)) <= MaxConcurrency
      BY <1>5, <2>1, <2>2, Bounds
    <2>4. ASSUME NEW j \in m + 1 .. Len(pending')
          PROVE  /\ \A l \in 1 .. j - 1 : pending'[l] < pending'[j]
                 /\ \A t \in Slugs : active'[t] < pending'[j]
      <3>1. /\ j \in DOMAIN pending' /\ to(j) \in k + 1 .. Len(pending)
            /\ \A l \in 1 .. j - 1 : l \in DOMAIN pending' /\ l < j
        <4>1. to(j) \in k + 1 .. Len(pending)
          BY <1>5, <2>1, <2>2 DEF to
        <4> QED
          BY <1>5, <2>2, <2>3, <4>1
      <3>2. ASSUME NEW l \in 1 .. j - 1
            PROVE  to(l) \in 1 .. to(j) - 1 /\ pending'[l] = pending[to(l)]
        <4>1. l \in DOMAIN pending' /\ to(l) < to(j)
          BY <1>5, <3>1
        <4>2. to(l) \in 1 .. Len(pending) /\ to(j) \in 1 .. Len(pending)
          BY <1>5, <2>2, <3>1
        <4> QED
          BY <1>5, <2>2, <4>1, <4>2
      <3>3. pending'[j] = pending[to(j)] /\ active' = active
        BY <1>1, <1>5, <3>1
      <3> QED
        BY <2>1, <3>1, <3>2, <3>3
    <2> HIDE DEF m
    <2> QED
      BY <1>1, <2>3, <2>4 DEF InOrder
  <1>15. Queue(item', pending', active', completed', running', cleaning')
    BY <1>10, <1>11, <1>12, <1>13, <1>14 DEF Queue
  <1>16. \A j \in DOMAIN pending' : IsPending(pending'[j])
    BY <1>5 DEF IsPending
  <1>17. /\ \A t \in Slugs : active'[t] \in {None, active[t]} /\ running' \subseteq running
         /\ recorded' = recorded /\ cancelled' = cancelled /\ dropped' = dropped
    BY <1>1
  <1>18. Sets'
    BY <1>0, <1>1, <1>2, <1>4 DEF Sets
  <1>19. Marked' /\ dropped' \cap recorded = {}
    BY <1>4, <1>16, <1>17, MarksStay DEF SlugOf
  <1> QED
    BY <1>15, <1>16, <1>17, <1>18, <1>19, QuietKeeps

\* A step that leaves the items, and what is pending, active and running as they are.
LEMMA StillKeeps ==
    ASSUME IInv, UNCHANGED <<item, pending, active, cleaning, recorded, uninstalled,
                            hadCompletionSinceIdle>>,
           NEW run, Queue(item, pending, active, completed', run, cleaning),
           running' = run, run \subseteq running, Sets', Marked', dropped' \cap recorded = {}
    PROVE  IInv' /\ Orderly
  <1>1. Queue(item', pending', active', completed', running', cleaning')
    OBVIOUS
  <1>2. /\ \A s \in Slugs : active'[s] \in {None, active[s]}
        /\ \A j \in DOMAIN pending' : IsPending(pending'[j])
    BY DEF IsPending
  <1> QED
    BY <1>1, <1>2, QuietKeeps

LEMMA CancelActiveKeeps == ASSUME IInv, NEW s \in Slugs, CancelActive(s) PROVE IInv' /\ Orderly
  <1>0. /\ Queue(item, pending, active, completed, running, cleaning) /\ Sets /\ Marked
        /\ Lists(item, pending, active, completed) /\ OneRow(item, pending, active, completed)
        /\ RecordedIsOver /\ CancelledIsNotRecorded
    BY Parts
  <1> DEFINE id == active[s]
  <1>1. /\ id # None /\ cancelled' = cancelled \cup {s} /\ dropped' = dropped \cup {id}
        /\ UNCHANGED <<item, pending, active, completed, running, cleaning, pause, timers,
                       disposed, hadCompletionSinceIdle, recorded, uninstalled>>
    BY Zenon DEF CancelActive
  <1>2. id \in DOMAIN item /\ SlugOf(id) = s /\ id \notin recorded
    BY <1>0, <1>1 DEF Lists, OneRow, SlugOf, RecordedIsOver
  <1>3. Sets'
    BY <1>0, <1>1, <1>2 DEF Sets
  <1>4. Marked'
    BY <1>0, <1>1, <1>2 DEF Marked, IsPending, SlugOf
  <1>5. dropped' \cap recorded = {}
    BY <1>0, <1>1, <1>2 DEF CancelledIsNotRecorded
  <1> QED
    BY <1>0, <1>1, <1>3, <1>4, <1>5, StillKeeps

\* A row of the ended ones goes: dismissed, or cleaned up after a while.
LEMMA RowGoesKeeps ==
    ASSUME IInv, (\E s \in Slugs : DismissFailed(s)) \/ \E id \in Ids : CleanupTimer(id)
    PROVE  IInv' /\ Orderly
  <1>0. Queue(item, pending, active, completed, running, cleaning) /\ Sets
    BY Parts
  <1>1. /\ UNCHANGED <<item, pending, active, cancelled, running, cleaning, pause, disposed,
                       hadCompletionSinceIdle, recorded, uninstalled, dropped>>
        /\ timers' \subseteq timers
    BY DEF DismissFailed, CleanupTimer, history
  <1>2. \E rows \in SUBSET DOMAIN completed : completed' = WithoutFirst(completed, rows)
    BY DEF DismissFailed, CleanupTimer, RowsOf
  <1>3. Queue(item, pending, active, completed', running, cleaning)
    BY <1>0, <1>2, LosesFirst
  <1>4. Sets'
    BY <1>0, <1>1 DEF Sets
  <1>5. Marked' /\ dropped' \cap recorded = {}
    BY <1>1, MarksStay DEF SlugOf, IsPending
  <1> QED
    BY <1>1, <1>3, <1>4, <1>5, StillKeeps

LEMMA PauseElapsesKeeps == ASSUME IInv, PauseElapses \/ Dispose PROVE IInv' /\ Orderly
  <1>0. Queue(item, pending, active, completed, running, cleaning) /\ Sets
    BY Parts
  <1>1. /\ UNCHANGED <<item, pending, active, completed, cancelled, running, cleaning,
                       hadCompletionSinceIdle, recorded, uninstalled, dropped>>
        /\ timers' \subseteq timers /\ pause' \in {"off", "over"} /\ disposed' \in BOOLEAN
    BY <1>0 DEF PauseElapses, Dispose, history, Sets
  <1>2. Sets'
    BY <1>0, <1>1 DEF Sets
  <1>3. Marked' /\ dropped' \cap recorded = {}
    BY <1>1, MarksStay DEF SlugOf, IsPending
  <1> QED
    BY <1>0, <1>1, <1>2, <1>3, StillKeeps

\* An execution under way settles into nothing once the queue is disposed.
LEMMA SettlesDisposedKeeps == ASSUME IInv, NEW id, SettlesDisposed(id) PROVE IInv' /\ Orderly
  <1>0. /\ Queue(item, pending, active, completed, running, cleaning) /\ Sets
        /\ Ended(item, pending, completed, running) /\ Slots(item, active, running, cleaning)
    BY Parts
  <1>1. /\ running' = running \ {id}
        /\ UNCHANGED <<item, pending, active, completed, cancelled, cleaning, pause, timers,
                       disposed, hadCompletionSinceIdle, recorded, uninstalled, dropped>>
    BY Zenon DEF SettlesDisposed, history
  <1>2. Ended(item, pending, completed, running \ {id}) /\ Slots(item, active, running \ {id}, cleaning)
    BY <1>0 DEF Ended, Slots
  <1>3. Queue(item, pending, active, completed', running \ {id}, cleaning)
    BY <1>0, <1>1, <1>2 DEF Queue
  <1>4. Sets'
    BY <1>0, <1>1 DEF Sets
  <1>5. Marked' /\ dropped' \cap recorded = {}
    BY <1>1, MarksStay DEF SlugOf, IsPending
  <1> QED
    BY <1>1, <1>3, <1>4, <1>5, StillKeeps

\* The mark is consumed: no other item of the slug is running or pending.
LEMMA SucceedsCancelledKeeps == ASSUME IInv, NEW id, SucceedsCancelled(id) PROVE IInv' /\ Orderly
  <1>0. /\ Queue(item, pending, active, completed, running, cleaning) /\ Sets /\ Marked
        /\ Ended(item, pending, completed, running) /\ Slots(item, active, running, cleaning)
        /\ CancelledIsNotRecorded
    BY Parts
  <1>1. /\ id \in running /\ running' = running \ {id} /\ cleaning' = cleaning \cup {id}
        /\ cancelled' = cancelled \ {SlugOf(id)} /\ uninstalled' = uninstalled \cup {id}
        /\ UNCHANGED <<item, pending, active, completed, pause, timers, disposed,
                       hadCompletionSinceIdle, recorded, dropped>>
    BY Zenon DEF SucceedsCancelled
  <1>2. /\ id \in DOMAIN item /\ active[SlugOf(id)] = id
        /\ \A i \in DOMAIN pending : SlugOf(pending[i]) # SlugOf(id)
    BY <1>0, <1>1, Working
  <1>3. Ended(item, pending, completed, running') /\ Slots(item, active, running', cleaning')
    BY <1>0, <1>1, <1>2 DEF Ended, Slots, SlugOf
  <1>4. Queue(item', pending', active', completed', running', cleaning')
    BY <1>0, <1>1, <1>3 DEF Queue
  <1>5. Sets'
    BY <1>0, <1>1, <1>2 DEF Sets
  <1>6. \A x \in dropped : x \in running' \/ IsPending(x) => SlugOf(x) \in cancelled'
    <2>1. ASSUME NEW x \in dropped, x \in running' \/ IsPending(x) PROVE SlugOf(x) # SlugOf(id)
      <3>1. CASE x \in running'
        <4>1. active[SlugOf(x)] = x /\ x # id
          BY <1>0, <1>1, <3>1, Working
        <4> QED
          BY <1>2, <4>1
      <3>2. CASE IsPending(x)
        BY <1>2, <3>2 DEF IsPending
      <3> QED
        BY <2>1, <3>1, <3>2
    <2> QED
      BY <1>0, <1>1, <2>1 DEF Marked
  <1>7. Marked'
    BY <1>1, <1>6 DEF Marked, IsPending, SlugOf
  <1>8. /\ \A s \in Slugs : active'[s] \in {None, active[s]}
        /\ \A j \in DOMAIN pending' : IsPending(pending'[j])
        /\ running' \subseteq running /\ recorded' = recorded /\ dropped' \cap recorded = {}
    BY <1>0, <1>1 DEF IsPending, CancelledIsNotRecorded
  <1> QED
    BY <1>4, <1>5, <1>7, <1>8, QuietKeeps

\* The item joins the retries at the front in the slot it leaves.
LEMMA RateLimitedKeeps == ASSUME IInv, NEW id, RateLimited(id) PROVE IInv' /\ Orderly
  <1>0. /\ Queue(item, pending, active, completed, running, cleaning) /\ Sets
        /\ Lists(item, pending, active, completed) /\ OneRow(item, pending, active, completed)
        /\ Ended(item, pending, completed, running) /\ Slots(item, active, running, cleaning)
        /\ InOrder(pending, active)
    BY Parts
  <1>1. /\ id \in running /\ item' = Retried(id, "queued") /\ active' = Freed(id)
        /\ item[id].retries + 1 < MaxRetries
        /\ running' = running \ {id} /\ pending' = <<id>> \o pending /\ pause' = "on"
        /\ UNCHANGED <<completed, cancelled, cleaning, timers, disposed,
                       hadCompletionSinceIdle, recorded, uninstalled, dropped>>
    BY Zenon DEF RateLimited, Retried, history
  <1>2. /\ id \in DOMAIN item /\ id # None /\ id \in Nat /\ SlugOf(id) \in Slugs
        /\ active[SlugOf(id)] = id
        /\ \A i \in DOMAIN pending : SlugOf(pending[i]) # SlugOf(id)
        /\ \A i \in DOMAIN completed : SlugOf(completed[i]) # SlugOf(id)
        /\ \A j \in DOMAIN pending : pending[j] \in DOMAIN item
        /\ \A j \in DOMAIN completed : completed[j] \in DOMAIN item
    BY <1>0, <1>1, Working DEF Lists
  <1>3. /\ active' \in [Slugs -> {None} \cup DOMAIN item]
        /\ \A s \in Slugs : active'[s] = IF s = SlugOf(id) THEN None ELSE active[s]
        /\ IsFiniteSet(ActiveSlugs(active')) /\ Cardinality(ActiveSlugs(active')) \in Nat
        /\ Cardinality(ActiveSlugs(active')) = Cardinality(ActiveSlugs(active)) - 1
        /\ Cardinality(ActiveSlugs(active)) \in Nat
    BY <1>0, <1>1, FreedSlots
  <1>4. Rewrites(item', id) /\ item'[id].retries = item[id].retries + 1
    BY <1>0, <1>1, <1>2, RetriedRewrites DEF Lists, Ended, Statuses
  <1>5. /\ item' \in Items /\ Len(item') = Len(item) /\ DOMAIN item' = DOMAIN item
        /\ \A j \in DOMAIN item : item'[j].slug = SlugOf(j)
        /\ \A j \in DOMAIN item : j # id => item'[j] = item[j]
    BY <1>4 DEF Rewrites
  <1>6. /\ pending' \in Seq(DOMAIN item) /\ Len(pending') = Len(pending) + 1 /\ Len(pending) \in Nat
        /\ pending'[1] = id
        /\ \A j \in DOMAIN pending' : j = 1 \/ (j - 1 \in DOMAIN pending /\ pending'[j] = pending[j - 1])
        /\ DOMAIN pending = 1 .. Len(pending) /\ DOMAIN pending' = 1 .. Len(pending) + 1
    BY <1>0, <1>1, <1>2 DEF Lists
  <1>7. Lists(item', pending', active', completed')
    BY <1>0, <1>1, <1>3, <1>5, <1>6 DEF Lists
  <1>8. /\ \A i, j \in DOMAIN pending : SlugOf(pending[i]) = SlugOf(pending[j]) => i = j
        /\ \A i \in DOMAIN pending, j \in DOMAIN completed : SlugOf(pending[i]) # SlugOf(completed[j])
        /\ \A i \in DOMAIN pending : active[SlugOf(pending[i])] = None
        /\ \A j \in DOMAIN completed : active[SlugOf(completed[j])] = None
        /\ \A j \in DOMAIN completed : item'[completed'[j]].slug = SlugOf(completed[j])
        /\ \A j \in DOMAIN item : SlugOf(j) \in Slugs
    <2>1. \A j \in DOMAIN item : item[j] \in Item
      BY <1>0 DEF Lists, Items
    <2>2. \A j \in DOMAIN item : SlugOf(j) \in Slugs
      BY <2>1 DEF Item, SlugOf
    <2>3. \A j \in DOMAIN completed : item'[completed'[j]].slug = SlugOf(completed[j])
      BY <1>1, <1>2, <1>5
    <2> QED
      BY <1>0, <2>2, <2>3 DEF OneRow, SlugOf
  <1>9. \A j \in DOMAIN pending' :
            \/ j = 1 /\ item'[pending'[j]].slug = SlugOf(id)
            \/ j - 1 \in DOMAIN pending /\ item'[pending'[j]].slug = SlugOf(pending[j - 1])
    BY <1>2, <1>5, <1>6
  <1>10. OneRow(item', pending', active', completed')
    <2>1. ASSUME NEW s \in Slugs, active'[s] # None PROVE item'[active'[s]].slug = s
      <3>1. active'[s] = active[s] /\ active[s] \in DOMAIN item
        BY <1>0, <1>3, <2>1 DEF Lists
      <3> QED
        BY <1>0, <1>5, <2>1, <3>1 DEF OneRow, SlugOf
    <2>2. ASSUME NEW i \in DOMAIN pending' PROVE active'[item'[pending'[i]].slug] = None
      BY <1>2, <1>3, <1>8, <1>9
    <2>3. ASSUME NEW j \in DOMAIN completed' PROVE active'[item'[completed'[j]].slug] = None
      <3>1. j \in DOMAIN completed /\ item'[completed'[j]].slug = SlugOf(completed[j])
        BY <1>1, <1>8, <2>3
      <3>2. SlugOf(completed[j]) \in Slugs /\ SlugOf(completed[j]) # SlugOf(id)
        BY <1>2, <1>8, <3>1
      <3>3. active[SlugOf(completed[j])] = None
        BY <1>8, <3>1
      <3> QED
        BY <1>3, <3>1, <3>2, <3>3
    <2>4. ASSUME NEW i \in DOMAIN pending', NEW j \in DOMAIN pending',
                 item'[pending'[i]].slug = item'[pending'[j]].slug
          PROVE  i = j
      BY <1>2, <1>6, <1>8, <1>9, <2>4
    <2>5. \A i, j \in DOMAIN completed' :
              item'[completed'[i]].slug = item'[completed'[j]].slug => i = j
      BY <1>0, <1>1, <1>8 DEF OneRow, SlugOf
    <2>6. ASSUME NEW i \in DOMAIN pending', NEW j \in DOMAIN completed'
          PROVE  item'[pending'[i]].slug # item'[completed'[j]].slug
      BY <1>1, <1>2, <1>8, <1>9
    <2> QED
      BY <2>1, <2>2, <2>3, <2>4, <2>5, <2>6, Zenon DEF OneRow
  <1>11. Ended(item', pending', completed', running')
    <2>1. \A j \in DOMAIN completed : item'[completed[j]] = item[completed[j]]
      BY <1>2, <1>5
    <2>2. \A j \in DOMAIN pending : item'[pending[j]] = item[pending[j]]
      BY <1>2, <1>5
    <2>3. \A j \in DOMAIN completed' : item'[completed'[j]].status \in {"done", "failed"}
      BY <1>0, <1>1, <2>1 DEF Ended
    <2>4. ASSUME NEW j \in DOMAIN pending' PROVE item'[pending'[j]].retries < MaxRetries
      <3>1. CASE j = 1
        BY <1>1, <1>4, <1>6, <3>1
      <3>2. CASE j - 1 \in DOMAIN pending /\ pending'[j] = pending[j - 1]
        BY <1>0, <2>2, <3>2 DEF Ended
      <3> QED
        BY <1>6, <3>1, <3>2
    <2>5. \A j \in running' : item'[j].retries < MaxRetries
      BY <1>0, <1>1, <1>5 DEF Ended, Slots
    <2> QED
      BY <2>3, <2>4, <2>5 DEF Ended
  <1>12. Slots(item', active', running', cleaning')
    <2>1. Cardinality(ActiveSlugs(active')) <= MaxConcurrency
      BY <1>0, <1>3, Bounds DEF Slots
    <2>2. ASSUME NEW j \in running' \cup cleaning' PROVE active'[item'[j].slug] = j
      <3>1. j \in DOMAIN item /\ SlugOf(j) \in Slugs /\ active[SlugOf(j)] = j /\ j # id
        BY <1>0, <1>1, Working DEF Slots
      <3> QED
        BY <1>2, <1>3, <1>5, <3>1
    <2> QED
      BY <1>0, <1>1, <1>3, <1>5, <2>1, <2>2 DEF Slots
  <1>13. InOrder(pending', active')
    <2>1. PICK k \in 0 .. Len(pending) :
              /\ k + Cardinality(ActiveSlugs(active)) <= MaxConcurrency
              /\ \A j \in k + 1 .. Len(pending) : /\ \A l \in 1 .. j - 1 : pending[l] < pending[j]
                                                  /\ \A t \in Slugs : active[t] < pending[j]
      BY <1>0 DEF InOrder
    <2>2. k + 1 \in 0 .. Len(pending') /\ k + 1 + Cardinality(ActiveSlugs(active')) <= MaxConcurrency
      BY <1>3, <1>6, <2>1, Bounds
    <2>3. ASSUME NEW j \in k + 2 .. Len(pending')
          PROVE  /\ \A l \in 1 .. j - 1 : pending'[l] < pending'[j]
                 /\ \A t \in Slugs : active'[t] < pending'[j]
      <3>1. j \in DOMAIN pending' /\ j # 1 /\ j - 1 \in k + 1 .. Len(pending)
        BY <1>6, <2>1
      <3>2. pending'[j] = pending[j - 1] /\ id < pending[j - 1]
        BY <1>2, <1>6, <2>1, <3>1
      <3>3. ASSUME NEW l \in 1 .. j - 1 PROVE pending'[l] < pending'[j]
        <4>1. CASE l = 1
          BY <1>6, <3>2, <4>1
        <4>2. CASE l # 1
          <5>1. l \in DOMAIN pending' /\ l - 1 \in 1 .. (j - 1) - 1
            BY <1>6, <3>1, <4>2
          <5>2. pending'[l] = pending[l - 1]
            BY <1>6, <4>2, <5>1
          <5> QED
            BY <2>1, <3>1, <3>2, <5>1, <5>2
        <4> QED
          BY <4>1, <4>2
      <3>4. ASSUME NEW t \in Slugs PROVE active'[t] < pending'[j]
        <4>1. pending[j - 1] \in Nat \ {0}
          <5>1. \A x \in DOMAIN item : x \in Nat \ {0}
            BY <1>0 DEF Lists, Items
          <5> QED
            BY <1>2, <1>6, <3>1, <5>1
        <4>2. active[t] < pending[j - 1]
          BY <2>1, <3>1
        <4>3. active'[t] = None \/ active'[t] = active[t]
          BY <1>3
        <4>4. None < pending[j - 1]
          BY <4>1 DEF None
        <4> QED
          BY <3>2, <4>2, <4>3, <4>4
      <3> QED
        BY <3>3, <3>4
    <2>4. k + 1 + 1 = k + 2
      BY <2>1
    <2> QED
      BY <2>2, <2>3, <2>4 DEF InOrder
  <1>14. Queue(item', pending', active', completed', running', cleaning')
    BY <1>7, <1>10, <1>11, <1>12, <1>13 DEF Queue
  <1>15. \A j \in DOMAIN pending' : IsPending(pending'[j]) \/ pending'[j] \in running
    BY <1>1, <1>6 DEF IsPending
  <1>16. Sets'
    BY <1>0, <1>1, <1>5 DEF Sets
  <1>17. Marked' /\ dropped' \cap recorded = {}
    BY <1>1, <1>5, <1>15, MarksStay
  <1>18. /\ \A s \in Slugs : active'[s] \in {None, active[s]}
         /\ running' \subseteq running /\ recorded' = recorded
    BY <1>1, <1>3
  <1> QED
    BY <1>14, <1>15, <1>16, <1>17, <1>18, QuietKeeps

(***************************************************************************)
(* The invariant holds at first and every step keeps it.                   *)
(***************************************************************************)

LEMMA IInvInit == Init => IInv
  <1> SUFFICES ASSUME Init PROVE IInv
    OBVIOUS
  <1>1. /\ item = <<>> /\ pending = <<>> /\ completed = <<>>
        /\ running = {} /\ cleaning = {} /\ recorded = {} /\ dropped = {}
        /\ \A s \in Slugs : active[s] = None
    BY DEF Init
  <1>2. ActiveSlugs(active) = {} /\ IsFiniteSet(ActiveSlugs(active))
        /\ Cardinality(ActiveSlugs(active)) = 0
    BY <1>1, FS_EmptySet DEF ActiveSlugs
  <1>3. Lists(item, pending, active, completed)
    BY Bounds DEF Init, Lists, Items
  <1>4. OneRow(item, pending, active, completed) /\ Ended(item, pending, completed, running)
    BY <1>1 DEF OneRow, Ended
  <1>5. Slots(item, active, running, cleaning)
    BY <1>1, <1>2, Bounds DEF Slots
  <1>6. InOrder(pending, active)
    BY <1>1, <1>2, Bounds DEF InOrder
  <1>7. Sets /\ Marked /\ RecordedIsOver /\ CancelledIsNotRecorded
    BY <1>1 DEF Init, Sets, Marked, RecordedIsOver, CancelledIsNotRecorded
  <1> QED
    BY <1>3, <1>4, <1>5, <1>6, <1>7 DEF IInv, Queue

LEMMA IInvStep == ASSUME IInv, [Next]_vars PROVE IInv' /\ Orderly
  <1>1. ASSUME NEW s \in Slugs, Enqueue(s) PROVE IInv' /\ Orderly
    BY <1>1, EnqueueKeeps
  <1>2. ASSUME NEW s \in Slugs, Cancel(s) PROVE IInv' /\ Orderly
    BY <1>2, CancelPendingKeeps, CancelActiveKeeps, RowGoesKeeps DEF Cancel
  <1>3. ASSUME NEW id \in Ids, Settles(id) PROVE IInv' /\ Orderly
    BY <1>3, SettlesDisposedKeeps, SucceedsKeeps, SucceedsCancelledKeeps, FailsKeeps,
       RateLimitedKeeps DEF Settles
  <1>4. ASSUME NEW id \in Ids, Cleaned(id) PROVE IInv' /\ Orderly
    BY <1>4, CleanedKeeps
  <1>5. ASSUME NEW id \in Ids, CleanupTimer(id) PROVE IInv' /\ Orderly
    BY <1>5, RowGoesKeeps
  <1>6. ASSUME Dispose \/ PauseElapses PROVE IInv' /\ Orderly
    BY <1>6, PauseElapsesKeeps
  <1>7. ASSUME PauseTimer PROVE IInv' /\ Orderly
    BY <1>7, PauseTimerKeeps
  <1>8. ASSUME UNCHANGED vars PROVE IInv' /\ Orderly
    <2>1. /\ UNCHANGED <<item, pending, active, completed, cancelled, running, cleaning, pause,
                         timers, disposed, hadCompletionSinceIdle, recorded, uninstalled,
                         dropped>>
      BY <1>8 DEF vars, history
    <2>2. Queue(item, pending, active, completed', running, cleaning)
      BY <2>1, Parts
    <2>3. Sets'
      BY <2>1, Parts DEF Sets
    <2>4. Marked' /\ dropped' \cap recorded = {}
      BY <2>1, MarksStay DEF SlugOf, IsPending
    <2> QED
      BY <2>1, <2>2, <2>3, <2>4, StillKeeps
  <1> QED
    BY <1>1, <1>2, <1>3, <1>4, <1>5, <1>6, <1>7, <1>8 DEF Next

(***************************************************************************)
(* What the invariant says.                                                *)
(***************************************************************************)

LEMMA IInvTypes == IInv => TypeOK
  <1> SUFFICES ASSUME IInv PROVE TypeOK
    OBVIOUS
  <1>1. /\ Lists(item, pending, active, completed) /\ Sets
        /\ Slots(item, active, running, cleaning)
    BY Parts
  <1> QED
    BY <1>1 DEF TypeOK, Lists, Sets, Slots, Items, Item

\* Every row is of one list, and of a slug that no other row has.
LEMMA IInvRows == IInv => OneRowPerSkill
  <1> SUFFICES ASSUME IInv PROVE OneRowPerSkill
    OBVIOUS
  <1>0. /\ Lists(item, pending, active, completed) /\ OneRow(item, pending, active, completed)
        /\ Slots(item, active, running, cleaning)
    BY Parts
  <1> DEFINE A == ActiveSlugs(active)
             P == DOMAIN pending
             C == DOMAIN completed
             act == [s \in A |-> active[s]]
             actives == {act[s] : s \in A}
             pendings == {pending[i] : i \in P}
             ended == {completed[i] : i \in C}
  <1>1. /\ A \subseteq Slugs /\ \A s \in A : active[s] # None /\ SlugOf(active[s]) = s
        /\ \A i \in P : SlugOf(pending[i]) \notin A
        /\ \A i \in C : SlugOf(completed[i]) \notin A
    BY <1>0 DEF OneRow, ActiveSlugs, SlugOf
  <1>2. /\ \A i, j \in P : SlugOf(pending[i]) = SlugOf(pending[j]) => i = j
        /\ \A i, j \in C : SlugOf(completed[i]) = SlugOf(completed[j]) => i = j
        /\ \A i \in P, j \in C : SlugOf(pending[i]) # SlugOf(completed[j])
    BY <1>0 DEF OneRow, SlugOf
  <1>3. P = 1 .. Len(pending) /\ C = 1 .. Len(completed) /\ Len(pending) \in Nat /\ Len(completed) \in Nat
    BY <1>0 DEF Lists
  <1>4. Rows = actives \cup pendings \cup ended
    BY DEF Rows
  <1>5. /\ IsFiniteSet(A) /\ IsFiniteSet(P) /\ IsFiniteSet(C)
        /\ Cardinality(P) = Len(pending) /\ Cardinality(C) = Len(completed)
        /\ Cardinality(A) \in Nat
    <2>1. IsFiniteSet(A) /\ Cardinality(A) \in Nat
      BY <1>0, FS_CardinalityType DEF Slots
    <2>2. ASSUME NEW n \in Nat PROVE IsFiniteSet(1 .. n) /\ Cardinality(1 .. n) = n
      BY FS_Interval
    <2> HIDE DEF A, P, C
    <2> QED
      BY <1>3, <2>1, <2>2
  <1>6. IsFiniteSet(actives) /\ Cardinality(actives) = Cardinality(A)
    <2>1. \A x, y \in A : act[x] = act[y] => x = y
      BY <1>1
    <2>2. DOMAIN act = A
      OBVIOUS
    <2> HIDE DEF A, act
    <2> QED
      BY <1>5, <2>1, <2>2, CountImage
  <1>7. IsFiniteSet(pendings) /\ Cardinality(pendings) = Len(pending)
    <2>1. \A i, j \in P : pending[i] = pending[j] => i = j
      BY <1>2
    <2> QED
      BY <1>5, <2>1, CountImage
  <1>8. IsFiniteSet(ended) /\ Cardinality(ended) = Len(completed)
    <2>1. \A i, j \in C : completed[i] = completed[j] => i = j
      BY <1>2
    <2> QED
      BY <1>5, <2>1, CountImage
  <1>9. /\ \A a \in actives : SlugOf(a) \in A /\ active[SlugOf(a)] = a
        /\ \A p \in pendings : SlugOf(p) \notin A
        /\ \A e \in ended : SlugOf(e) \notin A
        /\ \A p \in pendings, e \in ended : SlugOf(p) # SlugOf(e)
        /\ \A p, q \in pendings : SlugOf(p) = SlugOf(q) => p = q
        /\ \A d, e \in ended : SlugOf(d) = SlugOf(e) => d = e
    BY <1>1, <1>2
  <1> HIDE DEF A, P, C, actives, pendings, ended
  <1>10. \A a, b \in Rows : SlugOf(a) = SlugOf(b) => a = b
    BY <1>4, <1>9
  <1>11. pendings \cap ended = {} /\ actives \cap (pendings \cup ended) = {}
    BY <1>9
  <1>12. /\ IsFiniteSet(pendings \cup ended)
         /\ Cardinality(pendings \cup ended) = Len(pending) + Len(completed)
    <2>1. /\ IsFiniteSet(pendings \cup ended)
          /\ Cardinality(pendings \cup ended) = Cardinality(pendings) + Cardinality(ended)
      BY <1>7, <1>8, <1>11, DisjointUnion
    <2> QED
      BY <1>7, <1>8, <2>1
  <1>13. Cardinality(actives \cup (pendings \cup ended))
            = Cardinality(A) + (Len(pending) + Len(completed))
    <2> DEFINE others == pendings \cup ended
    <2> HIDE DEF others
    <2>1. IsFiniteSet(others) /\ actives \cap others = {} /\ IsFiniteSet(actives)
      BY <1>6, <1>11, <1>12 DEF others
    <2>2. Cardinality(actives \cup others) = Cardinality(actives) + Cardinality(others)
      BY <2>1, DisjointUnion
    <2> QED
      BY <1>6, <1>12, <2>2 DEF others
  <1>14. Cardinality(Rows) = Cardinality(A) + Len(pending) + Len(completed)
    <2>1. Rows = actives \cup (pendings \cup ended)
      BY <1>4
    <2> QED
      BY <1>3, <1>5, <1>13, <2>1
  <1> QED
    BY <1>10, <1>14 DEF OneRowPerSkill, A

\* Whatever is under way holds the entry of its slug, and the map is never too large.
LEMMA IInvBound == IInv => ConcurrencyBound
  <1> SUFFICES ASSUME IInv PROVE ConcurrencyBound
    OBVIOUS
  <1>0. /\ Queue(item, pending, active, completed, running, cleaning)
        /\ Slots(item, active, running, cleaning)
    BY Parts
  <1> DEFINE A == ActiveSlugs(active)
             act == [s \in A |-> active[s]]
             actives == {act[s] : s \in A}
  <1>1. IsFiniteSet(A) /\ Cardinality(A) <= MaxConcurrency /\ Cardinality(A) \in Nat
    BY <1>0, FS_CardinalityType DEF Slots
  <1>2. IsFiniteSet(actives) /\ Cardinality(actives) <= Cardinality(A)
    <2>1. DOMAIN act = A
      OBVIOUS
    <2> QED
      BY <1>1, <2>1, CountImage
  <1>3. ASSUME NEW id \in running \cup cleaning PROVE id \in actives
    <2>1. SlugOf(id) \in A /\ active[SlugOf(id)] = id
      BY <1>0, Working DEF ActiveSlugs
    <2> QED
      BY <2>1
  <1>4. Cardinality(running \cup cleaning) <= Cardinality(actives)
    BY <1>2, <1>3, FS_Subset
  <1>5. Cardinality(actives) \in Nat /\ Cardinality(running \cup cleaning) \in Nat
    BY <1>2, <1>3, FS_Subset, FS_CardinalityType
  <1> QED
    BY <1>1, <1>2, <1>4, <1>5, Bounds DEF ConcurrencyBound

(***************************************************************************)
(* Nothing waits for a wake-up that does not come, and where work under    *)
(* way comes from.                                                         *)
(***************************************************************************)

\* Until the queue is disposed, every entry of the map is worked on; unless it pauses, what is
\* pending waits for a slot, and the notice that is owed for work under way.
Awake ==
    /\ ~disposed => \A s \in Slugs : active[s] # None => active[s] \in running \cup cleaning
    /\ ~disposed /\ pause = "off" =>
          /\ pending # <<>> => Cardinality(ActiveSlugs(active)) = MaxConcurrency
          /\ hadCompletionSinceIdle => ActiveSlugs(active) # {}

\* Items keep their slugs, and those at work were so before, or are new and of slug s.
Moves(s) ==
    /\ DOMAIN item \subseteq DOMAIN item' /\ \A id \in DOMAIN item : item'[id].slug = SlugOf(id)
    /\ \A id : id \in running' \/ IsPending(id)' =>
                  \/ id \in running \/ IsPending(id)
                  \/ id \notin DOMAIN item /\ item'[id].slug = s

LEMMA DrainedWakes ==
    ASSUME NEW s, NEW items, NEW pend, NEW act, NEW comp, NEW run, NEW had,
           Queue(items, pend, act, comp, run, cleaning'), Drain(items, pend, act, run, had),
           disposed' = disposed, pause' = "off" => pause # "on",
           ~disposed => \A t \in Slugs : act[t] # None => act[t] \in run \cup cleaning',
           DOMAIN item \subseteq DOMAIN items, \A j \in DOMAIN item : items[j].slug = SlugOf(j),
           \A i \in DOMAIN pend : \/ IsPending(pend[i])
                                  \/ pend[i] \notin DOMAIN item /\ items[pend[i]].slug = s,
           run \subseteq running
    PROVE  Awake' /\ Moves(s)
  <1>0. Lists(items, pend, act, comp) /\ OneRow(items, pend, act, comp) /\ Slots(items, act, run, cleaning')
    BY Zenon DEF Queue
  <1>1. PICK n \in Nat : Fit(n, pend, act) /\ Starts(n, items, pend, act, run)
    BY <1>0, DrainStarts DEF Slots
  <1>2. /\ IsFiniteSet(ActiveSlugs(active')) /\ Cardinality(ActiveSlugs(active')) \in Nat
        /\ Cardinality(ActiveSlugs(act)) \in Nat
        /\ Cardinality(ActiveSlugs(active')) = Cardinality(ActiveSlugs(act)) + n
    BY <1>0, <1>1, StartsFill
  <1>3. /\ Len(pend) \in Nat /\ pend \in Seq(DOMAIN items)
        /\ pending' \in Seq(DOMAIN items) /\ Len(pending') = Len(pend) - n
        /\ running' = run \cup {pend[i] : i \in 1 .. n}
        /\ \A i \in 1 .. n : active'[items[pend[i]].slug] = pend[i]
        /\ \A t \in Slugs : active'[t] # act[t] => \E i \in 1 .. n : t = items[pend[i]].slug
    <2>1. Len(pend) \in Nat /\ pend \in Seq(DOMAIN items)
      BY <1>0 DEF Lists
    <2> QED
      BY <1>1, <2>1, Zenon DEF Starts
  <1>4. /\ DOMAIN item' = DOMAIN items /\ \A id \in DOMAIN items : item'[id].slug = items[id].slug
        /\ \A j \in DOMAIN pending' : \E i \in DOMAIN pend : pending'[j] = pend[i]
        /\ \A id \in running' : id \in run \/ \E i \in DOMAIN pend : id = pend[i]
    BY DrainKeeps DEF Follows
  <1>5. Moves(s)
    <2>1. DOMAIN item \subseteq DOMAIN item' /\ \A id \in DOMAIN item : item'[id].slug = SlugOf(id)
      BY <1>4
    <2>2. \A i \in DOMAIN pend : pend[i] \in DOMAIN items
      BY <1>3
    <2>3. ASSUME NEW id, id \in running' \/ \E j \in DOMAIN pending' : pending'[j] = id
          PROVE  \/ id \in running \/ IsPending(id)
                 \/ id \notin DOMAIN item /\ item'[id].slug = s
      <3>1. id \in run \/ \E i \in DOMAIN pend : id = pend[i]
        BY <1>4, <2>3
      <3> QED
        BY <1>4, <2>2, <3>1
    <2> QED
      BY <2>1, <2>3, Zenon DEF Moves, IsPending
  <1>6. ASSUME ~disposed, NEW t \in Slugs, active'[t] # None PROVE active'[t] \in running' \cup cleaning'
    BY <1>3, <1>6
  <1>7. ASSUME ~disposed, pause' = "off", pending' # <<>>
        PROVE  Cardinality(ActiveSlugs(active')) = MaxConcurrency
    <2> DEFINE size == Cardinality(ActiveSlugs(act))
               free == MaxConcurrency - size
               m == IF disposed \/ pause = "on" \/ free <= 0 THEN 0
                    ELSE IF Len(pend) < free THEN Len(pend) ELSE free
    <2>1. pending' = SubSeq(pend, m + 1, Len(pend))
      BY Zenon DEF Drain
    <2>2. MaxConcurrency \in Nat /\ size \in Nat /\ size <= MaxConcurrency
      BY <1>0, <1>2, Bounds DEF Slots
    <2>3. m = IF free <= 0 THEN 0 ELSE IF Len(pend) < free THEN Len(pend) ELSE free
      BY <1>7
    <2> HIDE DEF m, size
    <2>4. m \in 0 .. Len(pend) /\ Len(pending') = Len(pend) - m
      <3>1. Len(pend) \in Nat /\ free \in Int
        BY <1>3, <2>2
      <3> HIDE DEF free
      <3>2. m \in 0 .. Len(pend)
        BY <2>3, <3>1
      <3>3. Len(SubSeq(pend, m + 1, Len(pend))) = Len(pend) - m
        BY <1>3, <3>1, <3>2
      <3> QED
        BY <2>1, <3>2, <3>3
    <2>5. Len(pending') # 0
      BY <1>3, <1>7
    <2>6. m = n /\ m < Len(pend)
      BY <1>3, <2>4, <2>5
    <2>7. size + m = MaxConcurrency
      BY <1>3, <2>2, <2>3, <2>6
    <2> QED
      BY <1>2, <2>6, <2>7 DEF size
  <1>8. ASSUME ~disposed, pause' = "off", hadCompletionSinceIdle' PROVE ActiveSlugs(active') # {}
    <2>1. \/ disposed \/ pause = "on" \/ ActiveSlugs(active') # {} \/ pending' # <<>>
      BY <1>8, Zenon DEF Drain
    <2>2. Cardinality({}) = 0 /\ MaxConcurrency # 0
      BY FS_EmptySet, QueueConstants
    <2> QED
      BY <1>7, <1>8, <2>1, <2>2
  <1> QED
    BY <1>5, <1>6, <1>7, <1>8 DEF Awake

\* The item worked on ends, and its slot is free.
LEMMA EndsWakes ==
    ASSUME IInv, Awake, NEW id \in running \cup cleaning, NEW items, NEW had,
           Rewrites(items, id), items[id].status \in {"done", "failed"},
           Drain(items, pending, Freed(id), running \ {id}, had),
           cleaning' = cleaning \ {id}, disposed' = disposed, pause' = pause
    PROVE  Awake' /\ Moves(None)
  <1>0. Queue(item, pending, active, completed, running, cleaning)
    BY Parts
  <1>1. Queue(items, pending, Freed(id), Append(completed, id), running \ {id}, cleaning')
    BY <1>0, EndsQueue
  <1>2. DOMAIN items = DOMAIN item /\ \A j \in DOMAIN item : items[j].slug = SlugOf(j)
    BY DEF Rewrites
  <1>3. \A t \in Slugs : Freed(id)[t] # None => Freed(id)[t] = active[t] /\ active[t] # id
    BY <1>0, FreedSlots, Working
  <1>4. ASSUME ~disposed, NEW t \in Slugs, Freed(id)[t] # None
        PROVE  Freed(id)[t] \in (running \ {id}) \cup cleaning'
    BY <1>3, <1>4 DEF Awake
  <1>5. \A i \in DOMAIN pending : IsPending(pending[i])
    BY DEF IsPending
  <1> QED
    BY <1>1, <1>2, <1>4, <1>5, DrainedWakes

\* Nothing starts, and what is under way still is.
LEMMA StillWakes ==
    ASSUME Awake, UNCHANGED <<item, active, hadCompletionSinceIdle>>,
           \A id \in DOMAIN pending' : IsPending(pending'[id]), pending = <<>> => pending' = <<>>,
           running' \subseteq running, ~disposed' => running' \cup cleaning' = running \cup cleaning,
           ~disposed' => ~disposed, ~disposed' /\ pause' = "off" => pause = "off"
    PROVE  Awake' /\ Moves(None)
  <1>1. Awake'
    BY DEF Awake
  <1>2. \A id : id \in running' \/ (\E j \in DOMAIN pending' : pending'[j] = id)
                    => id \in running \/ IsPending(id)
    OBVIOUS
  <1>3. DOMAIN item \subseteq DOMAIN item' /\ \A id \in DOMAIN item : item'[id].slug = SlugOf(id)
    BY DEF SlugOf
  <1> QED
    BY <1>1, <1>2, <1>3, Zenon DEF Moves, IsPending

LEMMA AwakeInit == Init => Awake
  BY DEF Init, Awake

LEMMA EnqueueWakes == ASSUME IInv, Awake, NEW s \in Slugs, Enqueue(s) PROVE Awake' /\ Moves(s)
  <1>1. PICK items, pend :
              /\ Queue(items, pend, active, completed', running, cleaning')
              /\ Drain(items, pend, active, running, hadCompletionSinceIdle)
              /\ DOMAIN item \subseteq DOMAIN items /\ \A j \in DOMAIN item : items[j].slug = SlugOf(j)
              /\ \A i \in DOMAIN pend : \/ IsPending(pend[i])
                                        \/ pend[i] \notin DOMAIN item /\ items[pend[i]].slug = s
    BY EnqueueQueues
  <1>2. UNCHANGED <<cleaning, pause, disposed>>
    BY Zenon DEF Enqueue
  <1>3. ~disposed => \A t \in Slugs : active[t] # None => active[t] \in running \cup cleaning'
    BY <1>2 DEF Awake
  <1> QED
    BY <1>1, <1>2, <1>3, DrainedWakes

LEMMA CancelWakes == ASSUME IInv, Awake, NEW s \in Slugs, Cancel(s) PROVE Awake' /\ Moves(None)
  <1>0. Lists(item, pending, active, completed)
    BY Parts
  <1>1. ASSUME CancelPending(s) PROVE Awake' /\ Moves(None)
    <2>1. PICK i \in DOMAIN pending :
              /\ pending' = RemoveAt(pending, i) /\ Settle(pending[i], "failed")
              /\ UNCHANGED <<active, running, cleaning, pause, disposed, hadCompletionSinceIdle>>
      BY <1>1, Zenon DEF CancelPending
    <2>2. \A j \in DOMAIN pending' : \E k \in DOMAIN pending : pending'[j] = pending[k]
      <3>1. pending \in Seq(DOMAIN item)
        BY <1>0 DEF Lists
      <3> QED
        BY <2>1, <3>1, RemovedStay
    <2>3. pending # <<>>
      BY <2>1
    <2>4. pending[i] \in DOMAIN item /\ item' = [item EXCEPT ![pending[i]].status = "failed"]
      BY <1>0, <2>1 DEF Lists, Settle
    <2>5. item \in Items
      BY <1>0 DEF Lists
    <2>6. DOMAIN item' = DOMAIN item /\ \A id \in DOMAIN item : item'[id].slug = SlugOf(id)
      BY <2>4, <2>5, WithRewrites DEF With, Rewrites, Statuses
    <2>7. Awake'
      BY <2>1, <2>3 DEF Awake
    <2>8. \A id : id \in running' \/ (\E j \in DOMAIN pending' : pending'[j] = id)
                    => id \in running \/ IsPending(id)
      BY <2>1, <2>2 DEF IsPending
    <2> QED
      BY <2>6, <2>7, <2>8, Zenon DEF Moves, IsPending
  <1>2. ASSUME CancelActive(s) \/ DismissFailed(s) PROVE Awake' /\ Moves(None)
    <2>1. UNCHANGED <<item, pending, active, running, cleaning, pause, disposed,
                      hadCompletionSinceIdle>>
      BY <1>2, Zenon DEF CancelActive, DismissFailed
    <2> QED
      BY <2>1, StillWakes DEF IsPending
  <1> QED
    BY <1>1, <1>2 DEF Cancel

LEMMA RateLimitedWakes == ASSUME IInv, Awake, NEW id, RateLimited(id) PROVE Awake' /\ Moves(None)
  <1>0. Lists(item, pending, active, completed) /\ Queue(item, pending, active, completed, running, cleaning)
        /\ Ended(item, pending, completed, running)
    BY Parts
  <1>1. /\ id \in running /\ active' = Freed(id) /\ running' = running \ {id}
        /\ item' = Retried(id, "queued") /\ pending' = <<id>> \o pending /\ pause' = "on"
        /\ UNCHANGED <<cleaning, disposed, hadCompletionSinceIdle>>
    BY Zenon DEF RateLimited, Retried
  <1>2. id \in DOMAIN item /\ item \in Items /\ item[id].retries < MaxRetries
    BY <1>0, <1>1, Working DEF Lists, Ended
  <1>3. DOMAIN item' = DOMAIN item /\ \A j \in DOMAIN item : item'[j].slug = SlugOf(j)
    BY <1>1, <1>2, RetriedRewrites DEF Rewrites, Statuses
  <1>4. \A t \in Slugs : Freed(id)[t] # None => Freed(id)[t] = active[t] /\ active[t] # id
    BY <1>0, <1>1, FreedSlots, Working
  <1>5. Awake'
    BY <1>1, <1>4 DEF Awake
  <1>6. \A j \in DOMAIN pending' : pending'[j] = id \/ \E k \in DOMAIN pending : pending'[j] = pending[k]
    BY <1>0, <1>1, <1>2 DEF Lists
  <1>7. \A x : x \in running' \/ (\E j \in DOMAIN pending' : pending'[j] = x)
                  => x \in running \/ IsPending(x)
    BY <1>1, <1>6 DEF IsPending
  <1> QED
    BY <1>3, <1>5, <1>7, Zenon DEF Moves, IsPending

LEMMA EndWakes ==
    ASSUME IInv, Awake, NEW id, Succeeds(id) \/ Fails(id) \/ Cleaned(id)
    PROVE  Awake' /\ Moves(None)
  <1>0. Queue(item, pending, active, completed, running, cleaning) /\ Slots(item, active, running, cleaning)
        /\ Ended(item, pending, completed, running) /\ Lists(item, pending, active, completed)
    BY Parts
  <1>1. id \in running \cup cleaning /\ id \in DOMAIN item /\ item \in Items
    BY <1>0, Working DEF Succeeds, Fails, Cleaned, Lists
  <1>2. \A status \in {"done", "failed"} :
            /\ Rewrites(With(id, status), id) /\ With(id, status)[id].status \in {"done", "failed"}
    BY <1>1, WithRewrites DEF Statuses
  <1>3. CASE Succeeds(id)
    <2>1. /\ Drain(With(id, "done"), pending, Freed(id), running \ {id}, TRUE)
          /\ cleaning' = cleaning /\ disposed' = disposed /\ pause' = pause /\ id \in running
      BY <1>3, Zenon DEF Succeeds
    <2>2. cleaning' = cleaning \ {id}
      BY <1>0, <2>1 DEF Slots
    <2> QED
      BY <1>1, <1>2, <2>1, <2>2, EndsWakes
  <1>4. CASE Cleaned(id)
    <2>1. /\ Drain(With(id, "failed"), pending, Freed(id), running, hadCompletionSinceIdle)
          /\ cleaning' = cleaning \ {id} /\ disposed' = disposed /\ pause' = pause /\ id \in cleaning
      BY <1>4, Zenon DEF Cleaned
    <2>2. running = running \ {id}
      BY <1>0, <2>1 DEF Slots
    <2>3. Drain(With(id, "failed"), pending, Freed(id), running \ {id}, hadCompletionSinceIdle)
      BY <2>1, <2>2
    <2> QED
      BY <1>1, <1>2, <2>1, <2>3, EndsWakes
  <1>5. CASE Fails(id)
    <2>1. /\ \/ Drain(With(id, "failed"), pending, Freed(id), running \ {id}, hadCompletionSinceIdle)
             \/ Drain(Retried(id, "failed"), pending, Freed(id), running \ {id}, hadCompletionSinceIdle)
          /\ cleaning' = cleaning /\ disposed' = disposed /\ pause' = pause /\ id \in running
      BY <1>5, Zenon DEF Fails, Retried
    <2>2. cleaning' = cleaning \ {id}
      BY <1>0, <2>1 DEF Slots
    <2>3. /\ Rewrites(Retried(id, "failed"), id)
          /\ Retried(id, "failed")[id].status \in {"done", "failed"}
      BY <1>0, <1>1, <2>1, RetriedRewrites DEF Statuses, Ended
    <2>4. CASE Drain(With(id, "failed"), pending, Freed(id), running \ {id}, hadCompletionSinceIdle)
      BY <1>1, <1>2, <2>1, <2>2, <2>4, EndsWakes
    <2>5. CASE Drain(Retried(id, "failed"), pending, Freed(id), running \ {id}, hadCompletionSinceIdle)
      BY <1>1, <2>1, <2>2, <2>3, <2>5, EndsWakes
    <2> QED
      BY <2>1, <2>4, <2>5
  <1> QED
    BY <1>3, <1>4, <1>5

LEMMA SettlesWakes ==
    ASSUME IInv, Awake, NEW id, SettlesDisposed(id) \/ SucceedsCancelled(id)
    PROVE  Awake' /\ Moves(None)
  <1>1. /\ UNCHANGED <<item, pending, active, hadCompletionSinceIdle, pause, disposed>>
        /\ id \in running /\ running' = running \ {id}
        /\ disposed \/ cleaning' = cleaning \cup {id}
    BY Zenon DEF SettlesDisposed, SucceedsCancelled
  <1> QED
    BY <1>1, StillWakes DEF IsPending

LEMMA TimerWakes ==
    ASSUME IInv, Awake, PauseTimer \/ PauseElapses \/ Dispose \/ \E id \in Ids : CleanupTimer(id)
    PROVE  Awake' /\ Moves(None)
  <1>1. CASE PauseTimer
    <2>1. /\ Drain(item, pending, active, running, hadCompletionSinceIdle) /\ pause = "over"
          /\ UNCHANGED <<completed, cleaning, disposed>>
      BY <1>1, Zenon DEF PauseTimer
    <2>2. Queue(item, pending, active, completed, running, cleaning')
      BY <2>1, Parts
    <2>3. /\ \A j \in DOMAIN item : item[j].slug = SlugOf(j)
          /\ \A i \in DOMAIN pending : IsPending(pending[i])
          /\ ~disposed => \A t \in Slugs : active[t] # None => active[t] \in running \cup cleaning'
      BY <2>1 DEF SlugOf, IsPending, Awake
    <2> QED
      BY <2>1, <2>2, <2>3, DrainedWakes
  <1>2. CASE PauseElapses \/ Dispose \/ \E id \in Ids : CleanupTimer(id)
    <2>1. /\ UNCHANGED <<item, pending, active, hadCompletionSinceIdle, running, cleaning>>
          /\ disposed' \/ (~disposed' /\ disposed' = disposed /\ pause' \in {pause, "over"})
      BY <1>2 DEF PauseElapses, Dispose, CleanupTimer
    <2> QED
      BY <2>1, StillWakes DEF IsPending
  <1> QED
    BY <1>1, <1>2

LEMMA AwakeStep == ASSUME IInv, Awake, [Next]_vars PROVE Awake'
  <1>1. ASSUME UNCHANGED vars PROVE Awake'
    BY <1>1 DEF vars, Awake, ActiveSlugs
  <1> QED
    BY <1>1, EnqueueWakes, CancelWakes, RateLimitedWakes, EndWakes, SettlesWakes, TimerWakes
       DEF Next, Settles

\* With the map's entries all worked on, the work under way is as much as there are entries.
LEMMA AwakeNothingStranded == IInv /\ Awake => NothingStranded
  <1> SUFFICES ASSUME IInv, Awake, ~disposed, pending # <<>>, pause = "off"
               PROVE  Cardinality(running \cup cleaning) = MaxConcurrency
    BY DEF NothingStranded
  <1> DEFINE A == ActiveSlugs(active)
             W == running \cup cleaning
             f == [s \in A |-> active[s]]
  <1>1. Slots(item, active, running, cleaning) /\ OneRow(item, pending, active, completed)
        /\ Queue(item, pending, active, completed, running, cleaning)
    BY Parts
  <1>2. IsFiniteSet(A) /\ Cardinality(A) = MaxConcurrency
    BY <1>1 DEF Slots, Awake
  <1>3. \A s, t \in A : f[s] = f[t] => s = t
    BY <1>1 DEF OneRow, ActiveSlugs
  <1>4. {f[s] : s \in A} = W
    <2>1. ASSUME NEW s \in A PROVE f[s] \in W
      BY DEF Awake, ActiveSlugs
    <2>2. ASSUME NEW id \in W PROVE SlugOf(id) \in A /\ f[SlugOf(id)] = id
      BY <1>1, Working DEF ActiveSlugs
    <2> QED
      BY <2>1, <2>2
  <1>5. (\A s, t \in A : f[s] = f[t] => s = t) => Cardinality({f[s] : s \in A}) = Cardinality(A)
    BY <1>2, CountImage
  <1> QED
    BY <1>2, <1>3, <1>4, <1>5

LEMMA AwakeIdleNoticeOwed == IInv /\ Awake => IdleNoticeOwed
  BY Parts DEF Sets, Awake, IdleNoticeOwed, ActiveSlugs


(***************************************************************************)
(* The theorems.                                                           *)
(***************************************************************************)

\* The invariant holds of every state the queue reaches.
THEOREM Invariance == Spec => []IInv
  <1>1. IInv /\ [Next]_vars => IInv'
    BY IInvStep
  <1> QED
    BY IInvInit, <1>1, PTL DEF Spec

\* Whatever is enqueued, cancelled or retried, every list holds items that enqueue() created,
\* no item is retried past MAX_RETRIES, and every timer and promise is of such an item.
THEOREM TypeCorrect == Spec => []TypeOK
  BY Invariance, IInvTypes, PTL

\* A skill is in one row of what getQueue() lists: enqueue() over a failed row, cancel() and
\* the retries of a rate limit never leave a second one, in the same list or in another.
THEOREM RowsAreDistinct == Spec => []OneRowPerSkill
  BY Invariance, IInvRows, PTL

\* However settlements, pauses and cancellations fall, no more than maxConcurrency executors
\* and awaited clean-ups are under way.
THEOREM ConcurrencyHolds == Spec => []ConcurrencyBound
  BY Invariance, IInvBound, PTL

\* An item that cancel() was called for while it was installed is never handed to onComplete,
\* although the mark it leaves is of its slug, not of the item.
THEOREM CancelIsHeeded == Spec => []CancelledIsNotRecorded
  <1>1. IInv => CancelledIsNotRecorded
    BY Parts
  <1> QED
    BY Invariance, <1>1, PTL

\* No step starts an item while one enqueued before it waits: retries put back at the front,
\* pauses and cancellations keep the order.
THEOREM StartsAreInOrder == Spec => NoOvertaking
  <1>1. IInv /\ [Next]_vars => [Orderly]_vars
    BY IInvStep
  <1>2. Spec => [][Orderly]_vars
    BY Invariance, <1>1, PTL DEF Spec
  <1> QED
    BY <1>2 DEF NoOvertaking, Orderly

\* No method leaves the queue asleep: all but the pause lead to drain().
THEOREM QueueStaysAwake == Spec => [](IInv /\ Awake)
  <1>1. Init => IInv /\ Awake
    BY IInvInit, AwakeInit
  <1>2. IInv /\ Awake /\ [Next]_vars => (IInv /\ Awake)'
    BY IInvStep, AwakeStep
  <1> QED
    BY <1>1, <1>2, PTL DEF Spec

\* With items pending and no pause to end, as many executors and clean-ups are under way as
\* there are slots, so that one of them will call drain().
THEOREM NothingIsStranded == Spec => []NothingStranded
  BY QueueStaysAwake, AwakeNothingStranded, PTL

\* While a completion awaits its onIdle, work is under way or the queue pauses: the notice
\* the config sync depends on cannot be forgotten.
THEOREM IdleNoticeIsOwed == Spec => []IdleNoticeOwed
  BY QueueStaysAwake, AwakeIdleNoticeOwed, PTL

(***************************************************************************)
(* The skill hub: its invariant, in parts.                                 *)
(***************************************************************************)

Ledgers == [Slugs -> [Sources -> {"none", "in", "out"}]]

Known(led, s) == \E x \in Sources : led[s][x] # "none"

HubTypes ==
    /\ boot \in {"served", "bootstrapped", "starting", "started", "stopping"}
    /\ skillsDir \subseteq Slugs /\ userSkillsDir \subseteq Slugs /\ curating \subseteq Slugs
    /\ told \subseteq Slugs /\ removed \subseteq Slugs /\ missed \subseteq Slugs
    /\ disturbed \subseteq Slugs /\ written \subseteq running /\ ledger \in Ledgers
    /\ importing \in Slugs \cup {None} /\ sync \in BOOLEAN /\ events \in 0 .. MaxEvents

\* The rows of the user's own skills are in only while they are there, and once the bots are
\* read whenever they are; what is yet to be curated is unknown, what was removed is not.
RowsHold ==
    /\ disposed => boot = "stopping"
    /\ userSkillsDir \subseteq Personal
    /\ \A s \in Slugs : ledger[s]["user"] = "in" => s \in userSkillsDir
    /\ boot = "started" => \A s \in userSkillsDir : ledger[s]["user"] = "in"
    /\ \A s \in curating : ~Known(ledger, s)
    /\ \A s \in removed : Known(ledger, s)

\* What an install wrote is there, unless it was taken away under it or is to be removed.
WrittenIsThere == \A id \in written : SlugOf(id) \in skillsDir \cup disturbed \cup cancelled

\* While the watcher's timer is not armed the ledger lists what is on disk, and what an
\* install wrote and something took away has no row that the clean-up could fall for.
LedgerFollowsDisk ==
    boot = "started" /\ ~sync =>
        /\ \A s \in Slugs \ disturbed : s \in Installed(ledger) <=> s \in skillsDir \cup userSkillsDir
        /\ \A id \in written : SlugOf(id) \notin skillsDir => In(ledger, SlugOf(id)) \subseteq {"user"}

\* A skill the user removed is back only in the hands of an install that is cancelled; and
\* every install under way or pending of such a skill is cancelled.
RemovedIsCancelled ==
    /\ \A s \in (skillsDir \cap removed) \ (disturbed \cup Personal) :
          s \in cancelled /\ \E id \in written : SlugOf(id) = s
    /\ \A id : (id \in running \/ IsPending(id)) /\ SlugOf(id) \in removed => SlugOf(id) \in cancelled

\* What a sync has not seen of the ledger is owed a notice by the queue.
LedgerIsTold ==
    boot # "served" => \A s \in Slugs \ (missed \cup disturbed) :
        (s \in told <=> s \in Installed(ledger)) \/ hadCompletionSinceIdle

HubParts ==
    /\ HubTypes /\ RowsHold /\ WrittenIsThere /\ LedgerFollowsDisk /\ RemovedIsCancelled
    /\ LedgerIsTold

HInv == IInv /\ Awake /\ HubParts

(***************************************************************************)
(* The ledger's operators.                                                 *)
(***************************************************************************)

LEMMA RowOf ==
    ASSUME ledger \in Ledgers, NEW s \in Slugs, NEW x \in Sources, NEW status \in {"none", "in", "out"}
    PROVE  /\ Row(s, x, status) \in Ledgers
           /\ \A t \in Slugs, y \in Sources :
                 Row(s, x, status)[t][y] = IF t = s /\ y = x THEN status ELSE ledger[t][y]
  BY DEF Row, Ledgers

LEMMA UnknownIsNotKnown == ASSUME NEW led \in Ledgers, NEW s \in Slugs PROVE led[s] = Unknown <=> ~Known(led, s)
  <1>1. led[s] \in [Sources -> {"none", "in", "out"}]
    BY DEF Ledgers
  <1> QED
    BY <1>1 DEF Known, Unknown

LEMMA InstalledHas ==
    ASSUME NEW led \in Ledgers, NEW s \in Slugs
    PROVE  s \in Installed(led) <=> \E x \in Sources : led[s][x] = "in"
  BY DEF Installed, In

\* syncNow(): the user's rows are those of the user's skills; what is not on disk has no
\* other row; what is on disk has one, unless it is left to an install; nothing is forgotten.
LEMMA SyncNowHolds ==
    ASSUME NEW led \in Ledgers, NEW dir, NEW own, NEW busy
    PROVE  LET new == SyncNow(led, dir, own, busy)
           IN  /\ new \in Ledgers
               /\ \A s \in Slugs :
                     /\ new[s]["user"] = "in" <=> s \in own
                     /\ s \notin dir => In(new, s) \subseteq {"user"}
                     /\ Known(led, s) => Known(new, s)
                     /\ (led[s]["user"] = "in" => s \in own) /\ (s \in dir => s \notin busy \/ In(led, s) # {})
                           => (s \in Installed(new) <=> s \in dir \cup own)
  <1> DEFINE new == SyncNow(led, dir, own, busy)
  <1>1. /\ \A s \in Slugs : led[s] \in [Sources -> {"none", "in", "out"}]
        /\ \A s \in Slugs, x \in Sources : led[s][x] \in {"none", "in", "out"}
    BY DEF Ledgers
  <1>2. \A s \in Slugs, x \in Sources :
            new[s][x] = IF x = "user" /\ s \in own THEN "in"
                        ELSE IF x = "managed" /\ s \in dir \ busy /\ In(led, s) = {} THEN "in"
                        ELSE IF led[s][x] = "in" /\ (x = "user" \/ s \notin dir) THEN "out"
                        ELSE led[s][x]
    BY DEF SyncNow
  <1>3. new \in Ledgers
    BY <1>1 DEF SyncNow, Ledgers
  <1>4. Sources = {"managed", "custom", "user"}
    BY DEF Sources
  <1> HIDE DEF new
  <1>5. ASSUME NEW s \in Slugs
        PROVE  /\ new[s]["user"] = "in" <=> s \in own
               /\ s \notin dir => In(new, s) \subseteq {"user"}
               /\ Known(led, s) => Known(new, s)
               /\ (led[s]["user"] = "in" => s \in own) /\ (s \in dir => s \notin busy \/ In(led, s) # {})
                     => (s \in Installed(new) <=> s \in dir \cup own)
    <2>1. new[s]["user"] = IF s \in own THEN "in" ELSE IF led[s]["user"] = "in" THEN "out" ELSE led[s]["user"]
      BY <1>2, <1>4
    <2>2. new[s]["user"] = "in" <=> s \in own
      BY <2>1
    <2>3. s \notin dir => \A x \in Sources \ {"user"} : new[s][x] # "in"
      BY <1>2
    <2>4. s \notin dir => In(new, s) \subseteq {"user"}
      BY <2>3 DEF In
    <2>5. Known(led, s) => Known(new, s)
      BY <1>2 DEF Known
    <2>6. s \in Installed(new) <=> \E x \in Sources : new[s][x] = "in"
      BY <1>3, InstalledHas
    <2>7. ASSUME led[s]["user"] = "in" => s \in own, s \in dir => s \notin busy \/ In(led, s) # {}
          PROVE  s \in Installed(new) <=> s \in dir \cup own
      <3>1. CASE s \in own
        BY <1>4, <2>2, <2>6, <3>1
      <3>2. CASE s \notin dir \cup own
        BY <1>4, <2>2, <2>3, <2>6, <3>2
      <3>3. CASE s \in dir \ own
        <4>1. CASE In(led, s) = {}
          <5>1. new[s]["managed"] = "in"
            BY <1>2, <1>4, <2>7, <3>3, <4>1
          <5> QED
            BY <1>4, <2>6, <3>3, <5>1
        <4>2. CASE In(led, s) # {}
          <5>1. PICK x \in Sources : led[s][x] = "in"
            BY <4>2 DEF In
          <5>2. x # "user"
            BY <2>7, <3>3, <5>1
          <5>3. new[s][x] = "in"
            BY <1>2, <3>3, <5>1, <5>2
          <5> QED
            BY <2>6, <3>3, <5>3
        <4> QED
          BY <4>1, <4>2
      <3> QED
        BY <3>1, <3>2, <3>3
    <2> QED
      BY <2>2, <2>4, <2>5, <2>7
  <1> QED
    BY <1>3, <1>5 DEF new

\* uninstallSkill() takes one directory of the skill away, and turns the row that says which.
LEMMA UninstalledHolds ==
    ASSUME HubTypes, RowsHold, NEW s \in Slugs, NEW source \in Sources \cup {"any"},
           NEW r \in Uninstalled(s, source)
    PROVE  /\ r.dir \in {skillsDir, skillsDir \ {s}} /\ r.own \in {userSkillsDir, userSkillsDir \ {s}}
           /\ r.ledger \in Ledgers
           /\ \A t \in Slugs \ {s} : r.ledger[t] = ledger[t]
           /\ \A t \in Slugs : Known(ledger, t) => Known(r.ledger, t)
           /\ r.ledger[s]["user"] = "in" => s \in r.own
           /\ s \in skillsDir \ r.dir => Known(r.ledger, s)
           /\ r.dir = skillsDir /\ r.own = userSkillsDir => r.ledger = ledger
           /\ s \in r.dir => s \in Personal
           /\ source = "any" /\ r.own = userSkillsDir => r.ledger[s]["user"] = ledger[s]["user"]
  <1> DEFINE rows == In(ledger, s) \cap IF source = "any" THEN Sources ELSE {source}
             Outcome(x, own) ==
                [dir |-> IF own THEN skillsDir ELSE skillsDir \ {s},
                 own |-> IF own THEN userSkillsDir \ {s} ELSE userSkillsDir,
                 ledger |-> IF s \in (IF own THEN userSkillsDir ELSE skillsDir) THEN Row(s, x, "out")
                                                                                 ELSE ledger]
  <1>1. \E x \in Sources :
            \/ x = "user" /\ ledger[s]["user"] = "in" /\ r = Outcome(x, TRUE)
            \/ x # "user" /\ r = Outcome(x, FALSE)
            \/ source # "any" /\ x = source /\ ledger[s][x] # "in" /\ r = Outcome(x, FALSE)
    <2>1. \/ \E x \in rows : r = Outcome(x, x = "user")
          \/ rows = {} /\ r = Outcome(IF source = "any" THEN "managed" ELSE source, FALSE)
      BY Zenon DEF Uninstalled
    <2> HIDE DEF Outcome
    <2>2. CASE \E x \in rows : r = Outcome(x, x = "user")
      <3>1. PICK x \in rows : r = Outcome(x, x = "user")
        BY <2>2
      <3>2. x \in Sources /\ ledger[s][x] = "in"
        BY DEF In
      <3>3. CASE x = "user"
        <4>1. (x = "user") = TRUE
          BY <3>3
        <4> QED
          BY <3>1, <3>2, <3>3, <4>1
      <3>4. CASE x # "user"
        <4>1. (x = "user") = FALSE
          BY <3>4
        <4> QED
          BY <3>1, <3>2, <3>4, <4>1
      <3> QED
        BY <3>3, <3>4
    <2>3. CASE rows = {} /\ r = Outcome(IF source = "any" THEN "managed" ELSE source, FALSE)
      <3>1. CASE source = "any"
        BY <2>3, <3>1 DEF Sources
      <3>2. CASE source # "any"
        <4>1. source \in Sources /\ ledger[s][source] # "in"
          BY <2>3, <3>2 DEF In
        <4> QED
          BY <2>3, <3>2, <4>1
      <3> QED
        BY <3>1, <3>2
    <2> QED
      BY <2>1, <2>2, <2>3
  <1>2. PICK x \in Sources :
            \/ x = "user" /\ ledger[s]["user"] = "in" /\ r = Outcome(x, TRUE)
            \/ x # "user" /\ r = Outcome(x, FALSE)
            \/ source # "any" /\ x = source /\ ledger[s][x] # "in" /\ r = Outcome(x, FALSE)
    BY <1>1
  <1>3. /\ ledger \in Ledgers /\ Row(s, x, "out") \in Ledgers
        /\ \A t \in Slugs, y \in Sources :
              Row(s, x, "out")[t][y] = IF t = s /\ y = x THEN "out" ELSE ledger[t][y]
    BY RowOf DEF HubTypes
  <1>4. \A t \in Slugs \ {s} : Row(s, x, "out")[t] = ledger[t]
    BY DEF Row, HubTypes, Ledgers
  <1>5. \A t \in Slugs : Known(ledger, t) => Known(Row(s, x, "out"), t)
    BY <1>3 DEF Known
  <1>6. Known(Row(s, x, "out"), s)
    BY <1>3 DEF Known
  <1>7. (ledger[s]["user"] = "in" => s \in userSkillsDir) /\ userSkillsDir \subseteq Personal /\ "user" \in Sources
    BY DEF RowsHold, Sources
  <1>8. CASE x = "user" /\ ledger[s]["user"] = "in" /\ r = Outcome(x, TRUE)
    <2>1. /\ r.dir = skillsDir /\ r.own = userSkillsDir \ {s} /\ s \in userSkillsDir
          /\ r.ledger = Row(s, "user", "out")
      BY <1>7, <1>8
    <2> HIDE DEF Outcome
    <2> QED
      BY <1>3, <1>4, <1>5, <1>6, <1>7, <1>8, <2>1
  <1>9. CASE r = Outcome(x, FALSE) /\ (x # "user" \/ (source # "any" /\ ledger[s][x] # "in"))
    <2>1. /\ r.dir = skillsDir \ {s} /\ r.own = userSkillsDir
          /\ r.ledger = IF s \in skillsDir THEN Row(s, x, "out") ELSE ledger
      BY <1>9
    <2> HIDE DEF Outcome
    <2>2. CASE s \in skillsDir
      BY <1>3, <1>4, <1>5, <1>6, <1>7, <1>9, <2>1, <2>2
    <2>3. CASE s \notin skillsDir
      BY <1>3, <1>7, <2>1, <2>3
    <2> QED
      BY <2>2, <2>3
  <1> QED
    BY <1>2, <1>8, <1>9

(***************************************************************************)
(* Steps of the hub that leave the queue as it is.                         *)
(***************************************************************************)

LEMMA HubPartsOf ==
    HInv => /\ IInv /\ Awake /\ HubTypes /\ RowsHold /\ WrittenIsThere /\ LedgerFollowsDisk
            /\ RemovedIsCancelled /\ LedgerIsTold
            /\ Queue(item, pending, active, completed, running, cleaning) /\ Sets
  BY Parts DEF HInv, HubParts

LEMMA QueueUnmoved ==
    ASSUME UNCHANGED vars
    PROVE  UNCHANGED <<item, pending, active, cancelled, running, cleaning, pause, disposed,
                       hadCompletionSinceIdle>>
  BY DEF vars

\* An item written to disk is of a skill the queue is busy with.
LEMMA WrittenIsBusy ==
    ASSUME HInv, NEW id \in running
    PROVE  SlugOf(id) \in Slugs /\ SlugOf(id) \in Busy /\ id \in DOMAIN item
  <1>1. /\ id # None /\ SlugOf(id) \in Slugs /\ active[SlugOf(id)] = id /\ id \in DOMAIN item
    BY HubPartsOf, Working
  <1> QED
    BY <1>1 DEF Busy, InFlight

\* Whether a skill is installed after a notice, and after a step that gave none.
LEMMA NoticeTells == ASSUME Notice(ledger') PROVE LedgerIsTold'
  BY DEF Notice, LedgerIsTold

\* What reconciling the ledger with the directories as they are leaves of the invariant.
LEMMA SyncedLedger ==
    ASSUME HInv, ledger' = Synced, UNCHANGED <<skillsDir, userSkillsDir, item, written>>,
           disturbed' = disturbed \cup LeftAlone
    PROVE  /\ ledger' \in Ledgers
           /\ \A s \in Slugs : /\ ledger'[s]["user"] = "in" <=> s \in userSkillsDir
                               /\ Known(ledger, s) => Known(ledger', s)
           /\ \A s \in Slugs \ disturbed' :
                  s \in Installed(ledger') <=> s \in skillsDir \cup userSkillsDir
           /\ LedgerFollowsDisk'
  <1>0. HubTypes /\ RowsHold
    BY HubPartsOf
  <1>1. /\ ledger' \in Ledgers
        /\ \A s \in Slugs :
              /\ ledger'[s]["user"] = "in" <=> s \in userSkillsDir
              /\ s \notin skillsDir => In(ledger', s) \subseteq {"user"}
              /\ Known(ledger, s) => Known(ledger', s)
              /\ /\ ledger[s]["user"] = "in" => s \in userSkillsDir
                 /\ s \in skillsDir => s \notin Busy \/ In(ledger, s) # {}
                 => (s \in Installed(ledger') <=> s \in skillsDir \cup userSkillsDir)
    BY <1>0, SyncNowHolds DEF Synced, HubTypes
  <1>2. \A s \in Slugs \ disturbed' : s \in Installed(ledger') <=> s \in skillsDir \cup userSkillsDir
    BY <1>0, <1>1 DEF LeftAlone, RowsHold, Installed
  <1>3. \A id \in written : SlugOf(id) \in Slugs
    BY <1>0, WrittenIsBusy DEF HubTypes
  <1>4. LedgerFollowsDisk'
    BY <1>1, <1>2, <1>3 DEF LedgerFollowsDisk, SlugOf
  <1> QED
    BY <1>1, <1>2, <1>4

LEMMA SyncFiresKeeps == ASSUME HInv, curating = {}, SyncFires PROVE HubParts'
  <1>0. /\ HubTypes /\ RowsHold /\ WrittenIsThere /\ RemovedIsCancelled /\ LedgerIsTold
    BY HubPartsOf
  <1>1. /\ sync' = FALSE /\ ledger' = Synced /\ disturbed' = disturbed \cup LeftAlone
        /\ IF SyncChanges THEN Notice(ledger') ELSE UNCHANGED told
        /\ UNCHANGED <<item, pending, cancelled, running, disposed, hadCompletionSinceIdle,
                       boot, skillsDir, userSkillsDir, written, importing, curating, events,
                       removed, missed>>
    BY QueueUnmoved DEF SyncFires, disks
  <1>2. /\ ledger' \in Ledgers /\ LedgerFollowsDisk'
        /\ \A s \in Slugs : /\ ledger'[s]["user"] = "in" <=> s \in userSkillsDir
                            /\ Known(ledger, s) => Known(ledger', s)
    BY <1>1, SyncedLedger
  <1>3. HubTypes'
    BY <1>0, <1>1, <1>2 DEF HubTypes, LeftAlone, Notice, Installed
  <1>4. RowsHold'
    BY <1>0, <1>1, <1>2 DEF RowsHold, HubTypes
  <1>5. WrittenIsThere' /\ RemovedIsCancelled'
    BY <1>0, <1>1 DEF WrittenIsThere, RemovedIsCancelled, SlugOf, IsPending
  <1>6. LedgerIsTold'
    <2>1. CASE SyncChanges
      BY <1>1, <2>1, NoticeTells
    <2>2. CASE ~SyncChanges
      BY <1>0, <1>1, <2>2 DEF SyncChanges, LedgerIsTold
    <2> QED
      BY <2>1, <2>2
  <1> QED
    BY <1>2, <1>3, <1>4, <1>5, <1>6 DEF HubParts

LEMMA BotsReadKeeps == ASSUME HInv, curating = {}, BotsRead PROVE HubParts'
  <1>0. /\ HubTypes /\ RowsHold /\ WrittenIsThere /\ RemovedIsCancelled /\ LedgerIsTold
    BY HubPartsOf
  <1>1. /\ boot = "starting" /\ boot' = "started"
        /\ ledger' = Synced /\ disturbed' = disturbed \cup LeftAlone /\ Unsaid
        /\ UNCHANGED <<item, pending, cancelled, running, disposed, hadCompletionSinceIdle,
                       skillsDir, userSkillsDir, written, importing, curating, sync, events,
                       removed>>
    BY QueueUnmoved DEF BotsRead, disks
  <1>2. /\ ledger' \in Ledgers /\ LedgerFollowsDisk'
        /\ \A s \in Slugs : /\ ledger'[s]["user"] = "in" <=> s \in userSkillsDir
                            /\ Known(ledger, s) => Known(ledger', s)
    BY <1>1, SyncedLedger
  <1>3. HubTypes'
    BY <1>0, <1>1, <1>2 DEF HubTypes, LeftAlone, Unsaid
  <1>4. RowsHold'
    BY <1>0, <1>1, <1>2 DEF RowsHold, HubTypes
  <1>5. WrittenIsThere' /\ RemovedIsCancelled'
    BY <1>0, <1>1 DEF WrittenIsThere, RemovedIsCancelled, SlugOf, IsPending
  <1>6. LedgerIsTold'
    <2>1. ASSUME NEW s \in Slugs \ (missed' \cup disturbed')
          PROVE  s \in Installed(ledger) <=> s \in Installed(ledger')
      BY <1>1 DEF Unsaid
    <2> QED
      BY <1>0, <1>1, <2>1 DEF LedgerIsTold, Unsaid
  <1> QED
    BY <1>2, <1>3, <1>4, <1>5, <1>6 DEF HubParts

\* The bundled skills that are copied are new to the ledger: none of them was removed.
LEMMA InitializeKeeps ==
    ASSUME HInv, Initialize, ~disposed, boot' \in {"bootstrapped", "starting"}
    PROVE  /\ ledger' \in Ledgers /\ skillsDir' \subseteq Slugs /\ curating' \subseteq Slugs
           /\ disturbed' \subseteq Slugs
           /\ RowsHold' /\ WrittenIsThere' /\ LedgerFollowsDisk' /\ RemovedIsCancelled'
           /\ UNCHANGED <<running, userSkillsDir, written, importing, sync, events, removed,
                          hadCompletionSinceIdle>>
  <1>0. /\ HubTypes /\ RowsHold /\ WrittenIsThere /\ RemovedIsCancelled
    BY HubPartsOf
  <1> DEFINE copied == (Bundled \cap UnknownTo(Synced)) \ skillsDir
  <1>1. /\ skillsDir' = skillsDir \cup copied
        /\ ledger' = [s \in Slugs |-> IF s \in copied THEN [Synced[s] EXCEPT !["managed"] = "in"]
                                                      ELSE Synced[s]]
        /\ curating' = Curated \cap UnknownTo(ledger') /\ disturbed' = disturbed \cup LeftAlone
        /\ UNCHANGED <<item, pending, cancelled, running, disposed, hadCompletionSinceIdle,
                       userSkillsDir, written, importing, sync, events, removed>>
    BY QueueUnmoved, Zenon DEF Initialize
  <1>2. /\ Synced \in Ledgers
        /\ \A s \in Slugs : /\ Synced[s]["user"] = "in" <=> s \in userSkillsDir
                            /\ Known(ledger, s) => Known(Synced, s)
    BY <1>0, SyncNowHolds DEF Synced, HubTypes
  <1>3. copied \subseteq Slugs /\ \A s \in copied : ~Known(Synced, s)
    BY <1>2, UnknownIsNotKnown DEF UnknownTo
  <1> HIDE DEF copied
  <1>4. /\ ledger' \in Ledgers
        /\ \A s \in Slugs, x \in Sources :
              ledger'[s][x] = IF s \in copied /\ x = "managed" THEN "in" ELSE Synced[s][x]
    BY <1>1, <1>2 DEF Ledgers
  <1>5. \A s \in Slugs : /\ ledger'[s]["user"] = "in" <=> s \in userSkillsDir
                         /\ Known(Synced, s) => Known(ledger', s)
    BY <1>2, <1>4 DEF Known, Sources
  <1>6. curating' \subseteq Slugs /\ \A s \in curating' : ~Known(ledger', s)
    BY <1>1, <1>4, UnknownIsNotKnown DEF UnknownTo
  <1>7. RowsHold'
    BY <1>0, <1>1, <1>2, <1>5, <1>6 DEF RowsHold, HubTypes
  <1>8. WrittenIsThere'
    BY <1>0, <1>1 DEF WrittenIsThere, SlugOf
  <1>9. \A s \in copied : s \notin removed
    BY <1>0, <1>2, <1>3 DEF RowsHold
  <1>10. RemovedIsCancelled'
    BY <1>0, <1>1, <1>9 DEF RemovedIsCancelled, SlugOf, IsPending
  <1>11. LedgerFollowsDisk'
    BY DEF LedgerFollowsDisk
  <1>12. skillsDir' \subseteq Slugs /\ disturbed' \subseteq Slugs
    BY <1>0, <1>1, <1>3 DEF HubTypes, LeftAlone
  <1> QED
    BY <1>1, <1>4, <1>6, <1>7, <1>8, <1>10, <1>11, <1>12

LEMMA StartKeeps == ASSUME HInv, curating = {}, Bootstrap \/ StartWatching PROVE HubParts'
  <1>0. HubTypes /\ RowsHold /\ LedgerIsTold
    BY HubPartsOf
  <1>1. Initialize /\ ~disposed /\ boot' \in {"bootstrapped", "starting"}
    BY <1>0 DEF Bootstrap, StartWatching, RowsHold
  <1>2. /\ ledger' \in Ledgers /\ skillsDir' \subseteq Slugs /\ curating' \subseteq Slugs
        /\ disturbed' \subseteq Slugs
        /\ RowsHold' /\ WrittenIsThere' /\ LedgerFollowsDisk' /\ RemovedIsCancelled'
        /\ UNCHANGED <<running, userSkillsDir, written, importing, sync, events, removed,
                       hadCompletionSinceIdle>>
    BY <1>1, InitializeKeeps
  <1>3. told' \subseteq Slugs /\ missed' \subseteq Slugs
    BY <1>0 DEF Bootstrap, StartWatching, Notice, Installed, Unsaid, HubTypes
  <1>4. HubTypes'
    BY <1>0, <1>1, <1>2, <1>3 DEF HubTypes
  <1>5. LedgerIsTold'
    <2>1. CASE Bootstrap
      BY <2>1, NoticeTells DEF Bootstrap
    <2>2. CASE StartWatching
      <3>1. /\ boot = "bootstrapped" /\ UNCHANGED told /\ disturbed \subseteq disturbed'
            /\ missed \subseteq missed'
        BY <2>2 DEF StartWatching, Unsaid, Initialize
      <3>2. ASSUME NEW s \in Slugs \ (missed' \cup disturbed')
            PROVE  s \in Installed(ledger) <=> s \in Installed(ledger')
        BY <2>2 DEF StartWatching, Unsaid
      <3> QED
        BY <1>0, <1>2, <3>1, <3>2 DEF LedgerIsTold
    <2> QED
      BY <2>1, <2>2 DEF Bootstrap, StartWatching
  <1> QED
    BY <1>2, <1>4, <1>5 DEF HubParts

LEMMA ImportKeeps == ASSUME HInv, curating = {}, NEW s \in Slugs, Import(s) PROVE HubParts'
  <1>0. /\ HubTypes /\ RowsHold /\ WrittenIsThere /\ RemovedIsCancelled /\ LedgerIsTold
    BY HubPartsOf
  <1>1. /\ importing' = s /\ events < MaxEvents /\ events' = events + 1
        /\ skillsDir' = skillsDir \cup {s} /\ Touched /\ removed' = removed \ {s}
        /\ UNCHANGED <<item, pending, cancelled, running, disposed, hadCompletionSinceIdle, boot,
                       userSkillsDir, written, ledger, curating, told, missed, disturbed>>
    BY QueueUnmoved DEF Import
  <1>2. HubTypes'
    BY <1>0, <1>1, HubConstants DEF HubTypes, Touched
  <1>3. RowsHold' /\ WrittenIsThere' /\ RemovedIsCancelled' /\ LedgerIsTold'
    BY <1>0, <1>1 DEF RowsHold, WrittenIsThere, RemovedIsCancelled, LedgerIsTold, SlugOf, IsPending
  <1>4. LedgerFollowsDisk'
    BY <1>1 DEF LedgerFollowsDisk, Touched
  <1> QED
    BY <1>2, <1>3, <1>4 DEF HubParts

LEMMA ImportSucceedsKeeps == ASSUME HInv, curating = {}, ImportSucceeds PROVE HubParts'
  <1>0. /\ HubTypes /\ RowsHold /\ WrittenIsThere /\ RemovedIsCancelled /\ LedgerIsTold
        /\ LedgerFollowsDisk
    BY HubPartsOf
  <1>1. /\ importing \in skillsDir /\ ledger' = Row(importing, "custom", "in") /\ Notice(ledger')
        /\ importing' = None
        /\ UNCHANGED <<item, pending, cancelled, running, disposed, hadCompletionSinceIdle, boot,
                       skillsDir, userSkillsDir, written, curating, sync, events, removed, missed,
                       disturbed>>
    BY QueueUnmoved DEF ImportSucceeds, disks
  <1>2. /\ importing \in Slugs /\ "custom" \in Sources /\ "user" \in Sources
    BY <1>0, <1>1 DEF HubTypes, Sources
  <1>3. /\ ledger' \in Ledgers
        /\ \A t \in Slugs, y \in Sources :
              ledger'[t][y] = IF t = importing /\ y = "custom" THEN "in" ELSE ledger[t][y]
    BY <1>0, <1>1, <1>2, RowOf DEF HubTypes
  <1>4. HubTypes'
    BY <1>0, <1>1, <1>3 DEF HubTypes, Notice, Installed
  <1>5. RowsHold'
    BY <1>0, <1>1, <1>2, <1>3 DEF RowsHold, Known, HubTypes
  <1>6. WrittenIsThere' /\ RemovedIsCancelled'
    BY <1>0, <1>1 DEF WrittenIsThere, RemovedIsCancelled, SlugOf, IsPending
  <1>7. /\ importing \in Installed(ledger')
        /\ \A t \in Slugs \ {importing} : /\ t \in Installed(ledger') <=> t \in Installed(ledger)
                                          /\ In(ledger', t) = In(ledger, t)
    BY <1>2, <1>3 DEF Installed, In
  <1>8. LedgerFollowsDisk'
    <2>1. \A id \in written : SlugOf(id) \in Slugs
      BY <1>0, WrittenIsBusy DEF HubTypes
    <2> QED
      BY <1>0, <1>1, <1>7, <2>1 DEF LedgerFollowsDisk, SlugOf
  <1> QED
    BY <1>1, <1>4, <1>5, <1>6, <1>8, NoticeTells DEF HubParts

LEMMA ImportFailsKeeps == ASSUME HInv, curating = {}, ImportFails PROVE HubParts'
  <1>0. /\ HubTypes /\ RowsHold /\ WrittenIsThere /\ RemovedIsCancelled /\ LedgerIsTold
    BY HubPartsOf
  <1>1. /\ importing # None /\ skillsDir' = skillsDir \ {importing} /\ Touched
        /\ disturbed' = disturbed \cup (Busy \cap {importing}) /\ importing' = None
        /\ UNCHANGED <<item, pending, cancelled, running, disposed, hadCompletionSinceIdle, boot,
                       userSkillsDir, written, ledger, curating, told, events, removed, missed>>
    BY QueueUnmoved DEF ImportFails
  <1>2. HubTypes'
    BY <1>0, <1>1 DEF HubTypes, Touched
  <1>3. RowsHold' /\ LedgerIsTold' /\ RemovedIsCancelled'
    BY <1>0, <1>1 DEF RowsHold, RemovedIsCancelled, LedgerIsTold, SlugOf, IsPending
  <1>4. WrittenIsThere'
    <2>1. \A id \in written : SlugOf(id) \in Busy
      BY <1>0, WrittenIsBusy DEF HubTypes
    <2> QED
      BY <1>0, <1>1, <2>1 DEF WrittenIsThere, SlugOf
  <1>5. LedgerFollowsDisk'
    BY <1>1 DEF LedgerFollowsDisk, Touched
  <1> QED
    BY <1>2, <1>3, <1>4, <1>5 DEF HubParts

LEMMA OutsideKeeps == ASSUME HInv, curating = {}, NEW s \in Slugs, Outside(s) PROVE HubParts'
  <1>0. /\ HubTypes /\ RowsHold /\ WrittenIsThere /\ RemovedIsCancelled /\ LedgerIsTold
    BY HubPartsOf
  <1>1. /\ events < MaxEvents /\ events' = events + 1 /\ Touched
        /\ skillsDir' = IF s \in skillsDir THEN skillsDir \ {s} ELSE skillsDir \cup {s}
        /\ removed' = removed \ {s} /\ disturbed' = disturbed \cup (Busy \cap {s})
        /\ UNCHANGED <<item, pending, cancelled, running, disposed, hadCompletionSinceIdle, boot,
                       userSkillsDir, written, ledger, importing, curating, told, missed>>
    BY QueueUnmoved DEF Outside
  <1>2. HubTypes'
    BY <1>0, <1>1, HubConstants DEF HubTypes, Touched
  <1>3. RowsHold' /\ LedgerIsTold' /\ RemovedIsCancelled'
    BY <1>0, <1>1 DEF RowsHold, RemovedIsCancelled, LedgerIsTold, SlugOf, IsPending
  <1>4. WrittenIsThere'
    <2>1. \A id \in written : SlugOf(id) \in Busy
      BY <1>0, WrittenIsBusy DEF HubTypes
    <2> QED
      BY <1>0, <1>1, <2>1 DEF WrittenIsThere, SlugOf
  <1>5. LedgerFollowsDisk'
    BY <1>1 DEF LedgerFollowsDisk, Touched
  <1> QED
    BY <1>2, <1>3, <1>4, <1>5 DEF HubParts

LEMMA ExecutorWritesKeeps == ASSUME HInv, curating = {}, NEW id, ExecutorWrites(id) PROVE HubParts'
  <1>0. /\ HubTypes /\ RowsHold /\ WrittenIsThere /\ RemovedIsCancelled /\ LedgerIsTold
    BY HubPartsOf
  <1>1. /\ id \in running /\ written' = written \cup {id} /\ Touched
        /\ skillsDir' = skillsDir \cup {SlugOf(id)}
        /\ UNCHANGED <<item, pending, cancelled, running, disposed, hadCompletionSinceIdle, boot,
                       userSkillsDir, ledger, importing, curating, told, events, removed, missed,
                       disturbed>>
    BY QueueUnmoved DEF ExecutorWrites, past
  <1>2. SlugOf(id) \in Slugs /\ (SlugOf(id) \in removed => SlugOf(id) \in cancelled)
    BY <1>0, <1>1, WrittenIsBusy DEF RemovedIsCancelled
  <1>3. HubTypes'
    BY <1>0, <1>1, <1>2 DEF HubTypes, Touched
  <1>4. RowsHold' /\ LedgerIsTold' /\ WrittenIsThere'
    BY <1>0, <1>1 DEF RowsHold, WrittenIsThere, LedgerIsTold, SlugOf
  <1>5. RemovedIsCancelled'
    BY <1>0, <1>1, <1>2 DEF RemovedIsCancelled, SlugOf, IsPending
  <1>6. LedgerFollowsDisk'
    BY <1>1 DEF LedgerFollowsDisk, Touched
  <1> QED
    BY <1>3, <1>4, <1>5, <1>6 DEF HubParts

(***************************************************************************)
(* Steps of the queue under the hub.                                       *)
(***************************************************************************)

\* The queue moves and nothing else does, but for what the user asks for again, a notice, and
\* the stop.
LEMMA QueueStepKeeps ==
    ASSUME HInv, NEW s, Moves(s), s \notin removed', removed' \subseteq removed,
           UNCHANGED <<skillsDir, userSkillsDir, written, ledger, importing, events, missed, disturbed>>,
           cancelled \subseteq cancelled', written \subseteq running', curating' \subseteq curating,
           \/ boot' = boot /\ sync' = sync /\ disposed' = disposed
           \/ boot' = "stopping" /\ sync' = FALSE,
           told' \subseteq Slugs,
           \/ told' = Installed(ledger) \/ hadCompletionSinceIdle'
           \/ told' = told /\ hadCompletionSinceIdle' = hadCompletionSinceIdle /\ boot # "served"
           \/ told' = told /\ hadCompletionSinceIdle' = hadCompletionSinceIdle /\ boot' = boot
    PROVE  HubParts'
  <1>0. /\ HubTypes /\ RowsHold /\ WrittenIsThere /\ RemovedIsCancelled /\ LedgerIsTold
        /\ LedgerFollowsDisk
    BY HubPartsOf
  <1>1. \A id \in written : item'[id].slug = SlugOf(id) /\ SlugOf(id) \in Slugs
    BY <1>0, WrittenIsBusy DEF Moves, HubTypes
  <1>2. HubTypes'
    BY <1>0 DEF HubTypes
  <1>3. RowsHold'
    BY <1>0 DEF RowsHold
  <1>4. WrittenIsThere'
    BY <1>0, <1>1 DEF WrittenIsThere, SlugOf
  <1>5. LedgerFollowsDisk'
    BY <1>0, <1>1 DEF LedgerFollowsDisk, SlugOf
  <1>6. RemovedIsCancelled'
    <2>1. ASSUME NEW t \in (skillsDir \cap removed') \ (disturbed \cup Personal)
          PROVE  t \in cancelled' /\ \E id \in written : item'[id].slug = t
      BY <1>0, <1>1 DEF RemovedIsCancelled
    <2>2. ASSUME NEW id, id \in running' \/ IsPending(id)', item'[id].slug \in removed'
          PROVE  item'[id].slug \in cancelled'
      <3>1. id \in running \/ IsPending(id)
        BY <2>2 DEF Moves
      <3>2. id \in DOMAIN item
        BY <1>0, <3>1, HubPartsOf DEF Queue, Lists, Slots, IsPending
      <3>3. item'[id].slug = SlugOf(id)
        BY <3>2 DEF Moves
      <3> QED
        BY <1>0, <2>2, <3>1, <3>3 DEF RemovedIsCancelled
    <2> QED
      BY <2>1, <2>2 DEF RemovedIsCancelled, SlugOf
  <1>7. LedgerIsTold'
    BY <1>0 DEF LedgerIsTold
  <1> QED
    BY <1>2, <1>3, <1>4, <1>5, <1>6, <1>7 DEF HubParts

\* The notice of a drain(): given, owed, or not due.
LEMMA IdleNoticeTells ==
    ASSUME told \subseteq Slugs, hadCompletionSinceIdle' => hadCompletionSinceIdle,
           Sets, Sets', IdleNotice(hadCompletionSinceIdle, ledger)
    PROVE  /\ told' \subseteq Slugs
           /\ \/ told' = Installed(ledger) \/ hadCompletionSinceIdle'
              \/ told' = told /\ hadCompletionSinceIdle' = hadCompletionSinceIdle
  BY DEF IdleNotice, Notice, Installed, Sets

\* What drain() leaves running, and owing.
LEMMA DrainLeaves ==
    ASSUME NEW items, NEW pend, NEW act, NEW run, NEW had, Drain(items, pend, act, run, had)
    PROVE  run \subseteq running' /\ (hadCompletionSinceIdle' => had)
  BY Zenon DEF Drain

LEMMA EnqueueInHub ==
    ASSUME HInv, NEW s \in Slugs, Enqueue(s), IdleNotice(hadCompletionSinceIdle, ledger),
           s \notin removed', removed' \subseteq removed, curating' \subseteq curating,
           UNCHANGED <<boot, skillsDir, userSkillsDir, written, ledger, importing, sync, events,
                       missed, disturbed>>
    PROVE  HubParts'
  <1>0. IInv /\ Awake /\ HubTypes /\ Sets
    BY HubPartsOf
  <1>1. Moves(s) /\ IInv'
    BY <1>0, EnqueueWakes, EnqueueKeeps
  <1>2. Sets'
    BY <1>1, Parts, PTL
  <1>3. /\ Drain(Append(item, [slug |-> s, status |-> "queued", retries |-> 0]),
                 Append(pending, Len(item) + 1), active, running, hadCompletionSinceIdle)
        /\ cancelled' = cancelled /\ disposed' = disposed
    BY Zenon DEF Enqueue
  <1>4. running \subseteq running' /\ (hadCompletionSinceIdle' => hadCompletionSinceIdle)
    BY <1>3, DrainLeaves
  <1>5. /\ told' \subseteq Slugs
        /\ \/ told' = Installed(ledger) \/ hadCompletionSinceIdle'
           \/ told' = told /\ hadCompletionSinceIdle' = hadCompletionSinceIdle
    BY <1>0, <1>2, <1>4, IdleNoticeTells DEF HubTypes
  <1>6. written \subseteq running'
    BY <1>0, <1>4 DEF HubTypes
  <1> QED
    BY <1>1, <1>3, <1>5, <1>6, QueueStepKeeps

LEMMA EnqueueInstallKeeps ==
    ASSUME HInv, curating = {}, NEW s \in Slugs, EnqueueInstall(s) PROVE HubParts'
  BY EnqueueInHub DEF EnqueueInstall, disks

LEMMA StutterKeeps ==
    ASSUME HInv, UNCHANGED <<vars, boot, disks, ledger, importing, sync, told, events, past>>,
           curating' \subseteq curating
    PROVE  HubParts'
  <1>1. UNCHANGED <<item, pending, active, cancelled, running, cleaning, pause, disposed,
                    hadCompletionSinceIdle, boot, skillsDir, userSkillsDir, written, ledger,
                    importing, sync, told, events, removed, missed, disturbed>>
    BY QueueUnmoved DEF disks, past
  <1>2. Moves(None)
    BY <1>1 DEF Moves, SlugOf, IsPending
  <1>3. HubTypes /\ None \notin removed
    BY HubPartsOf, HubConstants DEF HubTypes
  <1> QED
    BY <1>1, <1>2, <1>3, QueueStepKeeps DEF HubTypes

LEMMA EnqueueCuratedKeeps == ASSUME HInv, NEW s \in Slugs, EnqueueCurated(s) PROVE HubParts'
  <1>1. /\ s \in curating /\ curating' \subseteq curating
        /\ UNCHANGED <<boot, skillsDir, userSkillsDir, written, ledger, importing, sync, events,
                       removed, missed, disturbed>>
    BY DEF EnqueueCurated, disks, past
  <1>2. s \notin removed
    BY <1>1, HubPartsOf DEF RowsHold
  <1>3. CASE Enqueue(s) /\ IdleNotice(hadCompletionSinceIdle, ledger)
    BY <1>1, <1>2, <1>3, EnqueueInHub
  <1>4. CASE UNCHANGED <<vars, told>>
    BY <1>1, <1>4, StutterKeeps DEF disks, past
  <1> QED
    BY <1>3, <1>4 DEF EnqueueCurated

LEMMA CancelInHub ==
    ASSUME NEW s \in Slugs, Cancel(s)
    PROVE  /\ cancelled \subseteq cancelled'
           /\ UNCHANGED <<running, disposed, hadCompletionSinceIdle>>
  BY Zenon DEF Cancel, CancelPending, CancelActive, DismissFailed

LEMMA CancelInstallKeeps == ASSUME HInv, curating = {}, NEW s \in Slugs, CancelInstall(s) PROVE HubParts'
  <1>0. IInv /\ Awake /\ HubTypes
    BY HubPartsOf
  <1>1. /\ Cancel(s)
        /\ UNCHANGED <<boot, skillsDir, userSkillsDir, written, ledger, importing, curating, sync,
                       told, events, removed, missed, disturbed>>
    BY DEF CancelInstall, hub, disks, past
  <1>2. Moves(None) /\ None \notin removed
    BY <1>0, <1>1, CancelWakes, HubConstants DEF HubTypes
  <1>3. cancelled \subseteq cancelled' /\ UNCHANGED <<running, disposed, hadCompletionSinceIdle>>
    BY <1>1, CancelInHub
  <1> QED
    BY <1>0, <1>1, <1>2, <1>3, QueueStepKeeps DEF HubTypes

LEMMA QueueGoesOnKeeps == ASSUME HInv, curating = {}, QueueGoesOn PROVE HubParts'
  <1>0. IInv /\ Awake /\ HubTypes /\ Sets
    BY HubPartsOf
  <1>1. /\ PauseTimer \/ \E id \in Ids : Cleaned(id)
        /\ IdleNotice(hadCompletionSinceIdle, ledger)
        /\ UNCHANGED <<boot, skillsDir, userSkillsDir, written, ledger, importing, curating, sync,
                       events, removed, missed, disturbed>>
    BY DEF QueueGoesOn, disks, past
  <1>2. Moves(None) /\ None \notin removed /\ IInv'
    BY <1>0, <1>1, TimerWakes, EndWakes, PauseTimerKeeps, CleanedKeeps, HubConstants DEF HubTypes
  <1>3. Sets'
    BY <1>2, Parts, PTL
  <1>4. /\ \/ Drain(item, pending, active, running, hadCompletionSinceIdle)
           \/ \E id \in Ids : Drain(With(id, "failed"), pending, Freed(id), running, hadCompletionSinceIdle)
        /\ cancelled' = cancelled /\ disposed' = disposed
    BY <1>1, Zenon DEF PauseTimer, Cleaned
  <1>5. running \subseteq running' /\ (hadCompletionSinceIdle' => hadCompletionSinceIdle)
    BY <1>4, DrainLeaves
  <1>6. /\ told' \subseteq Slugs
        /\ \/ told' = Installed(ledger) \/ hadCompletionSinceIdle'
           \/ told' = told /\ hadCompletionSinceIdle' = hadCompletionSinceIdle
    BY <1>0, <1>1, <1>3, <1>5, IdleNoticeTells DEF HubTypes
  <1>7. written \subseteq running'
    BY <1>0, <1>5 DEF HubTypes
  <1> QED
    BY <1>1, <1>2, <1>4, <1>6, <1>7, QueueStepKeeps

LEMMA TimePassesKeeps == ASSUME HInv, curating = {}, TimePasses PROVE HubParts'
  <1>0. IInv /\ Awake /\ HubTypes
    BY HubPartsOf
  <1>1. /\ PauseElapses \/ \E id \in Ids : CleanupTimer(id)
        /\ UNCHANGED <<boot, skillsDir, userSkillsDir, written, ledger, importing, curating, sync,
                       told, events, removed, missed, disturbed>>
    BY DEF TimePasses, hub, disks, past
  <1>2. Moves(None) /\ None \notin removed
    BY <1>0, <1>1, TimerWakes, HubConstants DEF HubTypes
  <1>3. UNCHANGED <<cancelled, running, disposed, hadCompletionSinceIdle>>
    BY <1>1, Zenon DEF PauseElapses, CleanupTimer
  <1> QED
    BY <1>0, <1>1, <1>2, <1>3, QueueStepKeeps DEF HubTypes

LEMMA StopKeeps == ASSUME HInv, curating = {}, Stop PROVE HubParts'
  <1>0. IInv /\ Awake /\ HubTypes
    BY HubPartsOf
  <1>1. /\ boot \in {"starting", "started"} /\ boot' = "stopping" /\ Dispose /\ sync' = FALSE
        /\ UNCHANGED <<skillsDir, userSkillsDir, written, ledger, importing, curating, told, events,
                       removed, missed, disturbed>>
    BY DEF Stop, disks, past
  <1>2. Moves(None) /\ None \notin removed
    BY <1>0, <1>1, TimerWakes, HubConstants DEF HubTypes
  <1>3. UNCHANGED <<cancelled, running, hadCompletionSinceIdle>>
    BY <1>1, Zenon DEF Dispose
  <1> QED
    BY <1>0, <1>1, <1>2, <1>3, QueueStepKeeps DEF HubTypes

\* Two items at work are of two skills.
LEMMA AloneAtWork ==
    ASSUME HInv, NEW id \in running, NEW other, other \in running \/ IsPending(other),
           SlugOf(other) = SlugOf(id)
    PROVE  other = id
  <1>1. Queue(item, pending, active, completed, running, cleaning)
    BY HubPartsOf
  <1>2. CASE other \in running
    BY <1>1, <1>2, Working
  <1>3. CASE IsPending(other)
    BY <1>1, <1>3, Working DEF IsPending
  <1> QED
    BY <1>2, <1>3

\* Items at work are known, and so are their slugs after the step.
LEMMA WorkKeepsSlugs ==
    ASSUME HInv, NEW s, Moves(s)
    PROVE  /\ \A id : id \in running \/ IsPending(id) => id \in DOMAIN item /\ item'[id].slug = SlugOf(id)
           /\ s = None => \A id : id \in running' \/ IsPending(id)' =>
                 \/ id \in running \/ IsPending(id)
                 \/ item'[id].slug = None
  <1>1. \A id : id \in running \/ IsPending(id) => id \in DOMAIN item
    BY HubPartsOf DEF Queue, Lists, Slots, IsPending
  <1> QED
    BY <1>1 DEF Moves

LEMMA InstallSucceedsKeeps == ASSUME HInv, curating = {}, NEW id, InstallSucceeds(id) PROVE HubParts'
  <1>0. /\ IInv /\ Awake /\ HubTypes /\ RowsHold /\ WrittenIsThere /\ RemovedIsCancelled
        /\ LedgerIsTold /\ LedgerFollowsDisk /\ Sets
    BY HubPartsOf
  <1> DEFINE s == SlugOf(id)
  <1>1. /\ id \in written /\ Succeeds(id)
        /\ ledger' = Row(s, "managed", "in") /\ IdleNotice(TRUE, ledger')
        /\ disturbed' = disturbed \ ({s} \cap skillsDir) /\ written' = written \ {id}
        /\ UNCHANGED <<boot, skillsDir, userSkillsDir, importing, curating, sync, events, removed,
                       missed>>
    BY DEF InstallSucceeds
  <1>2. /\ id \in running /\ s \notin cancelled /\ cancelled' = cancelled /\ disposed' = disposed
        /\ running \ {id} \subseteq running'
    BY <1>1, DrainLeaves, Zenon DEF Succeeds
  <1>3. Moves(None) /\ s \in Slugs /\ "managed" \in Sources /\ "user" \in Sources
    BY <1>0, <1>1, <1>2, EndWakes, WrittenIsBusy DEF Sources
  <1>4. /\ \A j : j \in running \/ IsPending(j) => item'[j].slug = SlugOf(j)
        /\ \A j : j \in running' \/ IsPending(j)' =>
              j \in running \/ IsPending(j) \/ item'[j].slug = None
    BY <1>3, WorkKeepsSlugs
  <1>5. /\ ledger' \in Ledgers
        /\ \A t \in Slugs, y \in Sources :
              ledger'[t][y] = IF t = s /\ y = "managed" THEN "in" ELSE ledger[t][y]
    BY <1>0, <1>1, <1>3, RowOf DEF HubTypes
  <1> HIDE DEF s
  <1>6. HubTypes'
    <2>1. told' \subseteq Slugs
      BY <1>0, <1>1 DEF HubTypes, IdleNotice, Notice, Installed
    <2> QED
      BY <1>0, <1>1, <1>2, <1>5, <2>1 DEF HubTypes
  <1>7. RowsHold'
    BY <1>0, <1>1, <1>2, <1>3, <1>5 DEF RowsHold, Known, HubTypes
  <1>8. \A j \in written' : j \in running /\ j # id /\ item'[j].slug = SlugOf(j) /\ SlugOf(j) # s
                            /\ SlugOf(j) \in Slugs
    BY <1>0, <1>1, <1>2, <1>4, AloneAtWork, WrittenIsBusy DEF HubTypes, s
  <1>9. WrittenIsThere'
    BY <1>0, <1>1, <1>2, <1>8 DEF WrittenIsThere, SlugOf
  <1>10. /\ s \in Installed(ledger')
         /\ \A t \in Slugs \ {s} : /\ t \in Installed(ledger') <=> t \in Installed(ledger)
                                   /\ In(ledger', t) = In(ledger, t)
    BY <1>3, <1>5 DEF Installed, In
  <1>11. LedgerFollowsDisk'
    <2> SUFFICES ASSUME boot = "started", ~sync
                 PROVE  /\ \A t \in Slugs \ disturbed' :
                              t \in Installed(ledger') <=> t \in skillsDir \cup userSkillsDir
                        /\ \A j \in written' : item'[j].slug \notin skillsDir =>
                              In(ledger', item'[j].slug) \subseteq {"user"}
      BY <1>1, Zenon DEF LedgerFollowsDisk, SlugOf
    <2>1. s \in skillsDir \cup disturbed
      BY <1>0, <1>1, <1>2 DEF WrittenIsThere, s
    <2>2. \A t \in Slugs \ disturbed' : t \in Installed(ledger') <=> t \in skillsDir \cup userSkillsDir
      BY <1>0, <1>1, <1>10, <2>1 DEF LedgerFollowsDisk
    <2>3. \A j \in written' : SlugOf(j) \notin skillsDir => In(ledger', SlugOf(j)) \subseteq {"user"}
      BY <1>0, <1>1, <1>8, <1>10 DEF LedgerFollowsDisk
    <2> QED
      BY <1>8, <2>2, <2>3
  <1>12. RemovedIsCancelled'
    <2>1. s \notin removed
      BY <1>0, <1>2 DEF RemovedIsCancelled, s
    <2>2. ASSUME NEW t \in (skillsDir \cap removed) \ (disturbed' \cup Personal)
          PROVE  t \in cancelled /\ \E j \in written' : item'[j].slug = t
      <3>1. t \notin disturbed
        BY <1>1, <2>1, <2>2
      <3>2. t \in cancelled /\ \E j \in written : SlugOf(j) = t
        BY <1>0, <2>2, <3>1 DEF RemovedIsCancelled
      <3> QED
        BY <1>1, <1>2, <1>8, <2>1, <2>2, <3>2 DEF s
    <2>3. \A j : (j \in running' \/ IsPending(j)') /\ item'[j].slug \in removed => item'[j].slug \in cancelled
      BY <1>0, <1>4, HubConstants DEF RemovedIsCancelled, HubTypes
    <2> QED
      BY <1>1, <1>2, <2>2, <2>3 DEF RemovedIsCancelled, SlugOf
  <1>13. LedgerIsTold'
    <2>1. told' = Installed(ledger') \/ hadCompletionSinceIdle'
      BY <1>1 DEF IdleNotice, Notice
    <2> QED
      BY <2>1 DEF LedgerIsTold
  <1> QED
    BY <1>6, <1>7, <1>9, <1>11, <1>12, <1>13 DEF HubParts

LEMMA InstallFailsKeeps == ASSUME HInv, curating = {}, NEW id, InstallFails(id) PROVE HubParts'
  <1>0. /\ IInv /\ Awake /\ HubTypes /\ RowsHold /\ WrittenIsThere /\ RemovedIsCancelled
        /\ LedgerIsTold /\ LedgerFollowsDisk /\ Sets
    BY HubPartsOf
  <1>1. /\ \/ Fails(id) /\ IdleNotice(hadCompletionSinceIdle, ledger)
           \/ (RateLimited(id) \/ SettlesDisposed(id)) /\ UNCHANGED told
        /\ written' = written \ {id}
        /\ disturbed' = disturbed \cup (IF id \in written THEN {SlugOf(id)} ELSE {})
        /\ UNCHANGED <<boot, skillsDir, userSkillsDir, ledger, importing, curating, sync, events,
                       removed, missed>>
    BY DEF InstallFails
  <1>2. /\ id \in running /\ cancelled' = cancelled /\ disposed' = disposed
        /\ running \ {id} \subseteq running'
    BY <1>1, DrainLeaves, Zenon DEF Fails, RateLimited, SettlesDisposed
  <1>3. Moves(None) /\ SlugOf(id) \in Slugs /\ IInv'
    BY <1>0, <1>1, <1>2, EndWakes, RateLimitedWakes, SettlesWakes, WrittenIsBusy, FailsKeeps,
       RateLimitedKeeps, SettlesDisposedKeeps
  <1>4. Sets'
    BY <1>3, Parts, PTL
  <1>5. /\ told' \subseteq Slugs
        /\ \/ told' = Installed(ledger) \/ hadCompletionSinceIdle'
           \/ told' = told /\ hadCompletionSinceIdle' = hadCompletionSinceIdle
    <2>1. CASE Fails(id) /\ IdleNotice(hadCompletionSinceIdle, ledger)
      <3>1. hadCompletionSinceIdle' => hadCompletionSinceIdle
        <4>1. \E items : Drain(items, pending, Freed(id), running \ {id}, hadCompletionSinceIdle)
          BY <2>1, Zenon DEF Fails
        <4> QED
          BY <4>1, DrainLeaves
      <3> QED
        BY <1>0, <1>4, <2>1, <3>1, IdleNoticeTells DEF HubTypes
    <2>2. CASE (RateLimited(id) \/ SettlesDisposed(id)) /\ UNCHANGED told
      BY <1>0, <2>2, Zenon DEF RateLimited, SettlesDisposed, HubTypes
    <2> QED
      BY <1>1, <2>1, <2>2
  <1>6. /\ \A j : j \in running \/ IsPending(j) => item'[j].slug = SlugOf(j)
        /\ \A j : j \in running' \/ IsPending(j)' =>
              j \in running \/ IsPending(j) \/ item'[j].slug = None
    BY <1>3, WorkKeepsSlugs
  <1>7. HubTypes'
    BY <1>0, <1>1, <1>2, <1>3, <1>5 DEF HubTypes
  <1>8. RowsHold' /\ LedgerIsTold'
    BY <1>0, <1>1, <1>2, <1>5 DEF RowsHold, LedgerIsTold
  <1>9. \A j \in written : item'[j].slug = SlugOf(j) /\ SlugOf(j) \in Slugs
    BY <1>0, <1>6, WrittenIsBusy DEF HubTypes
  <1>10. WrittenIsThere'
    BY <1>0, <1>1, <1>2, <1>9 DEF WrittenIsThere, SlugOf
  <1>11. LedgerFollowsDisk'
    BY <1>0, <1>1, <1>9 DEF LedgerFollowsDisk, SlugOf
  <1>12. RemovedIsCancelled'
    <2>1. ASSUME NEW t \in (skillsDir \cap removed) \ (disturbed' \cup Personal)
          PROVE  t \in cancelled /\ \E j \in written' : item'[j].slug = t
      <3>1. PICK j \in written : SlugOf(j) = t /\ t \in cancelled
        BY <1>0, <1>1, <2>1 DEF RemovedIsCancelled
      <3>2. j # id
        BY <1>1, <2>1, <3>1
      <3> QED
        BY <1>1, <1>9, <3>1, <3>2
    <2>2. \A j : (j \in running' \/ IsPending(j)') /\ item'[j].slug \in removed => item'[j].slug \in cancelled
      BY <1>0, <1>6, HubConstants DEF RemovedIsCancelled, HubTypes
    <2> QED
      BY <1>1, <1>2, <2>1, <2>2 DEF RemovedIsCancelled, SlugOf
  <1> QED
    BY <1>7, <1>8, <1>10, <1>11, <1>12 DEF HubParts

LEMMA InstallSucceedsCancelledKeeps ==
    ASSUME HInv, curating = {}, NEW id, InstallSucceedsCancelled(id) PROVE HubParts'
  <1>0. /\ IInv /\ Awake /\ HubTypes /\ RowsHold /\ WrittenIsThere /\ RemovedIsCancelled
        /\ LedgerIsTold /\ LedgerFollowsDisk /\ Sets
    BY HubPartsOf
  <1> DEFINE s == SlugOf(id)
  <1>1. PICK r \in Uninstalled(s, "any") :
            /\ id \in written /\ SucceedsCancelled(id) /\ ledger' = r.ledger /\ Removes(s, r)
            /\ written' = written \ {id}
            /\ UNCHANGED <<boot, importing, curating, events, missed>>
    BY DEF InstallSucceedsCancelled
  <1>2. /\ id \in running /\ running' = running \ {id} /\ cancelled' = cancelled \ {s}
        /\ UNCHANGED <<item, pending, disposed, hadCompletionSinceIdle>>
    BY <1>1, Zenon DEF SucceedsCancelled
  <1>3. s \in Slugs
    BY <1>2, WrittenIsBusy
  <1> HIDE DEF s
  <1>4. /\ skillsDir' = r.dir /\ userSkillsDir' = r.own /\ Notice(ledger')
        /\ removed' = removed \cup (skillsDir \ r.dir) /\ disturbed' = disturbed \ ({s} \ r.dir)
        /\ IF r.dir # skillsDir \/ r.own # userSkillsDir THEN Touched ELSE UNCHANGED sync
    BY <1>1 DEF Removes
  <1>5. /\ r.dir \in {skillsDir, skillsDir \ {s}} /\ r.own \in {userSkillsDir, userSkillsDir \ {s}}
        /\ r.ledger \in Ledgers /\ \A t \in Slugs \ {s} : r.ledger[t] = ledger[t]
        /\ \A t \in Slugs : Known(ledger, t) => Known(r.ledger, t)
        /\ r.ledger[s]["user"] = "in" => s \in r.own
        /\ s \in skillsDir \ r.dir => Known(r.ledger, s)
        /\ r.dir = skillsDir /\ r.own = userSkillsDir => r.ledger = ledger
        /\ s \in r.dir => s \in Personal
        /\ r.own = userSkillsDir => r.ledger[s]["user"] = ledger[s]["user"]
    BY <1>0, <1>3, UninstalledHolds
  <1>6. \A j : (j \in running' \/ IsPending(j)) => SlugOf(j) # s
    <2>1. \A j : (j \in running \/ IsPending(j)) /\ SlugOf(j) = s => j = id
      BY <1>2, AloneAtWork DEF s
    <2>2. ~IsPending(id)
      BY <1>2, HubPartsOf, Working DEF IsPending
    <2> QED
      BY <1>2, <2>1, <2>2
  <1>7. HubTypes'
    BY <1>0, <1>1, <1>2, <1>4, <1>5 DEF HubTypes, Notice, Installed, Touched
  <1>8. RowsHold'
    <2>1. \A t \in Slugs : ledger'[t]["user"] = "in" => t \in userSkillsDir'
      BY <1>0, <1>1, <1>4, <1>5 DEF RowsHold
    <2>2. boot = "started" => \A t \in userSkillsDir' : ledger'[t]["user"] = "in"
      BY <1>0, <1>1, <1>4, <1>5 DEF RowsHold, HubTypes
    <2>3. \A t \in removed' : Known(ledger', t)
      BY <1>0, <1>1, <1>4, <1>5 DEF RowsHold, HubTypes
    <2> QED
      BY <1>0, <1>1, <1>2, <1>4, <1>5, <2>1, <2>2, <2>3 DEF RowsHold
  <1>9. \A j \in written' : j \in running' /\ SlugOf(j) # s
    BY <1>0, <1>1, <1>2, <1>6 DEF HubTypes
  <1>10. WrittenIsThere'
    BY <1>0, <1>1, <1>2, <1>4, <1>5, <1>9 DEF WrittenIsThere, SlugOf
  <1>11. LedgerFollowsDisk'
    <2>1. CASE r.dir # skillsDir \/ r.own # userSkillsDir
      BY <1>1, <1>4, <2>1 DEF LedgerFollowsDisk, Touched
    <2>2. CASE r.dir = skillsDir /\ r.own = userSkillsDir
      <3>1. /\ ledger' = ledger /\ skillsDir' = skillsDir /\ userSkillsDir' = userSkillsDir
            /\ sync' = sync /\ disturbed' = disturbed \ ({s} \ skillsDir)
        BY <1>1, <1>4, <1>5, <2>2
      <3>2. ASSUME boot = "started", ~sync, s \notin skillsDir
            PROVE  s \in Installed(ledger) <=> s \in userSkillsDir
        <4>1. In(ledger, s) \subseteq {"user"}
          BY <1>0, <1>1, <3>2 DEF LedgerFollowsDisk, s
        <4>2. ledger[s]["user"] = "in" <=> s \in userSkillsDir
          BY <1>0, <1>3, <3>2 DEF RowsHold
        <4> QED
          BY <1>3, <4>1, <4>2 DEF Installed, In, Sources
      <3> QED
        BY <1>0, <1>1, <1>2, <3>1, <3>2 DEF LedgerFollowsDisk, SlugOf
    <2> QED
      BY <2>1, <2>2
  <1>12. RemovedIsCancelled'
    <2>1. ASSUME NEW t \in (skillsDir' \cap removed') \ (disturbed' \cup Personal)
          PROVE  t \in cancelled' /\ \E j \in written' : SlugOf(j) = t
      <3>1. t # s /\ t \in skillsDir /\ t \in removed /\ t \notin disturbed
        BY <1>4, <1>5, <2>1
      <3>2. PICK j \in written : SlugOf(j) = t /\ t \in cancelled
        BY <1>0, <2>1, <3>1 DEF RemovedIsCancelled
      <3> QED
        BY <1>1, <1>2, <3>1, <3>2 DEF s
    <2>2. \A j : (j \in running' \/ IsPending(j)) /\ SlugOf(j) \in removed' => SlugOf(j) \in cancelled'
      BY <1>0, <1>2, <1>4, <1>5, <1>6 DEF RemovedIsCancelled
    <2> QED
      BY <1>2, <2>1, <2>2 DEF RemovedIsCancelled, SlugOf, IsPending
  <1> QED
    BY <1>4, <1>7, <1>8, <1>10, <1>11, <1>12, NoticeTells DEF HubParts

\* uninstallSkill() leaves no install of the skill that is not cancelled.
LEMMA CancelClears ==
    ASSUME HInv, NEW s \in Slugs, Cancel(s) \/ (s \notin Busy /\ UNCHANGED vars)
    PROVE  /\ running' = running /\ cancelled \subseteq cancelled' /\ disposed' = disposed
           /\ Moves(None)
           /\ \A id : (id \in running \/ IsPending(id)') /\ item'[id].slug = s => s \in cancelled'
  <1>0. /\ IInv /\ Awake /\ Lists(item, pending, active, completed)
        /\ OneRow(item, pending, active, completed)
        /\ Queue(item, pending, active, completed, running, cleaning)
    BY HubPartsOf, Parts
  <1>1. running' = running /\ cancelled \subseteq cancelled' /\ disposed' = disposed
    BY CancelInHub, QueueUnmoved
  <1>2. Moves(None)
    <2>1. CASE Cancel(s)
      BY <1>0, <2>1, CancelWakes
    <2>2. CASE UNCHANGED vars
      BY <2>2, QueueUnmoved DEF Moves, SlugOf, IsPending
    <2> QED
      BY <2>1, <2>2
  <1>3. \A id \in running : active[SlugOf(id)] = id /\ id # None
    BY <1>0, Working
  <1>4. \A id \in running : item'[id].slug = SlugOf(id)
    BY <1>2, WorkKeepsSlugs
  <1>5. CASE CancelPending(s)
    <2>1. PICK i \in DOMAIN pending : SlugOf(pending[i]) = s /\ pending' = RemoveAt(pending, i)
      BY <1>5, Zenon DEF CancelPending
    <2>2. \A j \in DOMAIN pending' : \E k \in DOMAIN pending \ {i} : pending'[j] = pending[k]
      <3>1. pending \in Seq(DOMAIN item)
        BY <1>0 DEF Lists
      <3> QED
        BY <2>1, <3>1, RemovedStay
    <2>3. \A k \in DOMAIN pending \ {i} : SlugOf(pending[k]) # s /\ item'[pending[k]].slug # s
      <3>1. \A k \in DOMAIN pending \ {i} : SlugOf(pending[k]) # s
        BY <1>0, <2>1, Zenon DEF OneRow, SlugOf
      <3>2. \A k \in DOMAIN pending : item'[pending[k]].slug = SlugOf(pending[k])
        BY <1>2, WorkKeepsSlugs DEF IsPending
      <3> QED
        BY <3>1, <3>2
    <2>4. active[s] = None
      BY <1>0, <2>1 DEF OneRow, SlugOf
    <2>5. \A id \in running : item'[id].slug # s
      BY <1>3, <1>4, <2>4
    <2>6. \A id : (\E j \in DOMAIN pending' : pending'[j] = id) => item'[id].slug # s
      BY <2>2, <2>3
    <2> QED
      BY <1>1, <1>2, <2>5, <2>6, Zenon DEF IsPending
  <1>6. CASE CancelActive(s)
    <2>1. s \in cancelled'
      BY <1>6, Zenon DEF CancelActive
    <2> QED
      BY <1>1, <1>2, <2>1
  <1>7. CASE DismissFailed(s) \/ (s \notin Busy /\ UNCHANGED vars)
    <2>1. ~InFlight(s) /\ UNCHANGED <<item, pending>>
      BY <1>7, QueueUnmoved, Zenon DEF DismissFailed, Busy
    <2> QED
      BY <1>1, <1>2, <1>3, <2>1 DEF InFlight, IsPending, SlugOf
  <1> QED
    BY <1>5, <1>6, <1>7 DEF Cancel

LEMMA UninstallKeeps ==
    ASSUME HInv, curating = {}, NEW s \in Slugs, NEW source \in Sources \cup {"any"}, Uninstall(s, source)
    PROVE  HubParts'
  <1>0. /\ IInv /\ Awake /\ HubTypes /\ RowsHold /\ WrittenIsThere /\ RemovedIsCancelled
        /\ LedgerIsTold /\ LedgerFollowsDisk
    BY HubPartsOf
  <1>1. /\ running' = running /\ cancelled \subseteq cancelled' /\ disposed' = disposed
        /\ Moves(None)
        /\ \A id : (id \in running \/ IsPending(id)') /\ item'[id].slug = s => s \in cancelled'
    <2>1. Cancel(s) \/ (s \notin Busy /\ UNCHANGED vars)
      BY Zenon DEF Uninstall
    <2> QED
      BY <2>1, CancelClears
  <1>2. PICK r \in Uninstalled(s, source) :
            ledger' = SyncNow(r.ledger, r.dir, r.own, Busy') /\ Removes(s, r)
    BY Zenon DEF Uninstall
  <1>3. UNCHANGED <<boot, written, importing, curating, events, missed>>
    BY Zenon DEF Uninstall
  <1>4. /\ skillsDir' = r.dir /\ userSkillsDir' = r.own /\ Notice(ledger')
        /\ removed' = removed \cup (skillsDir \ r.dir) /\ disturbed' = disturbed \ ({s} \ r.dir)
        /\ IF r.dir # skillsDir \/ r.own # userSkillsDir THEN Touched ELSE UNCHANGED sync
    BY <1>2 DEF Removes
  <1>5. /\ r.dir \in {skillsDir, skillsDir \ {s}} /\ r.own \in {userSkillsDir, userSkillsDir \ {s}}
        /\ r.ledger \in Ledgers
        /\ \A t \in Slugs : Known(ledger, t) => Known(r.ledger, t)
        /\ s \in skillsDir \ r.dir => Known(r.ledger, s)
        /\ r.dir = skillsDir /\ r.own = userSkillsDir => r.ledger = ledger
        /\ s \in r.dir => s \in Personal
    BY <1>0, UninstalledHolds
  <1>6. /\ ledger' \in Ledgers
        /\ \A t \in Slugs :
              /\ ledger'[t]["user"] = "in" <=> t \in r.own
              /\ t \notin r.dir => In(ledger', t) \subseteq {"user"}
              /\ Known(r.ledger, t) => Known(ledger', t)
              /\ /\ r.ledger[t]["user"] = "in" => t \in r.own
                 /\ t \in r.dir => t \notin Busy' \/ In(r.ledger, t) # {}
                 => (t \in Installed(ledger') <=> t \in r.dir \cup r.own)
    BY <1>2, <1>5, SyncNowHolds
  <1>7. /\ \A id : id \in running \/ IsPending(id) => item'[id].slug = SlugOf(id)
        /\ \A id : id \in running' \/ IsPending(id)' =>
              id \in running \/ IsPending(id) \/ item'[id].slug = None
    BY <1>1, WorkKeepsSlugs
  <1>8. HubTypes'
    BY <1>0, <1>1, <1>3, <1>4, <1>5, <1>6 DEF HubTypes, Notice, Installed, Touched
  <1>9. RowsHold'
    BY <1>0, <1>1, <1>3, <1>4, <1>5, <1>6 DEF RowsHold, HubTypes
  <1>10. \A id \in written : id \in running /\ item'[id].slug = SlugOf(id) /\ SlugOf(id) \in Slugs
    BY <1>0, <1>7, WrittenIsBusy DEF HubTypes
  <1>11. WrittenIsThere'
    <2>1. ASSUME NEW id \in written PROVE SlugOf(id) \in skillsDir' \cup disturbed' \cup cancelled'
      <3>1. CASE SlugOf(id) = s
        BY <1>1, <1>10, <3>1
      <3>2. CASE SlugOf(id) # s
        BY <1>0, <1>1, <1>4, <1>5, <3>2 DEF WrittenIsThere
      <3> QED
        BY <3>1, <3>2
    <2> QED
      BY <1>3, <1>10, <2>1 DEF WrittenIsThere, SlugOf
  <1>12. LedgerFollowsDisk'
    <2>1. CASE r.dir # skillsDir \/ r.own # userSkillsDir
      BY <1>3, <1>4, <2>1 DEF LedgerFollowsDisk, Touched
    <2>2. CASE r.dir = skillsDir /\ r.own = userSkillsDir
      <3> SUFFICES ASSUME boot = "started", ~sync
                   PROVE  /\ \A t \in Slugs \ disturbed' :
                                t \in Installed(ledger') <=> t \in skillsDir \cup userSkillsDir
                          /\ \A id \in written : SlugOf(id) \notin skillsDir =>
                                In(ledger', SlugOf(id)) \subseteq {"user"}
        BY <1>3, <1>4, <1>10, <2>2 DEF LedgerFollowsDisk, SlugOf
      <3>1. r.ledger = ledger /\ disturbed' = disturbed \ ({s} \ skillsDir)
        BY <1>4, <1>5, <2>2
      <3>2. \A t \in Slugs : ledger[t]["user"] = "in" => t \in userSkillsDir
        BY <1>0 DEF RowsHold
      <3>3. ASSUME NEW t \in Slugs \ disturbed', t \in skillsDir PROVE In(ledger, t) # {}
        <4>1. t \notin disturbed
          BY <3>1, <3>3
        <4> QED
          BY <1>0, <3>3, <4>1 DEF LedgerFollowsDisk, Installed
      <3> QED
        BY <1>6, <1>10, <2>2, <3>1, <3>2, <3>3
    <2> QED
      BY <2>1, <2>2
  <1>13. RemovedIsCancelled'
    <2>1. ASSUME NEW t \in (skillsDir' \cap removed') \ (disturbed' \cup Personal)
          PROVE  t \in cancelled' /\ \E id \in written : item'[id].slug = t
      <3>1. t # s /\ t \in skillsDir /\ t \in removed /\ t \notin disturbed
        BY <1>4, <1>5, <2>1
      <3>2. t \in cancelled /\ \E id \in written : SlugOf(id) = t
        BY <1>0, <2>1, <3>1 DEF RemovedIsCancelled
      <3> QED
        BY <1>1, <1>10, <3>2
    <2>2. ASSUME NEW id, id \in running' \/ IsPending(id)', item'[id].slug \in removed'
          PROVE  item'[id].slug \in cancelled'
      <3>1. CASE item'[id].slug = s
        BY <1>1, <2>2, <3>1
      <3>2. CASE item'[id].slug # s
        <4>1. item'[id].slug \in removed /\ item'[id].slug # None
          BY <1>0, <1>4, <1>5, <2>2, <3>2, HubConstants DEF HubTypes
        <4> QED
          BY <1>0, <1>1, <1>7, <2>2, <4>1 DEF RemovedIsCancelled
      <3> QED
        BY <3>1, <3>2
    <2> QED
      BY <1>3, <2>1, <2>2 DEF RemovedIsCancelled, SlugOf
  <1> QED
    BY <1>4, <1>8, <1>9, <1>11, <1>12, <1>13, NoticeTells DEF HubParts

\* After a restart the queue is as at first; what ran may have written, and is disturbed.
LEMMA RestartKeeps == ASSUME HInv, Restart PROVE HInv'
  <1>0. /\ HubTypes /\ RowsHold /\ RemovedIsCancelled
    BY HubPartsOf
  <1> DEFINE interrupted == {SlugOf(id) : id \in running} \cup ({importing} \ {None})
  <1>1. PICK S \in SUBSET {SlugOf(id) : id \in running} : skillsDir' = skillsDir \cup S
    BY Zenon DEF Restart
  <1>2. /\ events < MaxEvents /\ events' = events + 1 /\ boot' = "served" /\ ResetQueue
        /\ disturbed' = disturbed \cup interrupted
        /\ written' = {} /\ importing' = None /\ curating' = {} /\ sync' = FALSE
        /\ UNCHANGED <<userSkillsDir, ledger, told, removed, missed>>
    BY Zenon DEF Restart
  <1>3. Init'
    BY <1>2 DEF ResetQueue, Init
  <1>4. IInv' /\ Awake'
    BY <1>3, IInvInit, AwakeInit, PTL
  <1>5. running' = {} /\ pending' = <<>> /\ disposed' = FALSE
    BY <1>2 DEF ResetQueue
  <1>6. \A id \in running : SlugOf(id) \in Slugs
    BY WrittenIsBusy
  <1>7. interrupted \subseteq Slugs /\ S \subseteq interrupted
    BY <1>0, <1>6 DEF HubTypes
  <1>8. \A id \in running : SlugOf(id) \in interrupted
    OBVIOUS
  <1> HIDE DEF interrupted
  <1>9. HubTypes'
    <2>1. skillsDir' \subseteq Slugs /\ disturbed' \subseteq Slugs
      BY <1>0, <1>1, <1>2, <1>7 DEF HubTypes
    <2>2. events' \in 0 .. MaxEvents
      BY <1>0, <1>2, HubConstants DEF HubTypes
    <2> QED
      BY <1>0, <1>2, <2>1, <2>2, Zenon DEF HubTypes
  <1>10. RowsHold' /\ WrittenIsThere' /\ LedgerFollowsDisk' /\ LedgerIsTold'
    BY <1>0, <1>2, <1>5 DEF RowsHold, WrittenIsThere, LedgerFollowsDisk, LedgerIsTold
  <1>11. (skillsDir' \cap removed) \ (disturbed' \cup Personal) = {}
    <2>1. ASSUME NEW t \in (skillsDir' \cap removed) \ (disturbed' \cup Personal) PROVE FALSE
      <3>1. t \in skillsDir /\ t \notin disturbed
        BY <1>1, <1>2, <1>7, <2>1
      <3>2. \E id \in running : SlugOf(id) = t
        BY <1>0, <2>1, <3>1 DEF RemovedIsCancelled, HubTypes
      <3> QED
        BY <1>2, <1>8, <2>1, <3>2
    <2> QED
      BY <2>1
  <1>12. RemovedIsCancelled'
    BY <1>2, <1>5, <1>11 DEF RemovedIsCancelled, IsPending
  <1> QED
    BY <1>4, <1>9, <1>10, <1>12 DEF HInv, HubParts

(***************************************************************************)
(* The invariant of the hub, what it says, and its theorems.               *)
(***************************************************************************)

LEMMA HInvInit == HubInit => HInv
  <1> SUFFICES ASSUME HubInit PROVE HInv
    OBVIOUS
  <1>1. /\ Init /\ boot = "served" /\ skillsDir = {} /\ userSkillsDir = Personal /\ written = {}
        /\ ledger = [s \in Slugs |-> Unknown] /\ importing = None /\ curating = {} /\ sync = FALSE
        /\ told = {} /\ events = 0 /\ removed = {} /\ missed = {} /\ disturbed = {}
    BY DEF HubInit
  <1>2. IInv /\ Awake
    BY <1>1, IInvInit, AwakeInit
  <1>3. disposed = FALSE /\ running = {} /\ pending = <<>>
    BY <1>1 DEF Init
  <1>4. ledger \in Ledgers /\ \A s \in Slugs : ledger[s]["user"] = "none"
    BY <1>1 DEF Ledgers, Unknown, Sources
  <1>5. HubTypes
    <2>1. userSkillsDir \subseteq Slugs /\ events \in 0 .. MaxEvents
      BY <1>1, HubConstants
    <2> QED
      BY <1>1, <1>4, <2>1, Zenon DEF HubTypes
  <1>6. RowsHold /\ WrittenIsThere /\ LedgerFollowsDisk /\ RemovedIsCancelled /\ LedgerIsTold
    BY <1>1, <1>3, <1>4 DEF RowsHold, WrittenIsThere, LedgerFollowsDisk, RemovedIsCancelled,
       LedgerIsTold, IsPending
  <1> QED
    BY <1>2, <1>5, <1>6 DEF HInv, HubParts

\* But for a restart, the queue takes a step of its own, or none.
LEMMA HubMovesQueue == HubNext => Restart \/ [Next]_vars
  <1>1. ASSUME NEW s \in Slugs, EnqueueCurated(s) PROVE [Next]_vars
    BY <1>1, Zenon DEF EnqueueCurated, Next
  <1>2. ASSUME Routes PROVE [Next]_vars
    <2>1. ASSUME NEW s \in Slugs, EnqueueInstall(s) \/ CancelInstall(s) \/ Import(s) PROVE [Next]_vars
      BY <2>1, Zenon DEF EnqueueInstall, CancelInstall, Import, Next
    <2>2. ASSUME NEW s \in Slugs, NEW source, Uninstall(s, source) PROVE [Next]_vars
      BY <2>2, Zenon DEF Uninstall, Next
    <2> QED
      BY <1>2, <2>1, <2>2 DEF Routes
  <1>3. ASSUME NEW id \in Ids, Install(id) PROVE [Next]_vars
    <2>1. CASE ExecutorWrites(id)
      BY <2>1 DEF ExecutorWrites
    <2>2. CASE InstallSucceeds(id) \/ InstallSucceedsCancelled(id) \/ InstallFails(id)
      <3>1. Settles(id)
        BY <2>2, Zenon DEF InstallSucceeds, InstallSucceedsCancelled, InstallFails, Settles
      <3> QED
        BY <3>1, Zenon DEF Next
    <2> QED
      BY <1>3, <2>1, <2>2 DEF Install
  <1>4. ASSUME QueueGoesOn \/ TimePasses \/ Stop PROVE [Next]_vars
    BY <1>4, Zenon DEF QueueGoesOn, TimePasses, Stop, Next
  <1>5. ASSUME ImportSucceeds \/ ImportFails \/ SyncFires \/ BotsRead PROVE [Next]_vars
    BY <1>5 DEF ImportSucceeds, ImportFails, SyncFires, BotsRead
  <1>6. ASSUME Bootstrap \/ StartWatching PROVE [Next]_vars
    BY <1>6, Zenon DEF Bootstrap, StartWatching, Initialize
  <1>7. ASSUME NEW s \in Slugs, Outside(s) PROVE [Next]_vars
    BY <1>7 DEF Outside
  <1> QED
    BY <1>1, <1>2, <1>3, <1>4, <1>5, <1>6, <1>7, Zenon DEF HubNext

LEMMA HInvStep == ASSUME HInv, [HubNext]_hubVars PROVE HInv'
  <1>1. ASSUME [Next]_vars, HubParts' PROVE HInv'
    BY <1>1, HubPartsOf, IInvStep, AwakeStep DEF HInv
  <1>2. ASSUME UNCHANGED hubVars PROVE HInv'
    <2>1. UNCHANGED <<vars, boot, disks, ledger, importing, sync, told, events, past, curating>>
      BY <1>2 DEF hubVars, hub
    <2>2. HubParts'
      BY <2>1, StutterKeeps
    <2> QED
      BY <1>1, <2>1, <2>2
  <1>3. ASSUME HubNext PROVE HInv'
    <2>1. CASE Restart
      BY <2>1, RestartKeeps
    <2>2. ASSUME NEW s \in Slugs, EnqueueCurated(s) PROVE HubParts'
      BY <2>2, EnqueueCuratedKeeps
    <2>3. ASSUME curating = {}, Routes PROVE HubParts'
      BY <2>3, EnqueueInstallKeeps, CancelInstallKeeps, ImportKeeps, UninstallKeeps DEF Routes
    <2>4. ASSUME curating = {}, NEW id \in Ids, Install(id) PROVE HubParts'
      BY <2>4, ExecutorWritesKeeps, InstallSucceedsKeeps, InstallSucceedsCancelledKeeps,
         InstallFailsKeeps DEF Install
    <2>5. ASSUME curating = {}, ImportSucceeds \/ ImportFails \/ SyncFires \/ QueueGoesOn \/ TimePasses
          PROVE  HubParts'
      BY <2>5, ImportSucceedsKeeps, ImportFailsKeeps, SyncFiresKeeps, QueueGoesOnKeeps,
         TimePassesKeeps
    <2>6. ASSUME curating = {}, Bootstrap \/ StartWatching \/ BotsRead \/ Stop PROVE HubParts'
      BY <2>6, StartKeeps, BotsReadKeeps, StopKeeps
    <2>7. ASSUME curating = {}, NEW s \in Slugs, Outside(s) PROVE HubParts'
      BY <2>7, OutsideKeeps
    <2>8. HubParts' \/ Restart
      BY <1>3, <2>2, <2>3, <2>4, <2>5, <2>6, <2>7, Zenon DEF HubNext
    <2> QED
      BY <1>1, <1>3, <2>1, <2>8, HubMovesQueue
  <1> QED
    BY <1>2, <1>3

LEMMA HInvTypes == HInv => HubTypeOK
  BY HubPartsOf, IInvTypes DEF HubTypes, HubTypeOK, Ledgers

LEMMA HInvMatches == HInv => QuietLedgerMatchesDisk
  BY HubPartsOf DEF LedgerFollowsDisk, QuietLedgerMatchesDisk, AtRest

LEMMA HInvRemoved == HInv => RemovedStaysRemoved
  <1> SUFFICES ASSUME HInv, NEW s \in skillsDir, s \in removed, s \notin disturbed,
                      s \notin Busy, s \notin Personal
               PROVE  FALSE
    BY DEF RemovedStaysRemoved
  <1>1. PICK id \in written : SlugOf(id) = s
    BY HubPartsOf DEF RemovedIsCancelled
  <1>2. s \in Busy
    BY <1>1, HubPartsOf, WrittenIsBusy DEF HubTypes
  <1> QED
    BY <1>2

LEMMA HInvTold == HInv => QuietSyncSawTheLedger
  <1> SUFFICES ASSUME HInv, AtRest, pause = "off"
               PROVE  told \ (missed \cup disturbed) = Installed(ledger) \ (missed \cup disturbed)
    BY DEF QuietSyncSawTheLedger
  <1>0. Awake /\ HubTypes /\ RowsHold /\ LedgerIsTold
    BY HubPartsOf
  <1>1. \A s \in Slugs : active[s] = None
    BY DEF AtRest, Busy, InFlight
  <1>2. ~hadCompletionSinceIdle
    BY <1>0, <1>1 DEF AtRest, Awake, RowsHold, ActiveSlugs
  <1>3. \A s \in Slugs \ (missed \cup disturbed) : s \in told <=> s \in Installed(ledger)
    BY <1>0, <1>2 DEF AtRest, LedgerIsTold
  <1>4. told \subseteq Slugs /\ Installed(ledger) \subseteq Slugs
    BY <1>0 DEF HubTypes, Installed
  <1> QED
    BY <1>3, <1>4

\* The invariant holds of every state the hub reaches, restarts included.
THEOREM HubInvariance == HubSpec => []HInv
  <1>1. HInv /\ [HubNext]_hubVars => HInv'
    BY HInvStep
  <1> QED
    BY HInvInit, <1>1, PTL DEF HubSpec

\* Whatever the routes, the watcher, the executors and restarts do, the ledger has one row
\* per skill and source, and only an install under way counts as having written its skill.
THEOREM HubTypeCorrect == HubSpec => []HubTypeOK
  BY HubInvariance, HInvTypes, PTL

\* At rest the ledger lists exactly the skills on disk: no order of completions, clean-ups,
\* imports, uninstalls and watcher syncs makes syncNow() and the queue's callbacks disagree.
THEOREM LedgerMatchesDisk == HubSpec => []QuietLedgerMatchesDisk
  BY HubInvariance, HInvMatches, PTL

\* A skill the user removed does not come back by itself: an executor that was still writing
\* is cancelled and cleaned up, and neither bundle nor curated list takes it for a new one.
THEOREM RemovedIsNotBroughtBack == HubSpec => []RemovedStaysRemoved
  BY HubInvariance, HInvRemoved, PTL

\* At rest the last sync asked for saw the ledger as it is: the notice a completion owes is
\* given by the drain() that finds the queue empty, after the ledger was written.
THEOREM SyncSawTheLedger == HubSpec => []QuietSyncSawTheLedger
  BY HubInvariance, HInvTold, PTL

\* What the queue promises it promises under the hub too, whose restarts empty it and whose
\* callbacks write the ledger: rows, bound, cancellations, wake-ups and notices.
THEOREM QueueHoldsInHub ==
    HubSpec => [](OneRowPerSkill /\ ConcurrencyBound /\ CancelledIsNotRecorded
                    /\ NothingStranded /\ IdleNoticeOwed)
  <1>1. HInv => OneRowPerSkill /\ ConcurrencyBound /\ CancelledIsNotRecorded
                   /\ NothingStranded /\ IdleNoticeOwed
    BY Parts, IInvRows, IInvBound, AwakeNothingStranded, AwakeIdleNoticeOwed DEF HInv
  <1> QED
    BY HubInvariance, <1>1, PTL

LEMMA HubRestIsQueueRest == UNCHANGED hubVars => UNCHANGED vars
  BY DEF hubVars

\* The hub is a refinement of the queue it composes: whatever routes, watcher and executors
\* do, the queue starts as InstallQueue says and takes only steps of its methods, and a
\* restart of the controller gives it back its initial state (class InstallQueue).
THEOREM HubImplementsQueue == HubSpec => Init /\ [][Next \/ Init']_vars
  <1>1. Restart => Init'
    BY Zenon DEF Restart, ResetQueue, Init
  <1>2. [HubNext]_hubVars => [Next \/ Init']_vars
    BY <1>1, HubRestIsQueueRest, HubMovesQueue
  <1> QED
    BY <1>2, PTL DEF HubSpec, HubInit

\* Under the hub, too, no step starts an item while one enqueued before it waits: a restart
\* starts none, and no route reaches the queue but by its methods (NoOvertaking).
THEOREM HubStartsInOrder == HubSpec => NoOvertaking
  <1>1. HInv /\ [HubNext]_hubVars => [Orderly]_vars
    <2>1. Restart => Orderly
      BY Zenon DEF Restart, ResetQueue, Orderly
    <2>2. HInv => IInv
      BY DEF HInv
    <2> QED
      BY <2>1, <2>2, IInvStep, HubRestIsQueueRest, HubMovesQueue
  <1>2. HubSpec => [][Orderly]_vars
    BY HubInvariance, <1>1, PTL DEF HubSpec
  <1> QED
    BY <1>2 DEF NoOvertaking, Orderly

================================================================================
