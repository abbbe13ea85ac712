----------------------------- MODULE TodoProofs -----------------------------
(***************************************************************************)
(* Merge and sortByTime on slices, the laws of the merge of todo lists and *)
(* of the vector clock, for every set of ids and of agents and lists of    *)
(* every length.                                                           *)
(***************************************************************************)
EXTENDS TodoLists, VectorClock, FiniteSetTheorems, SequenceTheorems,
        WellFoundedInduction, TLAPS

(* Merging a list with itself changes nothing.                             *)
THEOREM MergeIdempotent ==
  ASSUME NEW ids, NEW f, IsList(f, ids)
  PROVE  Merged(f, f) = f
BY DEF IsList, Merged, Later

(* The result is a list again, and of the two versions of an item it holds *)
(* one, which no other was created after.                                  *)
THEOREM MergeKeepsNewer ==
  ASSUME NEW ids, NEW f, NEW g, IsList(f, ids), IsList(g, ids)
  PROVE  /\ IsList(Merged(f, g), ids)
         /\ \A i \in DOMAIN f : Merged(f, g)[i].created >= f[i].created
         /\ \A i \in DOMAIN g : Merged(f, g)[i].created >= g[i].created
         /\ \A i \in DOMAIN f \cap DOMAIN g : Merged(f, g)[i] \in {f[i], g[i]}
<1> DEFINE m == Merged(f, g)
<1>1. \A i \in DOMAIN f : f[i] \in Items(ids) /\ f[i].created \in Nat /\ f[i].id = i
  BY DEF IsList, Items
<1>2. \A i \in DOMAIN g : g[i] \in Items(ids) /\ g[i].created \in Nat /\ g[i].id = i
  BY DEF IsList, Items
<1>3. DOMAIN m = DOMAIN f \cup DOMAIN g
  BY DEF Merged
<1>4. \A i \in DOMAIN m : m[i] \in Items(ids) /\ m[i].id = i
  BY <1>1, <1>2 DEF Merged, Later
<1>5. m = [i \in DOMAIN m |-> m[i]]
  BY DEF Merged
<1>6. IsList(m, ids)
  BY <1>3, <1>4, <1>5 DEF IsList
<1>7. \A i \in DOMAIN f : m[i].created >= f[i].created
  BY <1>1, <1>2 DEF Merged, Later
<1>8. \A i \in DOMAIN g : m[i].created >= g[i].created
  BY <1>1, <1>2 DEF Merged, Later
<1>9. \A i \in DOMAIN f \cap DOMAIN g : m[i] \in {f[i], g[i]}
  BY DEF Merged, Later
<1>10. QED BY <1>6, <1>7, <1>8, <1>9

(* Three replicas may merge in either grouping.                            *)
THEOREM MergeAssociative ==
  ASSUME NEW ids, NEW f, NEW g, NEW h,
         IsList(f, ids), IsList(g, ids), IsList(h, ids)
  PROVE  Merged(Merged(f, g), h) = Merged(f, Merged(g, h))
<1> DEFINE left == Merged(Merged(f, g), h)
           right == Merged(f, Merged(g, h))
<1>1. /\ \A i \in DOMAIN f : f[i].created \in Nat
      /\ \A i \in DOMAIN g : g[i].created \in Nat
      /\ \A i \in DOMAIN h : h[i].created \in Nat
  BY DEF IsList, Items
<1>2. /\ DOMAIN left = DOMAIN f \cup DOMAIN g \cup DOMAIN h
      /\ DOMAIN right = DOMAIN f \cup DOMAIN g \cup DOMAIN h
  BY DEF Merged
<1>3. ASSUME NEW i \in DOMAIN f \cup DOMAIN g \cup DOMAIN h
      PROVE  left[i] = right[i]
  <2>1. CASE i \in DOMAIN f \cap DOMAIN g \cap DOMAIN h
    <3>1. left[i] = Later(Later(f[i], g[i]), h[i])
      BY <2>1 DEF Merged
    <3>2. right[i] = Later(f[i], Later(g[i], h[i]))
      BY <2>1 DEF Merged
    <3>3. QED BY <1>1, <2>1, <3>1, <3>2 DEF Later
  <2>2. CASE ~(i \in DOMAIN f \cap DOMAIN g \cap DOMAIN h)
    BY <2>2 DEF Merged
  <2>3. QED BY <2>1, <2>2
<1>4. left = [i \in DOMAIN left |-> left[i]] /\ right = [i \in DOMAIN right |-> right[i]]
  BY DEF Merged
<1>5. QED BY <1>2, <1>3, <1>4

(* Two replicas that merge each other's lists agree, unless two versions   *)
(* of an item bear one creation time: then each keeps its own.             *)
THEOREM MergeCommutes ==
  ASSUME NEW ids, NEW f, NEW g, IsList(f, ids), IsList(g, ids), NoTies(f, g)
  PROVE  Merged(f, g) = Merged(g, f)
<1>1. \A i \in DOMAIN f : f[i].created \in Nat
  BY DEF IsList, Items
<1>2. \A i \in DOMAIN g : g[i].created \in Nat
  BY DEF IsList, Items
<1>3. DOMAIN Merged(f, g) = DOMAIN Merged(g, f)
  BY DEF Merged
<1>4. ASSUME NEW i \in DOMAIN f \cup DOMAIN g
      PROVE  Merged(f, g)[i] = Merged(g, f)[i]
  BY <1>1, <1>2 DEF Merged, Later, NoTies
<1>5. QED BY <1>3, <1>4 DEF Merged

(* A list that was merged already adds nothing when it comes again.        *)
THEOREM MergeAbsorbs ==
  ASSUME NEW ids, NEW f, NEW g, IsList(f, ids), IsList(g, ids)
  PROVE  Merged(Merged(f, g), g) = Merged(f, g)
BY MergeIdempotent, MergeAssociative

(* MarkInProgress, MarkDone and MarkBlocked leave the creation time alone, *)
(* so the edited version of an item never replaces the local one: "last    *)
(* write wins" (service.go:168) holds of creations only.                   *)
THEOREM EditsNeverWin ==
  ASSUME NEW ids, NEW f, NEW g, IsList(f, ids), IsList(g, ids),
         NEW i \in DOMAIN f \cap DOMAIN g, g[i] \in Edits(f[i])
  PROVE  Merged(f, g)[i] = f[i]
<1>1. f[i] \in Items(ids) /\ f[i].created \in Nat
  BY DEF IsList, Items
<1>2. g[i].created = f[i].created
  BY <1>1 DEF Edits, MarkInProgress, MarkDone, MarkBlocked, Items
<1>3. QED BY <1>1, <1>2 DEF Merged, Later
-----------------------------------------------------------------------------
(* Merge of clocks is the least clock that both are within: what either    *)
(* has seen is kept and nothing is made up.                                *)
THEOREM ClockMergeIsLeast ==
  ASSUME NEW v \in Clocks, NEW w \in Clocks
  PROVE  /\ Merge(v, w) \in Clocks
         /\ Within(v, Merge(v, w)) /\ Within(w, Merge(v, w))
         /\ \A u \in Clocks : Within(v, u) /\ Within(w, u) => Within(Merge(v, w), u)
BY DEF Clocks, Merge, Within

(* 1 means that the receiver has seen all the other one has, and more.     *)
THEOREM CompareIsStrict ==
  ASSUME NEW v \in Clocks, NEW w \in Clocks
  PROVE  Compare(v, w) = 1 <=> Within(w, v) /\ v # w
<1>1. Compare(v, w) = 1 <=> HasGreater(v, w) /\ ~HasLess(v, w)
  BY DEF Compare
<1>2. ~HasLess(v, w) <=> Within(w, v)
  BY DEF HasLess, Within, Clocks
<1>3. Within(w, v) => (HasGreater(v, w) <=> v # w)
  BY DEF HasGreater, Within, Clocks
<1>4. QED BY <1>1, <1>2, <1>3

(* The two sides of a comparison never disagree.                           *)
THEOREM CompareIsAntisymmetric ==
  ASSUME NEW v \in Clocks, NEW w \in Clocks
  PROVE  Compare(v, w) = -Compare(w, v)
<1>1. /\ HasGreater(v, w) <=> HasLess(w, v)
      /\ HasLess(v, w) <=> HasGreater(w, v)
  BY DEF HasGreater, HasLess, Clocks
<1>2. QED BY <1>1 DEF Compare

(* An agent that has taken in another clock and then counts a step of its  *)
(* own is after both.                                                      *)
THEOREM StepAfterMergeIsLater ==
  ASSUME NEW v \in Clocks, NEW w \in Clocks, NEW a \in Agents
  PROVE  /\ Compare(Increment(Merge(v, w), a), v) = 1
         /\ Compare(Increment(Merge(v, w), a), w) = 1
<1> DEFINE m == Merge(v, w)
           n == Increment(m, a)
<1>1. m \in Clocks /\ Within(v, m) /\ Within(w, m)
  BY ClockMergeIsLeast
<1>2. n \in Clocks /\ n[a] = m[a] + 1 /\ \A b \in Agents : n[b] >= m[b]
  BY <1>1 DEF Clocks, Increment
<1>3. ASSUME NEW u \in Clocks, Within(u, m)
      PROVE  Compare(n, u) = 1
  <2>1. Within(u, n)
    BY <1>1, <1>2, <1>3 DEF Within, Clocks
  <2>2. n # u
    BY <1>1, <1>2, <1>3 DEF Within, Clocks
  <2>3. QED BY <1>2, <2>1, <2>2, CompareIsStrict
<1>4. QED BY <1>1, <1>3

-----------------------------------------------------------------------------
(* A loop is a recursive function of the number of turns.  What holds at   *)
(* the start and after each turn holds at the end; and there is such a     *)
(* function, so that it is what its definition says.                       *)

LEMMA Induction ==
  ASSUME NEW lo \in Int, NEW hi \in Int, NEW Good, lo \in Good,
         \A j \in lo .. hi - 1 : j \in Good => j + 1 \in Good
  PROVE  \A j \in lo .. hi : j \in Good
<1> DEFINE Bad == {n \in Nat : lo + n <= hi /\ lo + n \notin Good}
<1>1. SUFFICES ASSUME Bad # {} PROVE FALSE
  <2>1. ASSUME NEW j \in lo .. hi, j \notin Good PROVE FALSE
    <3>1. j - lo \in Nat /\ lo + (j - lo) = j
      OBVIOUS
    <3>2. j - lo \in Bad
      BY <2>1, <3>1
    <3> QED BY <1>1, <3>2
  <2> QED BY <2>1
<1>2. PICK x \in Bad : \A y \in Bad : ~(y < x)
  <2>1. Bad \subseteq Nat
    OBVIOUS
  <2> HIDE DEF Bad
  <2>2. PICK x \in Bad : \A y \in Bad : ~(<<y, x>> \in OpToRel(<, Nat))
    BY <1>1, <2>1, WFMin, NatLessThanWellFounded
  <2>3. \A y \in Bad : <<y, x>> \in OpToRel(<, Nat) <=> y < x
    BY <2>1 DEF OpToRel
  <2> QED BY <2>2, <2>3, Zenon
<1>3. x \in Nat /\ lo + x <= hi /\ lo + x \notin Good
  OBVIOUS
<1>4. x # 0
  BY <1>3
<1>5. x - 1 \in Nat /\ x - 1 \notin Bad
  BY <1>2, <1>3, <1>4
<1>6. lo + (x - 1) \in Good
  BY <1>5, <1>3
<1>7. lo + (x - 1) \in lo .. hi - 1 /\ lo + (x - 1) + 1 = lo + x
  BY <1>5, <1>3
<1> QED BY <1>3, <1>6, <1>7

IsRun(f, S, lo, hi, base, step) == /\ f \in [lo .. hi -> S]
                                   /\ f[lo] = base
                                   /\ \A j \in lo + 1 .. hi : f[j] = step[j][f[j - 1]]

LEMMA Loop ==
  ASSUME NEW S, NEW lo \in Int, NEW hi \in Int, lo <= hi, NEW base \in S,
         NEW step \in [lo + 1 .. hi -> [S -> S]]
  PROVE  \E f : IsRun(f, S, lo, hi, base, step)
<1> DEFINE Is(f, k) == f = [j \in lo .. k |-> IF j = lo THEN base ELSE step[j][f[j - 1]]]
           Good == {k \in lo .. hi : \E f \in [lo .. k -> S] : Is(f, k)}
<1>1. lo \in Good
  <2> DEFINE f == [j \in lo .. lo |-> base]
  <2>1. f \in [lo .. lo -> S] /\ Is(f, lo)
    OBVIOUS
  <2>2. \E g \in [lo .. lo -> S] : Is(g, lo)
    BY <2>1
  <2> HIDE DEF Is
  <2> QED BY <2>2
<1>2. ASSUME NEW k \in lo .. hi - 1, k \in Good
      PROVE  k + 1 \in Good
  <2>1. PICK f \in [lo .. k -> S] : Is(f, k)
    BY <1>2
  <2> DEFINE g == [j \in lo .. k + 1 |-> IF j = k + 1 THEN step[k + 1][f[k]] ELSE f[j]]
  <2>2. step[k + 1][f[k]] \in S
    OBVIOUS
  <2>3. g \in [lo .. k + 1 -> S]
    BY <2>2
  <2>4. ASSUME NEW j \in lo .. k + 1
        PROVE  g[j] = IF j = lo THEN base ELSE step[j][g[j - 1]]
    <3>1. CASE j = k + 1
      <4>1. j # lo /\ j - 1 = k /\ g[k] = f[k]
        BY <3>1
      <4> QED BY <3>1, <4>1
    <3>2. CASE j \in lo .. k
      <4>1. j # lo => j - 1 \in lo .. k /\ j - 1 # k + 1
        BY <3>2
      <4>2. j # lo => g[j - 1] = f[j - 1]
        BY <4>1
      <4>3. g[j] = f[j]
        BY <3>2
      <4>4. f[j] = IF j = lo THEN base ELSE step[j][f[j - 1]]
        BY <2>1, <3>2
      <4> QED BY <4>2, <4>3, <4>4
    <3> QED BY <3>1, <3>2
  <2>5. Is(g, k + 1)
    BY <2>4
  <2>6. \E h \in [lo .. k + 1 -> S] : Is(h, k + 1)
    BY <2>3, <2>5
  <2> HIDE DEF Is
  <2> QED BY <2>6
<1>3. \A j \in lo .. hi : j \in Good
  <2> HIDE DEF Good
  <2> QED BY <1>1, <1>2, Induction
<1>4. PICK f \in [lo .. hi -> S] : Is(f, hi)
  <2> HIDE DEF Is
  <2> QED BY <1>3
<1>5. f[lo] = base /\ \A j \in lo + 1 .. hi : f[j] = step[j][f[j - 1]]
  BY <1>4
<1> QED BY <1>5 DEF IsRun

LEMMA SeqOfLength ==
  ASSUME NEW T, NEW n \in Nat, NEW s \in [1 .. n -> T]
  PROVE  s \in Seq(T) /\ Len(s) = n /\ DOMAIN s = 1 .. n
<1>1. s \in Seq(T)
  BY SeqDef
<1>2. DOMAIN s = 1 .. n
  OBVIOUS
<1>3. Len(s) \in Nat /\ 1 .. Len(s) = 1 .. n
  BY <1>1, <1>2, LenProperties
<1>4. Len(s) = n
  <2>1. \A k \in 1 .. n : k <= Len(s)
    BY <1>3
  <2>2. \A k \in 1 .. Len(s) : k <= n
    BY <1>3
  <2> QED BY <1>3, <2>1, <2>2
<1> QED BY <1>1, <1>2, <1>4

-----------------------------------------------------------------------------
(* sortByTime.  s is t with the places from i on permuted.                 *)

Perms(n) == {p \in [1 .. n -> 1 .. n] : /\ \A k, l \in 1 .. n : p[k] = p[l] => k = l
                                        /\ \A k \in 1 .. n : \E l \in 1 .. n : p[l] = k}

Rearranged(s, t, i) ==
  \E p \in Perms(Len(t)) : /\ \A k \in 1 .. i - 1 : p[k] = k
                           /\ s = [k \in 1 .. Len(t) |-> t[p[k]]]

LEMMA RearrangedSame ==
  ASSUME NEW T, NEW t \in Seq(T), NEW i \in 1 .. Len(t) + 1
  PROVE  Rearranged(t, t, i)
<1> DEFINE p == [k \in 1 .. Len(t) |-> k]
<1>1. t = [k \in 1 .. Len(t) |-> t[k]]
  BY LenProperties
<1>2. p \in [1 .. Len(t) -> 1 .. Len(t)] /\ \A k \in 1 .. Len(t) : p[k] = k
  OBVIOUS
<1>3. p \in Perms(Len(t))
  BY <1>2 DEF Perms
<1>4. t = [k \in 1 .. Len(t) |-> t[p[k]]]
  BY <1>1, <1>2
<1>5. \A k \in 1 .. i - 1 : p[k] = k
  <2>1. Len(t) \in Nat
    BY LenProperties
  <2> QED BY <1>2, <2>1
<1> QED BY <1>3, <1>4, <1>5 DEF Rearranged

\* What a rearranged list still has.
Keeps(s, t, i) == /\ \A k \in 1 .. i - 1 : s[k] = t[k]
                  /\ \A k \in i .. Len(t) : \E l \in i .. Len(t) : s[k] = t[l]
                  /\ \A k \in 1 .. Len(t) : \E l \in 1 .. Len(t) : s[l] = t[k]

LEMMA RearrangedFacts ==
  ASSUME NEW T, NEW t \in Seq(T), NEW i \in 1 .. Len(t) + 1, NEW s, Rearranged(s, t, i)
  PROVE  /\ s \in Seq(T) /\ Len(s) = Len(t) /\ DOMAIN s = 1 .. Len(t)
         /\ Keeps(s, t, i)
<1>1. PICK p \in Perms(Len(t)) : /\ \A k \in 1 .. i - 1 : p[k] = k
                                 /\ s = [k \in 1 .. Len(t) |-> t[p[k]]]
  BY DEF Rearranged
<1>2. t \in [1 .. Len(t) -> T] /\ Len(t) \in Nat
  BY LenProperties
<1>3. p \in [1 .. Len(t) -> 1 .. Len(t)]
  BY DEF Perms
<1>4. /\ t \in [1 .. Len(t) -> T] /\ Len(t) \in Nat
      /\ p \in [1 .. Len(t) -> 1 .. Len(t)]
      /\ \A k, l \in 1 .. Len(t) : p[k] = p[l] => k = l
      /\ \A k \in 1 .. Len(t) : \E l \in 1 .. Len(t) : p[l] = k
  BY <1>2, <1>3 DEF Perms
<1>5. s \in [1 .. Len(t) -> T]
  BY <1>1, <1>4
<1>6. s \in Seq(T) /\ Len(s) = Len(t) /\ DOMAIN s = 1 .. Len(t)
  BY <1>4, <1>5, SeqOfLength
<1>7. \A k \in 1 .. i - 1 : s[k] = t[k]
  BY <1>1, <1>4
<1>8. ASSUME NEW k \in i .. Len(t)
      PROVE  \E l \in i .. Len(t) : s[k] = t[l]
  <2>1. k \in 1 .. Len(t) /\ p[k] \in 1 .. Len(t)
    BY <1>2, <1>3
  <2>2. p[k] \in i .. Len(t)
    <3>1. CASE p[k] \in 1 .. i - 1
      <4>1. p[p[k]] = p[k]
        BY <1>1, <3>1
      <4> QED BY <1>4, <2>1, <3>1, <4>1
    <3> QED BY <2>1, <3>1
  <2> QED BY <1>1, <2>1, <2>2
<1>9. ASSUME NEW k \in 1 .. Len(t)
      PROVE  \E l \in 1 .. Len(t) : s[l] = t[k]
  BY <1>1, <1>4
<1> QED BY <1>6, <1>7, <1>8, <1>9 DEF Keeps

LEMMA ExchangeRearranges ==
  ASSUME NEW T, NEW t \in Seq(T), NEW i \in 1 .. Len(t), NEW j \in i .. Len(t),
         NEW s, Rearranged(s, t, i)
  PROVE  Rearranged(Exchange(s, i, j), t, i)
<1>1. PICK p \in Perms(Len(t)) : /\ \A k \in 1 .. i - 1 : p[k] = k
                                 /\ s = [k \in 1 .. Len(t) |-> t[p[k]]]
  BY DEF Rearranged
<1> DEFINE n == Len(t)
           q == [p EXCEPT ![i] = p[j], ![j] = p[i]]
<1>2. n \in Nat
  BY LenProperties
<1>3. i \in 1 .. n /\ j \in 1 .. n /\ i <= j
  BY <1>2
<1>4. p \in [1 .. n -> 1 .. n]
  BY DEF Perms
<1>5. /\ n \in Nat /\ i \in 1 .. n /\ j \in 1 .. n /\ i <= j
      /\ p \in [1 .. n -> 1 .. n]
      /\ \A k, l \in 1 .. n : p[k] = p[l] => k = l
      /\ \A k \in 1 .. n : \E l \in 1 .. n : p[l] = k
  BY <1>2, <1>3, <1>4 DEF Perms
<1> HIDE DEF n
<1>6. /\ q \in [1 .. n -> 1 .. n]
      /\ \A k \in 1 .. n : q[k] = IF k = j THEN p[i] ELSE IF k = i THEN p[j] ELSE p[k]
  BY <1>5
<1> HIDE DEF q
<1>7. \A k, l \in 1 .. n : q[k] = q[l] => k = l
  BY <1>5, <1>6
<1>8. ASSUME NEW k \in 1 .. n
      PROVE  \E l \in 1 .. n : q[l] = k
  <2>1. PICK l \in 1 .. n : p[l] = k
    BY <1>5
  <2>2. q[IF l = i THEN j ELSE IF l = j THEN i ELSE l] = k
    BY <1>5, <1>6, <2>1
  <2> QED BY <1>5, <2>2
<1>9. q \in Perms(n)
  BY <1>6, <1>7, <1>8 DEF Perms
<1>10. \A k \in 1 .. i - 1 : q[k] = k
  BY <1>1, <1>5, <1>6
<1>11. s = [k \in 1 .. n |-> t[p[k]]]
  BY <1>1 DEF n
<1>12. Exchange(s, i, j) = [k \in 1 .. n |-> t[q[k]]]
  BY <1>5, <1>6, <1>11 DEF Exchange
<1> QED BY <1>9, <1>10, <1>12 DEF Rearranged, n

LEMMA RearrangedTwice ==
  ASSUME NEW T, NEW t \in Seq(T), NEW i \in 1 .. Len(t), NEW s, NEW u,
         Rearranged(s, t, 1), Rearranged(u, s, i)
  PROVE  Rearranged(u, t, 1)
<1>1. PICK p \in Perms(Len(t)) : s = [k \in 1 .. Len(t) |-> t[p[k]]]
  BY DEF Rearranged
<1>2. s \in Seq(T) /\ Len(s) = Len(t) /\ Len(t) \in Nat
  BY RearrangedFacts, LenProperties
<1>3. PICK q \in Perms(Len(t)) : u = [k \in 1 .. Len(t) |-> s[q[k]]]
  BY <1>2 DEF Rearranged
<1> DEFINE n == Len(t)
           r == [k \in 1 .. n |-> p[q[k]]]
<1>4. /\ p \in [1 .. n -> 1 .. n] /\ q \in [1 .. n -> 1 .. n]
      /\ \A k, l \in 1 .. n : p[k] = p[l] => k = l
      /\ \A k \in 1 .. n : \E l \in 1 .. n : p[l] = k
      /\ \A k, l \in 1 .. n : q[k] = q[l] => k = l
      /\ \A k \in 1 .. n : \E l \in 1 .. n : q[l] = k
  BY DEF Perms
<1> HIDE DEF n
<1>5. r \in [1 .. n -> 1 .. n] /\ \A k \in 1 .. n : r[k] = p[q[k]]
  BY <1>4
<1> HIDE DEF r
<1>6. ASSUME NEW k \in 1 .. n, NEW l \in 1 .. n, r[k] = r[l]
      PROVE  k = l
  <2>1. q[k] \in 1 .. n /\ q[l] \in 1 .. n /\ p[q[k]] = p[q[l]]
    BY <1>4, <1>5, <1>6
  <2>2. q[k] = q[l]
    BY <1>4, <2>1
  <2> QED BY <1>4, <2>2
<1>7. ASSUME NEW k \in 1 .. n
      PROVE  \E l \in 1 .. n : r[l] = k
  <2>1. PICK m \in 1 .. n : p[m] = k
    BY <1>4
  <2>2. PICK l \in 1 .. n : q[l] = m
    BY <1>4
  <2> QED BY <1>5, <2>1, <2>2
<1>8. r \in Perms(n)
  BY <1>5, <1>6, <1>7 DEF Perms
<1>9. u = [k \in 1 .. n |-> t[r[k]]]
  BY <1>1, <1>3, <1>4, <1>5 DEF n
<1>10. \A k \in 1 .. 1 - 1 : r[k] = k
  OBVIOUS
<1> QED BY <1>8, <1>9, <1>10 DEF Rearranged, n

\* After the inner loop the earliest item from i on is at i.
LEMMA PassFindsEarliest ==
  ASSUME NEW ids, NEW t \in Seq(Items(ids)), NEW i \in 1 .. Len(t)
  PROVE  /\ Rearranged(Pass(t, i), t, i)
         /\ \A k \in i .. Len(t) : Pass(t, i)[i].created <= Pass(t, i)[k].created
<1> DEFINE n == Len(t)
           T == Items(ids)
           S == [1 .. n -> T]
           step == [j \in i + 1 .. n |-> [s \in S |-> InOrder(s, i, j)]]
           Inner(f) == f = [j \in i .. n |-> IF j = i THEN t ELSE InOrder(f[j - 1], i, j)]
           inner == CHOOSE f : Inner(f)
<1>1. n \in Nat /\ i \in 1 .. n /\ t \in S
  BY LenProperties
<1>2. \A x \in T : x.created \in Nat
  BY DEF Items
<1> HIDE DEF n, T
<1>3. step \in [i + 1 .. n -> [S -> S]]
  <2>1. \A s \in S, j \in i + 1 .. n : InOrder(s, i, j) \in S
    BY <1>1 DEF InOrder, Exchange
  <2> QED BY <2>1
<1>4. PICK f : IsRun(f, S, i, n, t, step)
  <2>1. i \in Int /\ n \in Int /\ i <= n /\ t \in S
    BY <1>1
  <2> HIDE DEF S, step
  <2> QED BY <1>3, <2>1, Loop
<1>5. /\ f \in [i .. n -> S] /\ f[i] = t
      /\ \A j \in i + 1 .. n : f[j] = step[j][f[j - 1]]
  <2> HIDE DEF S, step
  <2> QED BY <1>4 DEF IsRun
<1>6. Inner(f)
  <2>1. \A j \in i .. n : j # i => j - 1 \in i .. n /\ j \in i + 1 .. n
    BY <1>1
  <2>2. \A j \in i .. n : j # i => f[j - 1] \in S
    BY <1>5, <2>1
  <2>3. \A j \in i .. n : j # i => step[j][f[j - 1]] = InOrder(f[j - 1], i, j)
    BY <2>1, <2>2
  <2> QED BY <1>5, <2>1, <2>3
<1>7. Inner(inner)
  BY <1>6
<1>8. Pass(t, i) = inner[n]
  BY DEF Pass, n
<1>9. /\ inner[i] = t
      /\ \A j \in i .. n - 1 : inner[j + 1] = InOrder(inner[j], i, j + 1)
  <2>1. \A j \in i .. n : inner[j] = IF j = i THEN t ELSE InOrder(inner[j - 1], i, j)
    BY <1>7
  <2>2. \A j \in i .. n - 1 : j + 1 \in i .. n /\ j + 1 # i /\ (j + 1) - 1 = j
    BY <1>1
  <2>3. i \in i .. n
    BY <1>1
  <2> HIDE DEF inner
  <2> QED BY <2>1, <2>2, <2>3
<1> HIDE DEF inner, Inner, step
<1> DEFINE Found(s, j) == /\ Rearranged(s, t, i)
                          /\ \A k \in i .. j : s[i].created <= s[k].created
           Good == {j \in i .. n : Found(inner[j], j)}
<1>10. i \in Good
  <2>1. Rearranged(t, t, i)
    BY RearrangedSame
  <2>2. t[i].created <= t[i].created
    BY <1>1, <1>2
  <2> QED BY <1>1, <1>9, <2>1, <2>2
<1>11. ASSUME NEW j \in i .. n - 1, j \in Good
       PROVE  j + 1 \in Good
  <2> DEFINE s == inner[j]
  <2>1. Rearranged(s, t, i) /\ \A k \in i .. j : s[i].created <= s[k].created
    BY <1>11
  <2>2. inner[j + 1] = InOrder(s, i, j + 1)
    BY <1>9
  <2> HIDE DEF s
  <2>3. s \in S
    BY <1>1, <2>1, RearrangedFacts, LenProperties DEF n, T
  <2>4. Rearranged(InOrder(s, i, j + 1), t, i)
    <3>1. j + 1 \in i .. Len(t)
      BY <1>1 DEF n
    <3> QED BY <2>1, <3>1, ExchangeRearranges DEF InOrder
  <2>5. \A k \in i .. j + 1 : InOrder(s, i, j + 1)[i].created <= InOrder(s, i, j + 1)[k].created
    <3>1. \A k \in 1 .. n : s[k].created \in Nat
      BY <1>2, <2>3
    <3>2. CASE s[j + 1].created < s[i].created
      <4>1. \A k \in 1 .. n : InOrder(s, i, j + 1)[k] =
              IF k = j + 1 THEN s[i] ELSE IF k = i THEN s[j + 1] ELSE s[k]
        BY <1>1, <2>3, <3>2 DEF InOrder, Exchange
      <4> HIDE DEF S
      <4> QED BY <1>1, <2>1, <3>1, <3>2, <4>1
    <3>3. CASE ~(s[j + 1].created < s[i].created)
      <4>1. InOrder(s, i, j + 1) = s
        BY <3>3 DEF InOrder
      <4>2. s[i].created \in Nat /\ s[j + 1].created \in Nat
        BY <1>1, <3>1
      <4>3. s[i].created <= s[j + 1].created
        BY <3>3, <4>2
      <4>4. \A k \in i .. j + 1 : k \in i .. j \/ k = j + 1
        BY <1>1
      <4>5. \A k \in i .. j + 1 : s[i].created <= s[k].created
        BY <2>1, <4>3, <4>4
      <4> QED BY <4>1, <4>5
    <3> QED BY <3>2, <3>3
  <2> QED BY <2>2, <2>4, <2>5, <1>1
<1>12. n \in Good
  <2>1. i \in Int /\ n \in Int /\ n \in i .. n
    BY <1>1
  <2>2. \A j \in i .. n : j \in Good
    <3> HIDE DEF Good
    <3> QED BY <1>10, <1>11, <2>1, Induction
  <2> QED BY <2>1, <2>2
<1> QED BY <1>8, <1>12 DEF n

(* sortByTime sorts any list by creation time, and only rearranges it.     *)
THEOREM SortSorts ==
  ASSUME NEW ids, NEW t \in Seq(Items(ids))
  PROVE  Sorted(SortByTime(t)) /\ Rearranged(SortByTime(t), t, 1)
<1> DEFINE n == Len(t)
           T == Items(ids)
           S == [1 .. n -> T]
           step == [i \in 0 + 1 .. n |-> [s \in S |-> Pass(s, i)]]
           Outer(f) == f = [i \in 0 .. n |-> IF i = 0 THEN t ELSE Pass(f[i - 1], i)]
           outer == CHOOSE f : Outer(f)
<1>1. n \in Nat /\ t \in S
  BY LenProperties
<1>2. \A s \in S : s \in Seq(T) /\ Len(s) = n /\ DOMAIN s = 1 .. n
  BY <1>1, LenProperties
<1>3. \A s \in S, i \in 1 .. n : /\ Rearranged(Pass(s, i), s, i)
                                 /\ \A k \in i .. n : Pass(s, i)[i].created <= Pass(s, i)[k].created
  BY <1>2, PassFindsEarliest
<1>4. \A s \in S, i \in 1 .. n : \A u : Rearranged(u, s, i) => u \in S
  BY <1>2, RearrangedFacts, LenProperties
<1>5. \A x \in T : x.created \in Nat
  BY DEF Items
<1> HIDE DEF n, T
<1>6. step \in [0 + 1 .. n -> [S -> S]]
  <2>1. \A s \in S, i \in 1 .. n : Pass(s, i) \in S
    BY <1>3, <1>4
  <2> QED BY <1>1, <2>1
<1>7. PICK f : IsRun(f, S, 0, n, t, step)
  <2>1. n \in Int /\ 0 \in Int /\ 0 <= n /\ t \in S
    BY <1>1
  <2> HIDE DEF S, step
  <2> QED BY <1>6, <2>1, Loop
<1>8. /\ f \in [0 .. n -> S] /\ f[0] = t
      /\ \A i \in 0 + 1 .. n : f[i] = step[i][f[i - 1]]
  <2> HIDE DEF S, step
  <2> QED BY <1>7 DEF IsRun
<1>9. Outer(f)
  <2>1. \A i \in 0 .. n : i # 0 => i - 1 \in 0 .. n /\ i \in 0 + 1 .. n
    BY <1>1
  <2>2. \A i \in 0 .. n : i # 0 => f[i - 1] \in S
    BY <1>8, <2>1
  <2>3. \A i \in 0 .. n : i # 0 => step[i][f[i - 1]] = Pass(f[i - 1], i)
    BY <2>1, <2>2
  <2> QED BY <1>8, <2>1, <2>3
<1>10. Outer(outer)
  BY <1>9
<1>11. SortByTime(t) = outer[n]
  BY DEF SortByTime, n
<1>12. /\ outer[0] = t
       /\ \A i \in 0 .. n - 1 : outer[i + 1] = Pass(outer[i], i + 1)
  <2>1. \A i \in 0 .. n : outer[i] = IF i = 0 THEN t ELSE Pass(outer[i - 1], i)
    BY <1>10
  <2> QED BY <1>1, <2>1
<1> HIDE DEF outer, Outer, step
<1> DEFINE Done(s, i) == /\ s \in S /\ Rearranged(s, t, 1)
                         /\ \A k \in 1 .. i : \A l \in k .. n : s[k].created <= s[l].created
           Good == {i \in 0 .. n : Done(outer[i], i)}
<1>13. 0 \in Good
  BY <1>1, <1>12, RearrangedSame
<1>14. ASSUME NEW i \in 0 .. n - 1, i \in Good
       PROVE  i + 1 \in Good
  <2> DEFINE s == outer[i]
             u == Pass(s, i + 1)
  <2>1. /\ s \in S /\ Rearranged(s, t, 1)
        /\ \A k \in 1 .. i : \A l \in k .. n : s[k].created <= s[l].created
    BY <1>14
  <2>2. outer[i + 1] = u /\ i + 1 \in 1 .. n
    BY <1>1, <1>12
  <2> HIDE DEF s
  <2>3. /\ Rearranged(u, s, i + 1)
        /\ \A k \in i + 1 .. n : u[i + 1].created <= u[k].created
    BY <1>3, <2>1, <2>2
  <2> HIDE DEF u
  <2>4. u \in S
    BY <1>4, <2>1, <2>2, <2>3
  <2>5. s \in Seq(T) /\ Len(s) = n
    BY <1>2, <2>1
  <2>6. /\ \A k \in 1 .. i : u[k] = s[k]
        /\ \A k \in i + 1 .. n : \E l \in i + 1 .. n : u[k] = s[l]
    <3>1. i + 1 \in 1 .. Len(s) + 1 /\ i + 1 - 1 = i
      BY <1>1, <2>5
    <3> DEFINE m == i + 1
    <3>2. m \in 1 .. Len(s) + 1 /\ Rearranged(u, s, m)
      BY <2>3, <3>1
    <3> HIDE DEF m
    <3>3. Keeps(u, s, m)
      BY <2>5, <3>2, RearrangedFacts
    <3>4. m - 1 = i
      BY <1>1 DEF m
    <3>5. /\ \A k \in 1 .. i : u[k] = s[k]
          /\ \A k \in m .. n : \E l \in m .. n : u[k] = s[l]
      BY <2>5, <3>3, <3>4 DEF Keeps
    <3> QED BY <3>5 DEF m
  <2>7. Rearranged(u, t, 1)
    BY <2>1, <2>2, <2>3, RearrangedTwice DEF n
  <2>8. ASSUME NEW k \in 1 .. i + 1, NEW l \in k .. n
        PROVE  u[k].created <= u[l].created
    <3>1. CASE k = i + 1
      BY <2>3, <3>1
    <3>2. CASE k <= i /\ l <= i
      BY <2>1, <2>6, <3>2
    <3>3. CASE k <= i /\ i < l
      <4>1. PICK m \in i + 1 .. n : u[l] = s[m]
        BY <2>6, <3>3
      <4>2. k \in 1 .. i /\ m \in k .. n /\ u[k] = s[k]
        BY <2>6, <3>3, <1>1
      <4> QED BY <2>1, <4>1, <4>2
    <3> QED BY <1>1, <3>1, <3>2, <3>3
  <2>9. Done(u, i + 1)
    BY <2>4, <2>7, <2>8
  <2>10. i + 1 \in 0 .. n
    BY <1>1
  <2> HIDE DEF Done
  <2> QED BY <2>2, <2>9, <2>10
<1>15. n \in Good
  <2>1. \A i \in 0 .. n : i \in Good
    <3>1. 0 \in Int /\ n \in Int
      BY <1>1
    <3> HIDE DEF Good
    <3> QED BY <1>13, <1>14, <3>1, Induction
  <2> QED BY <1>1, <2>1
<1>16. Done(SortByTime(t), n)
  BY <1>11, <1>15
<1>17. DOMAIN SortByTime(t) = 1 .. n
  BY <1>16
<1> QED BY <1>1, <1>16, <1>17 DEF Sorted

-----------------------------------------------------------------------------
(* Merge on slices.                                                        *)

\* What the map of Merge can be: items by their ids.
Tables(ids) == {b \in UNION {[D -> Items(ids)] : D \in SUBSET ids} :
                  \A i \in DOMAIN b : b[i].id = i}

LEMMA TableEmpty ==
  ASSUME NEW ids
  PROVE  << >> \in Tables(ids) /\ DOMAIN << >> = {}
<1>1. DOMAIN << >> = {}
  BY EmptySeq, LenProperties
<1>2. << >> \in [{} -> Items(ids)]
  <2>1. << >> \in Seq(Items(ids)) /\ Len(<< >>) = 0
    BY EmptySeq
  <2>2. << >> \in [1 .. 0 -> Items(ids)]
    BY <2>1, LenProperties
  <2> QED BY <2>2
<1> QED BY <1>1, <1>2 DEF Tables

IsPut(c, b, x) == /\ DOMAIN c = DOMAIN b \cup {x.id} /\ c[x.id] = x
                  /\ \A i \in DOMAIN b : i # x.id => c[i] = b[i]

LEMMA TableAdd ==
  ASSUME NEW ids, NEW b \in Tables(ids), NEW x \in Items(ids)
  PROVE  Put(b, x) \in Tables(ids) /\ IsPut(Put(b, x), b, x)
<1> DEFINE c == Put(b, x)
<1>1. c = [i \in DOMAIN b \cup {x.id} |-> IF i = x.id THEN x ELSE b[i]]
  BY DEF Put
<1> HIDE DEF c
<1>2. /\ DOMAIN b \in SUBSET ids /\ \A i \in DOMAIN b : b[i] \in Items(ids) /\ b[i].id = i
      /\ x.id \in ids
  BY DEF Tables, Items
<1>3. /\ DOMAIN c = DOMAIN b \cup {x.id} /\ c[x.id] = x
      /\ \A i \in DOMAIN b : i # x.id => c[i] = b[i]
  BY <1>1
<1>4. c \in [DOMAIN b \cup {x.id} -> Items(ids)]
  BY <1>1, <1>2
<1>5. \A i \in DOMAIN c : c[i].id = i
  BY <1>2, <1>3
<1>6. c \in Tables(ids)
  BY <1>2, <1>3, <1>4, <1>5 DEF Tables
<1> QED BY <1>3, <1>6 DEF c, IsPut

\* The map after n turns of the first loop.
IsMine(b, local, n) ==
  /\ DOMAIN b = {local[k].id : k \in 1 .. n}
  /\ \A i \in DOMAIN b : \E k \in 1 .. n : /\ b[i] = local[k] /\ local[k].id = i
                                           /\ \A l \in k + 1 .. n : local[l].id # i

LEMMA MineStep ==
  ASSUME NEW ids, NEW local \in Seq(Items(ids)), NEW n \in 0 .. Len(local) - 1,
         NEW b \in Tables(ids), IsMine(b, local, n)
  PROVE  /\ AddLocal(b, local[n + 1]) \in Tables(ids)
         /\ IsMine(AddLocal(b, local[n + 1]), local, n + 1)
<1> DEFINE x == local[n + 1]
           c == AddLocal(b, x)
<1>1. n \in Nat /\ n + 1 \in 1 .. Len(local) /\ x \in Items(ids)
  BY LenProperties
<1> HIDE DEF x
<1>2. c \in Tables(ids) /\ IsPut(c, b, x)
  BY <1>1, TableAdd DEF AddLocal
<1>3. /\ c \in Tables(ids) /\ DOMAIN c = DOMAIN b \cup {x.id} /\ c[x.id] = x
      /\ \A i \in DOMAIN b : i # x.id => c[i] = b[i]
  BY <1>2 DEF IsPut
<1> HIDE DEF c
<1>4. DOMAIN c = {local[k].id : k \in 1 .. n + 1}
  <2>1. DOMAIN b = {local[k].id : k \in 1 .. n}
    BY DEF IsMine
  <2>2. \A k : k \in 1 .. n + 1 <=> k \in 1 .. n \/ k = n + 1
    BY <1>1
  <2> QED BY <1>3, <2>1, <2>2 DEF x
<1>5. ASSUME NEW i \in DOMAIN c
      PROVE  \E k \in 1 .. n + 1 : /\ c[i] = local[k] /\ local[k].id = i
                                   /\ \A l \in k + 1 .. n + 1 : local[l].id # i
  <2>1. CASE i = x.id
    <3>1. n + 1 \in 1 .. n + 1 /\ \A l : l \notin (n + 1) + 1 .. n + 1
      BY <1>1
    <3>2. c[i] = local[n + 1] /\ local[n + 1].id = i
      BY <1>3, <2>1 DEF x
    <3> QED BY <3>1, <3>2
  <2>2. CASE i # x.id
    <3>1. i \in DOMAIN b /\ c[i] = b[i]
      BY <1>3, <2>2
    <3>2. PICK k \in 1 .. n : /\ b[i] = local[k] /\ local[k].id = i
                              /\ \A l \in k + 1 .. n : local[l].id # i
      BY <3>1 DEF IsMine
    <3>3. \A l \in k + 1 .. n + 1 : l \in k + 1 .. n \/ l = n + 1
      BY <1>1
    <3>4. \A l \in k + 1 .. n + 1 : local[l].id # i
      BY <2>2, <3>2, <3>3 DEF x
    <3>5. k \in 1 .. n + 1
      BY <1>1
    <3> QED BY <3>1, <3>2, <3>4, <3>5
  <2> QED BY <2>1, <2>2
<1> QED BY <1>3, <1>4, <1>5 DEF IsMine, c, x

\* The map after n turns of the second loop, which starts from b.
IsTheirs(x, b, remote, n, i) ==
  \E k \in 1 .. n :
    /\ x = remote[k] /\ remote[k].id = i
    /\ i \in DOMAIN b => remote[k].created > b[i].created
    /\ \A l \in 1 .. n :
         remote[l].id = i => /\ remote[l].created <= remote[k].created
                             /\ l < k => remote[l].created < remote[k].created

IsStillMine(x, b, remote, n, i) ==
  /\ i \in DOMAIN b /\ x = b[i]
  /\ \A l \in 1 .. n : remote[l].id = i => remote[l].created <= b[i].created

IsBoth(c, b, remote, n) ==
  /\ DOMAIN c = DOMAIN b \cup {remote[k].id : k \in 1 .. n}
  /\ \A i \in DOMAIN c : \/ IsStillMine(c[i], b, remote, n, i)
                         \/ IsTheirs(c[i], b, remote, n, i)

LEMMA BothStep ==
  ASSUME NEW ids, NEW remote \in Seq(Items(ids)), NEW n \in 0 .. Len(remote) - 1,
         NEW b \in Tables(ids), NEW c \in Tables(ids), IsBoth(c, b, remote, n)
  PROVE  /\ AddRemote(c, remote[n + 1]) \in Tables(ids)
         /\ IsBoth(AddRemote(c, remote[n + 1]), b, remote, n + 1)
<1> DEFINE x == remote[n + 1]
           d == AddRemote(c, x)
           keeps == x.id \in DOMAIN c /\ ~(x.created > c[x.id].created)
<1>1. n \in Nat /\ n + 1 \in 1 .. Len(remote) /\ x \in Items(ids)
  BY LenProperties
<1>2. \A k \in 1 .. n + 1 : remote[k].created \in Nat
  <2>1. \A k \in 1 .. n + 1 : k \in 1 .. Len(remote)
    BY <1>1, LenProperties
  <2>2. \A k \in 1 .. n + 1 : remote[k] \in Items(ids)
    BY <2>1, ElementOfSeq
  <2> QED BY <2>2 DEF Items
<1>3. /\ x.created \in Nat
      /\ \A i \in DOMAIN b : b[i].created \in Nat
      /\ \A i \in DOMAIN c : c[i].created \in Nat
  BY <1>1 DEF Tables, Items
<1>4. \A k : k \in 1 .. n + 1 <=> k \in 1 .. n \/ k = n + 1
  BY <1>1
<1>5. n + 1 \notin 1 .. n /\ \A k \in 1 .. n : k < n + 1
  BY <1>1
<1>6. DOMAIN c = DOMAIN b \cup {remote[k].id : k \in 1 .. n}
  BY DEF IsBoth
<1> HIDE DEF x
<1>7. CASE keeps
  <2>1. d = c
    BY <1>7 DEF AddRemote
  <2>2. DOMAIN d = DOMAIN b \cup {remote[k].id : k \in 1 .. n + 1}
    BY <1>4, <1>6, <1>7, <2>1 DEF x
  <2>3. ASSUME NEW i \in DOMAIN d
        PROVE  IsStillMine(d[i], b, remote, n + 1, i) \/ IsTheirs(d[i], b, remote, n + 1, i)
    <3>1. i = x.id => x.created <= c[i].created
      BY <1>3, <1>7
    <3>2. CASE IsStillMine(c[i], b, remote, n, i)
      BY <1>4, <2>1, <3>1, <3>2 DEF IsStillMine, x
    <3>3. CASE IsTheirs(c[i], b, remote, n, i)
      <4>1. PICK k \in 1 .. n :
              /\ c[i] = remote[k] /\ remote[k].id = i
              /\ i \in DOMAIN b => remote[k].created > b[i].created
              /\ \A l \in 1 .. n :
                   remote[l].id = i => /\ remote[l].created <= remote[k].created
                                       /\ l < k => remote[l].created < remote[k].created
        BY <3>3 DEF IsTheirs
      <4>2. ~(n + 1 < k)
        BY <1>1
      <4>3. \A l \in 1 .. n + 1 :
              remote[l].id = i => /\ remote[l].created <= remote[k].created
                                  /\ l < k => remote[l].created < remote[k].created
        BY <1>4, <3>1, <4>1, <4>2 DEF x
      <4>4. k \in 1 .. n + 1
        BY <1>4
      <4> QED BY <2>1, <4>1, <4>3, <4>4 DEF IsTheirs
    <3> QED BY <2>1, <3>2, <3>3 DEF IsBoth
  <2> QED BY <2>1, <2>2, <2>3 DEF IsBoth, x
<1>8. CASE ~keeps
  <2>1. d = Put(c, x)
    BY <1>8 DEF AddRemote
  <2>2. d \in Tables(ids) /\ IsPut(d, c, x)
    BY <1>1, <2>1, TableAdd
  <2>3. /\ d \in Tables(ids) /\ DOMAIN d = DOMAIN c \cup {x.id} /\ d[x.id] = x
        /\ \A i \in DOMAIN c : i # x.id => d[i] = c[i]
    BY <2>2 DEF IsPut
  <2> HIDE DEF d
  <2>4. DOMAIN d = DOMAIN b \cup {remote[k].id : k \in 1 .. n + 1}
    BY <1>4, <1>6, <2>3 DEF x
  <2>5. ASSUME NEW i \in DOMAIN d, i = x.id
        PROVE  IsTheirs(d[i], b, remote, n + 1, i)
    <3>1. d[i] = remote[n + 1] /\ remote[n + 1].id = i /\ n + 1 \in 1 .. n + 1
      BY <1>4, <2>3, <2>5 DEF x
    <3>2. i \in DOMAIN c => x.created > c[i].created
      BY <1>8, <2>5
    <3>3. ASSUME NEW l \in 1 .. n, remote[l].id = i
          PROVE  remote[l].created < x.created
      <4>1. i \in DOMAIN c
        BY <1>6, <3>3
      <4>2. remote[l].created <= c[i].created
        BY <3>3, <4>1 DEF IsBoth, IsStillMine, IsTheirs
      <4>3. remote[l].created \in Nat
        BY <1>2, <1>4
      <4> QED BY <1>3, <3>2, <4>1, <4>2, <4>3
    <3>4. ASSUME i \in DOMAIN b
          PROVE  x.created > b[i].created
      <4>1. i \in DOMAIN c
        BY <1>6, <3>4
      <4>2. c[i].created >= b[i].created
        BY <1>3, <3>4, <4>1, <1>2, <1>4 DEF IsBoth, IsStillMine, IsTheirs
      <4> QED BY <1>3, <3>2, <3>4, <4>1, <4>2
    <3>5. \A l \in 1 .. n + 1 :
            remote[l].id = i => /\ remote[l].created <= remote[n + 1].created
                                /\ l < n + 1 => remote[l].created < remote[n + 1].created
      BY <1>1, <1>2, <1>4, <3>3 DEF x
    <3>6. i \in DOMAIN b => remote[n + 1].created > b[i].created
      BY <3>4 DEF x
    <3> QED BY <3>1, <3>5, <3>6 DEF IsTheirs
  <2>6. ASSUME NEW i \in DOMAIN d, i # x.id
        PROVE  IsStillMine(d[i], b, remote, n + 1, i) \/ IsTheirs(d[i], b, remote, n + 1, i)
    <3>1. i \in DOMAIN c /\ d[i] = c[i] /\ remote[n + 1].id # i
      BY <2>3, <2>6 DEF x
    <3>2. CASE IsStillMine(c[i], b, remote, n, i)
      BY <1>4, <3>1, <3>2 DEF IsStillMine
    <3>3. CASE IsTheirs(c[i], b, remote, n, i)
      <4>1. PICK k \in 1 .. n :
              /\ c[i] = remote[k] /\ remote[k].id = i
              /\ i \in DOMAIN b => remote[k].created > b[i].created
              /\ \A l \in 1 .. n :
                   remote[l].id = i => /\ remote[l].created <= remote[k].created
                                       /\ l < k => remote[l].created < remote[k].created
        BY <3>3 DEF IsTheirs
      <4>2. \A l \in 1 .. n + 1 :
              remote[l].id = i => /\ remote[l].created <= remote[k].created
                                  /\ l < k => remote[l].created < remote[k].created
        BY <1>4, <3>1, <4>1
      <4>3. k \in 1 .. n + 1
        BY <1>4
      <4> QED BY <3>1, <4>1, <4>2, <4>3 DEF IsTheirs
    <3> QED BY <3>1, <3>2, <3>3 DEF IsBoth
  <2> QED BY <2>3, <2>4, <2>5, <2>6 DEF IsBoth, d, x
<1> QED BY <1>7, <1>8

LEMMA MineIsMine ==
  ASSUME NEW ids, NEW local \in Seq(Items(ids)), NEW f,
         f = [n \in 0 .. Len(local) |->
                IF n = 0 THEN << >> ELSE AddLocal(f[n - 1], local[n])]
  PROVE  f[Len(local)] \in Tables(ids) /\ IsMine(f[Len(local)], local, Len(local))
<1> DEFINE N == Len(local)
           Good == {n \in 0 .. N : f[n] \in Tables(ids) /\ IsMine(f[n], local, n)}
<1>1. N \in Nat /\ 0 \in 0 .. N /\ N \in 0 .. N
  BY LenProperties
<1>2. 0 \in Good
  <2>1. f[0] = << >>
    BY <1>1
  <2>2. IsMine(<< >>, local, 0)
    BY TableEmpty DEF IsMine
  <2> QED BY <1>1, <2>1, <2>2, TableEmpty
<1>3. ASSUME NEW n \in 0 .. N - 1, n \in Good
      PROVE  n + 1 \in Good
  <2>1. n + 1 \in 0 .. N /\ n + 1 # 0 /\ (n + 1) - 1 = n
    BY <1>1
  <2>2. f[n + 1] = AddLocal(f[n], local[n + 1])
    BY <2>1
  <2>3. f[n] \in Tables(ids) /\ IsMine(f[n], local, n)
    BY <1>3
  <2> QED BY <2>1, <2>2, <2>3, MineStep
<1>4. \A n \in 0 .. N : n \in Good
  <2>1. 0 \in Int /\ N \in Int
    BY <1>1
  <2> HIDE DEF Good
  <2> QED BY <1>2, <1>3, <2>1, Induction
<1> QED BY <1>1, <1>4

LEMMA BothIsBoth ==
  ASSUME NEW ids, NEW remote \in Seq(Items(ids)), NEW b \in Tables(ids), NEW f,
         f = [n \in 0 .. Len(remote) |->
                IF n = 0 THEN b ELSE AddRemote(f[n - 1], remote[n])]
  PROVE  f[Len(remote)] \in Tables(ids) /\ IsBoth(f[Len(remote)], b, remote, Len(remote))
<1> DEFINE N == Len(remote)
           Good == {n \in 0 .. N : f[n] \in Tables(ids) /\ IsBoth(f[n], b, remote, n)}
<1>1. N \in Nat /\ 0 \in 0 .. N /\ N \in 0 .. N
  BY LenProperties
<1>2. 0 \in Good
  <2>1. f[0] = b
    BY <1>1
  <2>2. IsBoth(b, b, remote, 0)
    <3>1. {remote[k].id : k \in 1 .. 0} = {} /\ \A l : l \notin 1 .. 0
      OBVIOUS
    <3>2. \A i \in DOMAIN b : IsStillMine(b[i], b, remote, 0, i)
      BY <3>1 DEF IsStillMine
    <3> QED BY <3>1, <3>2 DEF IsBoth
  <2> QED BY <1>1, <2>1, <2>2
<1>3. ASSUME NEW n \in 0 .. N - 1, n \in Good
      PROVE  n + 1 \in Good
  <2>1. n + 1 \in 0 .. N /\ n + 1 # 0 /\ (n + 1) - 1 = n
    BY <1>1
  <2>2. f[n + 1] = AddRemote(f[n], remote[n + 1])
    BY <2>1
  <2>3. f[n] \in Tables(ids) /\ IsBoth(f[n], b, remote, n)
    BY <1>3
  <2> QED BY <2>1, <2>2, <2>3, BothStep
<1>4. \A n \in 0 .. N : n \in Good
  <2>1. 0 \in Int /\ N \in Int
    BY <1>1
  <2> HIDE DEF Good
  <2> QED BY <1>2, <1>3, <2>1, Induction
<1> QED BY <1>1, <1>4

\* The loops end, so the recursive functions are what they are written to be.
LEMMA ByIDIsBoth ==
  ASSUME NEW ids, NEW local \in Seq(Items(ids)), NEW remote \in Seq(Items(ids))
  PROVE  /\ ByID(local, remote) \in Tables(ids)
         /\ \E b \in Tables(ids) : /\ IsMine(b, local, Len(local))
                                   /\ IsBoth(ByID(local, remote), b, remote, Len(remote))
<1> DEFINE T == Tables(ids)
           M == Len(local)
           N == Len(remote)
           Mine(f) == f = [n \in 0 .. M |->
                             IF n = 0 THEN << >> ELSE AddLocal(f[n - 1], local[n])]
           mine == CHOOSE f : Mine(f)
           Both(f) == f = [n \in 0 .. N |->
                             IF n = 0 THEN mine[M] ELSE AddRemote(f[n - 1], remote[n])]
           both == CHOOSE f : Both(f)
           add == [n \in 0 + 1 .. M |-> [b \in T |-> AddLocal(b, local[n])]]
           merge == [n \in 0 + 1 .. N |-> [b \in T |-> AddRemote(b, remote[n])]]
<1>1. ByID(local, remote) = both[N]
  BY DEF ByID
<1>2. /\ M \in Nat /\ N \in Nat /\ << >> \in T
      /\ \A n \in 1 .. M : local[n] \in Items(ids)
      /\ \A n \in 1 .. N : remote[n] \in Items(ids)
  BY LenProperties, TableEmpty
<1>3. \A b \in T, x \in Items(ids) : AddLocal(b, x) \in T /\ AddRemote(b, x) \in T
  BY TableAdd DEF AddLocal, AddRemote
<1> HIDE DEF T
<1>4. Mine(mine)
  <2>1. add \in [0 + 1 .. M -> [T -> T]]
    BY <1>2, <1>3
  <2>2. 0 \in Int /\ M \in Int /\ 0 <= M
    BY <1>2
  <2>3. PICK f : IsRun(f, T, 0, M, << >>, add)
    <3> HIDE DEF add
    <3> QED BY <1>2, <2>1, <2>2, Loop
  <2>4. /\ f \in [0 .. M -> T] /\ f[0] = << >>
        /\ \A n \in 0 + 1 .. M : f[n] = add[n][f[n - 1]]
    <3> HIDE DEF add
    <3> QED BY <2>3 DEF IsRun
  <2>5. \A n \in 0 .. M : n # 0 => n - 1 \in 0 .. M /\ n \in 0 + 1 .. M
    BY <1>2
  <2>6. \A n \in 0 .. M : n # 0 => f[n - 1] \in T
    BY <2>4, <2>5
  <2>7. \A n \in 0 .. M : n # 0 => add[n][f[n - 1]] = AddLocal(f[n - 1], local[n])
    BY <2>5, <2>6
  <2>8. Mine(f)
    BY <2>4, <2>5, <2>7
  <2> QED BY <2>8
<1> HIDE DEF add
<1>5. mine[M] \in T /\ IsMine(mine[M], local, M)
  <2> HIDE DEF mine
  <2> QED BY <1>4, MineIsMine DEF T
<1> HIDE DEF mine
<1>6. Both(both)
  <2>1. merge \in [0 + 1 .. N -> [T -> T]]
    BY <1>2, <1>3
  <2>2. 0 \in Int /\ N \in Int /\ 0 <= N
    BY <1>2
  <2>3. PICK f : IsRun(f, T, 0, N, mine[M], merge)
    <3> HIDE DEF merge
    <3> QED BY <1>5, <2>1, <2>2, Loop
  <2>4. /\ f \in [0 .. N -> T] /\ f[0] = mine[M]
        /\ \A n \in 0 + 1 .. N : f[n] = merge[n][f[n - 1]]
    <3> HIDE DEF merge
    <3> QED BY <2>3 DEF IsRun
  <2>5. \A n \in 0 .. N : n # 0 => n - 1 \in 0 .. N /\ n \in 0 + 1 .. N
    BY <1>2
  <2>6. \A n \in 0 .. N : n # 0 => f[n - 1] \in T
    BY <2>4, <2>5
  <2>7. \A n \in 0 .. N : n # 0 => merge[n][f[n - 1]] = AddRemote(f[n - 1], remote[n])
    BY <2>5, <2>6
  <2>8. Both(f)
    BY <2>4, <2>5, <2>7
  <2> QED BY <2>8
<1> HIDE DEF merge
<1>7. both[N] \in T /\ IsBoth(both[N], mine[M], remote, N)
  <2> HIDE DEF both
  <2> QED BY <1>5, <1>6, BothIsBoth DEF T
<1> QED BY <1>1, <1>5, <1>7 DEF T

\* So the map has one item of each id, the right one.
LEMMA ByIDChooses ==
  ASSUME NEW ids, NEW local \in Seq(Items(ids)), NEW remote \in Seq(Items(ids))
  PROVE  /\ ByID(local, remote) \in Tables(ids)
         /\ DOMAIN ByID(local, remote) = IdsOf(local) \cup IdsOf(remote)
         /\ \A i \in DOMAIN ByID(local, remote) :
              Chosen(ByID(local, remote)[i], local, remote)
<1> DEFINE c == ByID(local, remote)
<1>1. PICK b \in Tables(ids) : /\ IsMine(b, local, Len(local))
                               /\ IsBoth(c, b, remote, Len(remote))
  BY ByIDIsBoth
<1>2. c \in Tables(ids)
  BY ByIDIsBoth
<1> HIDE DEF c
<1>3. /\ DOMAIN local = 1 .. Len(local) /\ Len(local) \in Nat
      /\ DOMAIN remote = 1 .. Len(remote) /\ Len(remote) \in Nat
  BY LenProperties
<1>4. DOMAIN b = IdsOf(local)
  BY <1>1, <1>3 DEF IsMine, IdsOf
<1>5. DOMAIN c = IdsOf(local) \cup IdsOf(remote)
  BY <1>1, <1>3, <1>4 DEF IsBoth, IdsOf
<1>6. ASSUME NEW i \in DOMAIN b
      PROVE  \E k \in DOMAIN local : b[i] = local[k] /\ local[k].id = i /\ IsLast(local, k)
  <2>1. PICK k \in 1 .. Len(local) : /\ b[i] = local[k] /\ local[k].id = i
                                     /\ \A l \in k + 1 .. Len(local) : local[l].id # i
    BY <1>1 DEF IsMine
  <2>2. \A l \in DOMAIN local : l > k => l \in k + 1 .. Len(local)
    BY <1>3
  <2> QED BY <1>3, <2>1, <2>2 DEF IsLast
<1>7. ASSUME NEW i \in DOMAIN c
      PROVE  Chosen(c[i], local, remote)
  <2>1. c[i].id = i
    BY <1>2 DEF Tables
  <2>2. CASE IsStillMine(c[i], b, remote, Len(remote), i)
    <3>1. i \in DOMAIN b /\ c[i] = b[i]
          /\ \A l \in DOMAIN remote : remote[l].id = i => remote[l].created <= b[i].created
      BY <1>3, <2>2 DEF IsStillMine
    <3>2. PICK k \in DOMAIN local : b[i] = local[k] /\ IsLast(local, k)
      BY <1>6, <3>1
    <3> QED BY <2>1, <3>1, <3>2 DEF Chosen
  <2>3. CASE IsTheirs(c[i], b, remote, Len(remote), i)
    <3>1. PICK k \in DOMAIN remote :
            /\ c[i] = remote[k] /\ remote[k].id = i
            /\ i \in DOMAIN b => remote[k].created > b[i].created
            /\ \A l \in DOMAIN remote :
                 remote[l].id = i => /\ remote[l].created <= remote[k].created
                                     /\ l < k => remote[l].created < remote[k].created
      BY <1>3, <2>3 DEF IsTheirs
    <3>2. IsFirstNewest(remote, k)
      BY <3>1 DEF IsFirstNewest
    <3>3. ASSUME NEW l \in DOMAIN local, local[l].id = i, IsLast(local, l)
          PROVE  c[i].created > local[l].created
      <4>1. i \in DOMAIN b
        BY <1>4, <3>3 DEF IdsOf
      <4>2. PICK m \in DOMAIN local : b[i] = local[m] /\ local[m].id = i /\ IsLast(local, m)
        BY <1>6, <4>1
      <4>3. m = l
        BY <1>3, <3>3, <4>2 DEF IsLast
      <4> QED BY <3>1, <4>1, <4>2, <4>3
    <3> QED BY <2>1, <3>1, <3>2, <3>3 DEF Chosen
  <2> QED BY <1>1, <2>2, <2>3 DEF IsBoth
<1> QED BY <1>2, <1>5, <1>7 DEF c

\* For lists that Publish accepts the choice is that of Merged.
LEMMA ChosenIsMerged ==
  ASSUME NEW ids, NEW local \in Seq(Items(ids)), NEW remote \in Seq(Items(ids)), NEW NoId,
         Valid(local, NoId), Valid(remote, NoId),
         NEW x, Chosen(x, local, remote), NEW i \in IdsOf(local) \cup IdsOf(remote), x.id = i
  PROVE  Merged(AsList(local), AsList(remote))[i] = x
<1>1. /\ \A k, l \in DOMAIN local : local[k].id = local[l].id => k = l
      /\ \A k, l \in DOMAIN remote : remote[k].id = remote[l].id => k = l
  BY DEF Valid
<1>2. /\ \A k \in DOMAIN local : local[k].created \in Nat
      /\ \A k \in DOMAIN remote : remote[k].created \in Nat
  <2>1. /\ \A k \in DOMAIN local : local[k] \in Items(ids)
        /\ \A k \in DOMAIN remote : remote[k] \in Items(ids)
    BY LenProperties
  <2> QED BY <2>1 DEF Items
<1>3. /\ DOMAIN AsList(local) = IdsOf(local)
      /\ \A k \in DOMAIN local : local[k].id \in IdsOf(local)
                                 /\ AsList(local)[local[k].id] = local[k]
  BY <1>1 DEF AsList, IdsOf
<1>4. /\ DOMAIN AsList(remote) = IdsOf(remote)
      /\ \A k \in DOMAIN remote : remote[k].id \in IdsOf(remote)
                                  /\ AsList(remote)[remote[k].id] = remote[k]
  BY <1>1 DEF AsList, IdsOf
<1>5. Merged(AsList(local), AsList(remote))[i] =
        IF i \notin IdsOf(remote) THEN AsList(local)[i]
        ELSE IF i \notin IdsOf(local) THEN AsList(remote)[i]
        ELSE Later(AsList(local)[i], AsList(remote)[i])
  BY <1>3, <1>4 DEF Merged
<1>6. ASSUME NEW k \in DOMAIN local, x = local[k],
             \A l \in DOMAIN remote : remote[l].id = x.id => remote[l].created <= x.created
      PROVE  Merged(AsList(local), AsList(remote))[i] = x
  <2>1. i \in IdsOf(local) /\ AsList(local)[i] = x
    BY <1>3, <1>6
  <2>2. CASE i \notin IdsOf(remote)
    BY <1>5, <2>1, <2>2
  <2>3. CASE i \in IdsOf(remote)
    <3>1. PICK l \in DOMAIN remote : remote[l].id = i
      BY <2>3 DEF IdsOf
    <3>2. AsList(remote)[i] = remote[l] /\ ~(remote[l].created > x.created)
      BY <1>2, <1>4, <1>6, <3>1
    <3> QED BY <1>5, <2>1, <2>3, <3>2 DEF Later
  <2> QED BY <2>2, <2>3
<1>7. ASSUME NEW k \in DOMAIN remote, x = remote[k],
             \A l \in DOMAIN local :
               local[l].id = x.id /\ IsLast(local, l) => x.created > local[l].created
      PROVE  Merged(AsList(local), AsList(remote))[i] = x
  <2>1. i \in IdsOf(remote) /\ AsList(remote)[i] = x
    BY <1>4, <1>7
  <2>2. CASE i \notin IdsOf(local)
    BY <1>5, <2>1, <2>2
  <2>3. CASE i \in IdsOf(local)
    <3>1. PICK l \in DOMAIN local : local[l].id = i
      BY <2>3 DEF IdsOf
    <3>2. IsLast(local, l)
      <4>1. DOMAIN local = 1 .. Len(local)
        BY LenProperties
      <4> QED BY <1>1, <3>1, <4>1 DEF IsLast
    <3>3. AsList(local)[i] = local[l] /\ x.created > local[l].created
      BY <1>3, <1>7, <3>1, <3>2
    <3> QED BY <1>5, <2>1, <2>3, <3>3 DEF Later
  <2> QED BY <2>2, <2>3
<1> QED BY <1>6, <1>7 DEF Chosen

LEMMA IdsAreFinite ==
  ASSUME NEW T, NEW s \in Seq(T)
  PROVE  IsFiniteSet(IdsOf(s))
<1> DEFINE f == [k \in 1 .. Len(s) |-> s[k].id]
<1>1. DOMAIN s = 1 .. Len(s) /\ Len(s) \in Nat
  BY LenProperties
<1>2. f \in Surjection(1 .. Len(s), IdsOf(s))
  BY <1>1 DEF Surjection, IdsOf
<1>3. IsFiniteSet(1 .. Len(s))
  BY <1>1, FS_Interval
<1> HIDE DEF f
<1> QED BY <1>2, <1>3, FS_Surjection

(* Whatever the order of the map, CRDT.Merge returns one item of each id,  *)
(* the newest as it goes by creation time, in the order of creation; for   *)
(* lists that Publish accepts it is Merged.                                *)
THEOREM MergeOfSlices ==
  ASSUME NEW ids, NEW local \in Seq(Items(ids)), NEW remote \in Seq(Items(ids)),
         NEW NoId, NEW result \in Merges(local, remote)
  PROVE  KeepsNewest(result, local, remote, NoId) /\ Sorted(result)
<1> DEFINE byID == ByID(local, remote)
           D == DOMAIN byID
           N == Cardinality(D)
<1>1. /\ byID \in Tables(ids) /\ D = IdsOf(local) \cup IdsOf(remote)
      /\ \A i \in D : Chosen(byID[i], local, remote)
  BY ByIDChooses
<1>2. IsFiniteSet(D) /\ N \in Nat
  BY <1>1, IdsAreFinite, FS_Union, FS_CardinalityType
<1>3. PICK order \in SetToSeqs(D) :
        result = SortByTime([n \in DOMAIN order |-> byID[order[n]]])
  BY DEF Merges
<1>4. /\ order \in [1 .. N -> D]
      /\ \A i, j \in 1 .. N : i # j => order[i] # order[j]
  BY DEF SetToSeqs
<1> HIDE DEF byID
<1>5. \A i \in D : \E n \in 1 .. N : order[n] = i
  <2>1. order \in Injection(1 .. N, D)
    BY <1>4 DEF Injection, IsInjective
  <2>2. IsFiniteSet(1 .. N) /\ Cardinality(1 .. N) = N
    BY <1>2, FS_Interval
  <2>3. order \in Surjection(1 .. N, D)
    BY <1>2, <2>1, <2>2, FS_Injection
  <2> QED BY <2>3 DEF Surjection
<1> DEFINE list == [n \in 1 .. N |-> byID[order[n]]]
<1>6. result = SortByTime(list)
  BY <1>3, <1>4
<1>7. \A i \in D : byID[i] \in Items(ids) /\ byID[i].id = i
  BY <1>1 DEF Tables
<1> HIDE DEF D
<1>8. list \in [1 .. N -> Items(ids)]
  BY <1>4, <1>7
<1> HIDE DEF N
<1>9. list \in Seq(Items(ids)) /\ Len(list) = N
  BY <1>2, <1>8, SeqOfLength
<1>10. Sorted(result) /\ Rearranged(result, list, 1)
  BY <1>6, <1>9, SortSorts
<1>11. /\ Len(result) = N /\ DOMAIN result = 1 .. N /\ Keeps(result, list, 1)
  <2>1. 1 \in 1 .. Len(list) + 1
    BY <1>2, <1>9
  <2> HIDE DEF list
  <2> QED BY <1>9, <1>10, <2>1, RearrangedFacts
<1>12. \A n \in 1 .. N : list[n] = byID[order[n]] /\ order[n] \in D
  BY <1>4
<1> HIDE DEF list
<1>13. /\ \A k \in 1 .. N : \E l \in 1 .. N : result[k] = list[l]
       /\ \A k \in 1 .. N : \E l \in 1 .. N : result[l] = list[k]
  BY <1>9, <1>11 DEF Keeps
<1>14. ASSUME NEW k \in 1 .. N
       PROVE  result[k].id \in D /\ result[k] = byID[result[k].id]
  <2>1. PICK l \in 1 .. N : result[k] = list[l]
    BY <1>13
  <2> QED BY <1>7, <1>12, <2>1
<1>15. ASSUME NEW i \in D
       PROVE  \E k \in 1 .. N : result[k].id = i
  <2>1. PICK n \in 1 .. N : order[n] = i
    BY <1>5
  <2>2. PICK k \in 1 .. N : result[k] = list[n]
    BY <1>13
  <2> QED BY <1>7, <1>12, <2>1, <2>2
<1>16. IdsOf(result) = D
  BY <1>11, <1>14, <1>15 DEF IdsOf
<1>17. \A k \in DOMAIN result : Chosen(result[k], local, remote)
  BY <1>1, <1>11, <1>14 DEF D
<1>18. ASSUME Valid(local, NoId), Valid(remote, NoId)
       PROVE  AsList(result) = Merged(AsList(local), AsList(remote))
  <2>1. DOMAIN AsList(result) = D /\ AsList(result) = [i \in D |-> AsList(result)[i]]
    BY <1>16 DEF AsList
  <2>2. DOMAIN Merged(AsList(local), AsList(remote)) = D
    BY <1>1 DEF Merged, AsList
  <2>3. ASSUME NEW i \in D
        PROVE  AsList(result)[i] = Merged(AsList(local), AsList(remote))[i]
    <3>1. AsList(result)[i] = result[CHOOSE n \in DOMAIN result : result[n].id = i]
      BY <1>16 DEF AsList
    <3>2. AsList(result)[i] = byID[i]
      BY <1>11, <1>14, <1>15, <3>1
    <3>3. Merged(AsList(local), AsList(remote))[i] = byID[i]
      <4>1. Chosen(byID[i], local, remote) /\ byID[i].id = i
            /\ i \in IdsOf(local) \cup IdsOf(remote)
        BY <1>1, <1>7 DEF D
      <4> QED BY <1>18, <4>1, ChosenIsMerged
    <3> QED BY <3>2, <3>3
  <2>4. Merged(AsList(local), AsList(remote)) =
          [i \in D |-> Merged(AsList(local), AsList(remote))[i]]
    BY <2>2 DEF Merged
  <2> QED BY <2>1, <2>3, <2>4
<1>19. Len(result) = Cardinality(IdsOf(local) \cup IdsOf(remote))
  BY <1>1, <1>11 DEF N
<1>20. IdsOf(result) = IdsOf(local) \cup IdsOf(remote)
  BY <1>1, <1>16 DEF D
<1> QED BY <1>10, <1>17, <1>18, <1>19, <1>20 DEF KeepsNewest
=============================================================================
