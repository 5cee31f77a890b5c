------------------------------- MODULE WatchProofs -------------------------------
(***************************************************************************)
(* The watches of a process and the delivery of what they match, for all   *)
(* contents, limits, cooldowns and windows.                                *)
(*                                                                         *)
(* Watches: however the list is edited between outputs, none fires more    *)
(* often than it was asked to, and none is silenced but by one that it can *)
(* be taken for. The service recognises a watch by its contents and its    *)
(* rank among equals; that is enough because among equals the fired ones   *)
(* come first (FiredFirst), and because a watch never has a higher rank in *)
(* the list than among the matchers of before (DonorIs).                   *)
(*                                                                         *)
(* Delivery: the bound on bursts speaks of deliveries only; that it is     *)
(* inductive needs the windows they were made in: windows do not overlap,  *)
(* each holds at most MaxPerWindow deliveries, and its first delivery      *)
(* opens it.                                                               *)
(***************************************************************************)
EXTENDS LogWatches, NotificationDelivery, PlacesProofs

-----------------------------------------------------------------------------
(* Watches *)

Watch == [key : Keys, serial : Nat]
Matcher == [key : Keys, serial : Nat, fired : BOOLEAN, lastMatchTime : Nat]
Added == [key : Keys, epoch : Nat]

(* A list has the watches that were added, the older before the newer. *)
InOrder(seq) ==
    /\ \A i \in DOMAIN seq : /\ seq[i].serial \in DOMAIN added
                             /\ seq[i].key = added[seq[i].serial].key
    /\ \A i, j \in DOMAIN seq : i < j => seq[i].serial < seq[j].serial

OfEpoch(seq) == \A i \in DOMAIN seq : added[seq[i].serial].epoch = epoch

(* Among equals the fired ones come first: whoever inherits by rank inherits
   from one that is no newer than itself. *)
FiredFirst(matchers) ==
    \A i, j \in DOMAIN matchers :
        i < j /\ matchers[i].key = matchers[j].key /\ matchers[j].fired
            => matchers[i].fired

(* A matcher knows that its watch has fired. When that cannot be taken for
   another it knows no more than that, and when it did. *)
Remembers(m) ==
    /\ Fired(m.serial) => m.fired
    /\ ~HasTwin(m.serial) =>
          /\ m.fired => Fired(m.serial)
          /\ \A f \in DOMAIN firings :
                firings[f].serial = m.serial => firings[f].at <= m.lastMatchTime

Matched(matchers) ==
    /\ matchers \in Seq(Matcher) /\ InOrder(matchers) /\ FiredFirst(matchers)
    /\ \A i \in DOMAIN matchers : Remembers(matchers[i])

(* What is on the list now and is not newer than some matcher has a matcher. *)
Follows(matchers) ==
    \A i \in DOMAIN watches, j \in DOMAIN matchers :
        watches[i].serial <= matchers[j].serial
            => \E k \in DOMAIN matchers : matchers[k].serial = watches[i].serial

Alike(matchers) ==
    /\ DOMAIN matchers = DOMAIN watches
    /\ \A i \in DOMAIN watches : matchers[i].serial = watches[i].serial

WatchTyped ==
    /\ registered \in BOOLEAN
    /\ watches \in Seq(Watch) /\ Len(watches) <= MaxWatches
    /\ ~registered => watches = <<>>
    /\ revision \in Int /\ generation \in Nat \cup {-1} /\ generation <= revision
    /\ registered => generation \in Nat
    /\ time \in Nat /\ epoch \in Nat
    /\ added \in Seq(Added)
    /\ firings \in Seq([serial : Nat, at : Nat])
    /\ \A i \in DOMAIN firings : /\ firings[i].serial \in DOMAIN added
                                 /\ firings[i].at <= time
    /\ missed \subseteq DOMAIN added
    /\ InOrder(watches) /\ OfEpoch(watches)

CompiledFollows ==
    compiled # NoMatchers =>
        /\ registered
        /\ compiled \in [matchers : Seq(Matcher), revision : Nat, generation : Nat]
        /\ Matched(compiled.matchers) /\ Len(compiled.matchers) \in 1 .. MaxWatches
        /\ compiled.revision <= revision /\ compiled.generation <= generation
        /\ compiled.generation = generation =>
              OfEpoch(compiled.matchers) /\ Follows(compiled.matchers)
        /\ compiled.revision = revision =>
              Alike(compiled.matchers) /\ compiled.generation = generation

(* A watch on the list that has fired has a matcher. *)
FiredIsKnown ==
    \A i \in DOMAIN watches : Fired(watches[i].serial) =>
        /\ compiled # NoMatchers /\ compiled.generation = generation
        /\ \E k \in DOMAIN compiled.matchers :
              compiled.matchers[k].serial = watches[i].serial

WatchInv ==
    /\ WatchTyped /\ CompiledFollows /\ FiredIsKnown
    /\ FiresAsOftenAsAsked /\ FirstMatchFires

LEMMA WatchLists ==
    ASSUME WatchTyped
    PROVE  /\ Len(watches) \in Nat /\ DOMAIN watches = 1 .. Len(watches)
           /\ \A i \in DOMAIN watches : watches[i] \in Watch
           /\ Len(added) \in Nat /\ DOMAIN added = 1 .. Len(added)
           /\ \A s \in DOMAIN added : added[s] \in Added
           /\ Len(firings) \in Nat /\ DOMAIN firings = 1 .. Len(firings)
           /\ \A f \in DOMAIN firings : firings[f] \in [serial : Nat, at : Nat]
BY LenProperties, ElementOfSeq DEF WatchTyped

LEMMA MatcherLists ==
    ASSUME NEW ms \in Seq(Matcher)
    PROVE  /\ Len(ms) \in Nat /\ DOMAIN ms = 1 .. Len(ms)
           /\ \A i \in DOMAIN ms : ms[i] \in Matcher
BY LenProperties, ElementOfSeq

-----------------------------------------------------------------------------
(* Catching up with the list *)

LEMMA NoMoreThan ==
    ASSUME NEW m \in Nat, NEW W \in SUBSET (1 .. m), NEW i \in 0 .. m,
           NEW n \in Nat, NEW B \in SUBSET (1 .. n), NEW k \in 0 .. n,
           NEW g \in [{w \in W : w <= i} -> {b \in B : b <= k}],
           \A v, w \in {x \in W : x <= i} : g[v] = g[w] => v = w
    PROVE  Rank(W, i) <= Rank(B, k)
<1>1. IsFiniteSet(B)
  BY Ranks
<1>2. IsFiniteSet({b \in B : b <= k})
  BY <1>1, FS_Subset
<1> DEFINE S == {w \in W : w <= i}
           T == {b \in B : b <= k}
<1>3. g \in Injection(S, T)
  BY DEF Injection, IsInjective
<1>4. Rank(W, i) = Cardinality(S) /\ Rank(B, k) = Cardinality(T) /\ IsFiniteSet(T)
  BY <1>2 DEF Rank
<1> HIDE DEF S, T
<1> QED
  BY <1>3, <1>4, FS_Injection

(* What the list and the matchers before it have in common. *)
Precedes(prev) ==
    /\ Matched(prev) /\ OfEpoch(prev) /\ Follows(prev)
    /\ \A i \in DOMAIN watches : Fired(watches[i].serial) =>
          \E k \in DOMAIN prev : prev[k].serial = watches[i].serial

LEMMA NoLaterRank ==
    ASSUME WatchTyped, NEW prev, Precedes(prev), NEW i \in DOMAIN watches,
           NEW k \in DOMAIN prev, prev[k].serial = watches[i].serial
    PROVE  LET B == Bucket(prev, watches[i].key)
               W == Bucket(watches, watches[i].key)
           IN  i \in W /\ k \in B /\ Rank(W, i) <= Rank(B, k)
<1> DEFINE B == Bucket(prev, watches[i].key)
           W == Bucket(watches, watches[i].key)
           F == {w \in W : w <= i}
           G == {b \in B : b <= k}
           g == [w \in F |-> CHOOSE b \in G : prev[b].serial = watches[w].serial]
<1>1. /\ Len(watches) \in Nat /\ DOMAIN watches = 1 .. Len(watches)
      /\ \A w \in DOMAIN watches : watches[w].serial \in Nat
  BY WatchLists DEF Watch
<1>2. /\ Len(prev) \in Nat /\ DOMAIN prev = 1 .. Len(prev)
      /\ \A b \in DOMAIN prev : prev[b].serial \in Nat
  BY MatcherLists DEF Precedes, Matched, Matcher
<1>3. InOrder(watches) /\ InOrder(prev) /\ Follows(prev)
  BY DEF WatchTyped, Precedes, Matched
<1>4. i \in W /\ k \in B
  BY <1>3 DEF InOrder, Bucket
<1>5. ASSUME NEW w \in F
      PROVE  \E b \in G : prev[b].serial = watches[w].serial
  <2>1. w \in DOMAIN watches /\ w <= i /\ watches[w].key = watches[i].key
    BY DEF Bucket
  <2>2. watches[w].serial <= prev[k].serial
    BY <1>1, <1>3, <2>1 DEF InOrder
  <2>3. PICK b \in DOMAIN prev : prev[b].serial = watches[w].serial
    BY <1>3, <2>1, <2>2 DEF Follows
  <2>4. prev[b].key = watches[i].key
    BY <1>3, <2>1, <2>3 DEF InOrder
  <2>5. b <= k
    <3>1. k < b => prev[k].serial < prev[b].serial
      BY <1>3 DEF InOrder
    <3> QED
      BY <1>2, <2>2, <2>3, <3>1
  <2> QED
    BY <2>3, <2>4, <2>5 DEF Bucket
<1>6. g \in [F -> G] /\ \A w \in F : prev[g[w]].serial = watches[w].serial
  BY <1>5
<1>7. ASSUME NEW v \in F, NEW w \in F, g[v] = g[w]
      PROVE  v = w
  <2>1. watches[v].serial = watches[w].serial
    BY <1>6, <1>7
  <2>2. v \in DOMAIN watches /\ w \in DOMAIN watches
    BY DEF Bucket
  <2>3. v < w => watches[v].serial < watches[w].serial
    BY <1>3, <2>2 DEF InOrder
  <2>4. w < v => watches[w].serial < watches[v].serial
    BY <1>3, <2>2 DEF InOrder
  <2> QED
    BY <1>1, <2>1, <2>2, <2>3, <2>4
<1> HIDE DEF g
<1>8. /\ W \in SUBSET (1 .. Len(watches)) /\ B \in SUBSET (1 .. Len(prev))
      /\ i \in 0 .. Len(watches) /\ k \in 0 .. Len(prev)
  BY <1>1, <1>2 DEF Bucket
<1> HIDE DEF W, B
<1>9. Rank(W, i) <= Rank(B, k)
  BY <1>1, <1>2, <1>6, <1>7, <1>8, NoMoreThan
<1> QED
  BY <1>4, <1>9 DEF W, B

(* One of the same contents and epoch is a twin. *)
LEMMA NoTwinSame ==
    ASSUME WatchTyped, NEW s \in DOMAIN added, NEW t \in DOMAIN added, ~HasTwin(s),
           added[s].key = added[t].key, added[s].epoch = added[t].epoch
    PROVE  t = s
<1>1. added[s] \in Added /\ added[t] \in Added
  BY WatchLists
<1>2. added[s] = added[t]
  BY <1>1 DEF Added
<1> QED
  BY <1>2 DEF HasTwin

(* What a matcher list compiled from the watches has in common with them. *)
Compiled(ms) ==
    /\ ms \in Seq(Matcher) /\ DOMAIN ms = DOMAIN watches
    /\ \A i \in DOMAIN watches : /\ ms[i].serial = watches[i].serial
                                 /\ ms[i].key = watches[i].key

LEMMA CompiledListed ==
    ASSUME WatchTyped, NEW ms, Compiled(ms)
    PROVE  InOrder(ms) /\ OfEpoch(ms) /\ Alike(ms)
BY DEF Compiled, WatchTyped, InOrder, OfEpoch, Alike

LEMMA CompiledAnew ==
    ASSUME WatchTyped
    PROVE  /\ Compiled(compileLogMatchers)
           /\ \A i \in DOMAIN watches :
                 ~compileLogMatchers[i].fired /\ compileLogMatchers[i].lastMatchTime = 0
<1>1. \A i \in 1 .. Len(watches) : watches[i].key \in Keys /\ watches[i].serial \in Nat
  BY WatchLists DEF Watch
<1>2. Len(watches) \in Nat /\ DOMAIN watches = 1 .. Len(watches)
  BY WatchLists
<1>3. \A i \in 1 .. Len(watches) :
        [key |-> watches[i].key, serial |-> watches[i].serial,
         fired |-> FALSE, lastMatchTime |-> 0] \in Matcher
  BY <1>1 DEF Matcher
<1>4. compileLogMatchers = [i \in 1 .. Len(watches) |->
        [key |-> watches[i].key, serial |-> watches[i].serial,
         fired |-> FALSE, lastMatchTime |-> 0]]
  BY <1>2 DEF compileLogMatchers
<1>5. compileLogMatchers \in Seq(Matcher)
  BY <1>2, <1>3, <1>4
<1> QED
  BY <1>2, <1>4, <1>5 DEF Compiled

LEMMA FreshMatched ==
    ASSUME WatchTyped, \A i \in DOMAIN watches : ~Fired(watches[i].serial)
    PROVE  Matched(compileLogMatchers)
<1>1. Compiled(compileLogMatchers)
  BY CompiledAnew
<1>2. FiredFirst(compileLogMatchers)
  BY <1>1, CompiledAnew DEF Compiled, FiredFirst
<1>3. ASSUME NEW i \in DOMAIN compileLogMatchers
      PROVE  Remembers(compileLogMatchers[i])
  <2>1. /\ i \in DOMAIN watches /\ ~compileLogMatchers[i].fired
        /\ compileLogMatchers[i].serial = watches[i].serial
    BY <1>1, CompiledAnew DEF Compiled
  <2>2. ~Fired(compileLogMatchers[i].serial)
    BY <2>1
  <2> QED
    BY <2>1, <2>2 DEF Remembers, Fired
<1> QED
  BY <1>1, <1>2, <1>3, CompiledListed DEF Matched, Compiled

(* Which matcher the i-th watch inherits from. *)
RankAmong(i) == Rank(Bucket(watches, watches[i].key), i)
Donor(prev, i) == Nth(Bucket(prev, watches[i].key), RankAmong(i))
Inherited(prev, i) == RankAmong(i) <= Cardinality(Bucket(prev, watches[i].key))

LEMMA DonorIs ==
    ASSUME WatchTyped, NEW prev, Precedes(prev)
    PROVE  /\ \A i \in DOMAIN watches : Inherited(prev, i) =>
                 /\ Donor(prev, i) \in DOMAIN prev
                 /\ prev[Donor(prev, i)].key = watches[i].key
           /\ \A i, j \in DOMAIN watches :
                 i < j /\ watches[i].key = watches[j].key /\ Inherited(prev, j) =>
                    Inherited(prev, i) /\ Donor(prev, i) < Donor(prev, j)
           /\ \A i \in DOMAIN watches, k \in DOMAIN prev :
                 prev[k].serial = watches[i].serial =>
                    Inherited(prev, i) /\ Donor(prev, i) <= k /\ prev[k].key = watches[i].key
<1>1. Len(watches) \in Nat /\ DOMAIN watches = 1 .. Len(watches)
  BY WatchLists
<1>2. Len(prev) \in Nat /\ DOMAIN prev = 1 .. Len(prev)
  BY MatcherLists DEF Precedes, Matched
<1> DEFINE W(key) == Bucket(watches, key)
           B(key) == Bucket(prev, key)
<1>3. \A key : W(key) \in SUBSET (1 .. Len(watches)) /\ B(key) \in SUBSET (1 .. Len(prev))
  BY <1>1, <1>2 DEF Bucket
<1>4. \A i \in DOMAIN watches : i \in W(watches[i].key)
  BY DEF Bucket
<1>5. \A key : Cardinality(W(key)) \in Nat /\ Cardinality(B(key)) \in Nat
  <2> TAKE key
  <2>1. Cardinality(W(key)) \in 0 .. Len(watches) /\ Cardinality(B(key)) \in 0 .. Len(prev)
    BY <1>1, <1>2, <1>3, Ranks
  <2> QED
    BY <1>1, <1>2, <2>1
<1>10. \A key : /\ \A i \in 0 .. Len(watches) : \A j \in W(key) :
                        i < j => Rank(W(key), i) < Rank(W(key), j)
                /\ \A k \in B(key) : Rank(B(key), k) \in 1 .. Cardinality(B(key))
                /\ \A n \in 1 .. Cardinality(B(key)) : \A k \in B(key) :
                        n <= Rank(B(key), k) => Nth(B(key), n) <= k
  <2> TAKE key
  <2>1. W(key) \in SUBSET (1 .. Len(watches)) /\ B(key) \in SUBSET (1 .. Len(prev))
    BY <1>3
  <2> HIDE DEF W, B
  <2>2. \A i \in 0 .. Len(watches) : \A j \in W(key) :
            i < j => Rank(W(key), i) < Rank(W(key), j)
    BY <1>1, <2>1, Ranks
  <2>3. \A k \in B(key) : Rank(B(key), k) \in 1 .. Cardinality(B(key))
    BY <1>2, <2>1, NthInOrder
  <2>4. \A n \in 1 .. Cardinality(B(key)) : \A k \in B(key) :
            n <= Rank(B(key), k) => Nth(B(key), n) <= k
    BY <1>2, <2>1, NthInOrder
  <2> QED
    BY <2>2, <2>3, <2>4
<1>6. ASSUME NEW i \in DOMAIN watches
      PROVE  RankAmong(i) \in Nat /\ RankAmong(i) >= 1
  <2>1. Rank(W(watches[i].key), i) \in 1 .. Cardinality(W(watches[i].key))
    BY <1>1, <1>3, <1>4, NthInOrder
  <2> QED
    BY <1>5, <2>1 DEF RankAmong
<1>7. ASSUME NEW i \in DOMAIN watches, Inherited(prev, i)
      PROVE  /\ RankAmong(i) \in 1 .. Cardinality(B(watches[i].key))
             /\ Donor(prev, i) \in DOMAIN prev /\ prev[Donor(prev, i)].key = watches[i].key
  <2>1. RankAmong(i) \in 1 .. Cardinality(B(watches[i].key))
    BY <1>5, <1>6, <1>7 DEF Inherited
  <2>2. Donor(prev, i) \in B(watches[i].key)
    BY <1>2, <1>3, <2>1, NthInOrder DEF Donor
  <2> QED
    BY <2>1, <2>2 DEF Bucket
<1>8. ASSUME NEW i \in DOMAIN watches, NEW j \in DOMAIN watches, i < j,
             watches[i].key = watches[j].key, Inherited(prev, j)
      PROVE  Inherited(prev, i) /\ Donor(prev, i) < Donor(prev, j)
  <2> DEFINE key == watches[j].key
  <2>1. /\ W(key) \in SUBSET (1 .. Len(watches)) /\ B(key) \in SUBSET (1 .. Len(prev))
        /\ i \in 0 .. Len(watches) /\ j \in W(key)
    BY <1>1, <1>3, <1>4
  <2>2. Rank(W(key), i) < Rank(W(key), j)
    BY <1>8, <1>10, <2>1
  <2>3. RankAmong(i) = Rank(W(key), i) /\ RankAmong(j) = Rank(W(key), j)
    BY <1>8 DEF RankAmong
  <2>4. RankAmong(j) \in 1 .. Cardinality(B(key))
    BY <1>7, <1>8
  <2>5. RankAmong(i) \in 1 .. Cardinality(B(key)) /\ RankAmong(i) < RankAmong(j)
    BY <1>5, <1>6, <2>2, <2>3, <2>4
  <2>6. Nth(B(key), RankAmong(i)) < Nth(B(key), RankAmong(j))
    BY <1>2, <2>1, <2>4, <2>5, NthInOrder
  <2> QED
    BY <1>8, <2>5, <2>6 DEF Inherited, Donor
<1>9. ASSUME NEW i \in DOMAIN watches, NEW k \in DOMAIN prev,
             prev[k].serial = watches[i].serial
      PROVE  Inherited(prev, i) /\ Donor(prev, i) <= k /\ prev[k].key = watches[i].key
  <2> DEFINE key == watches[i].key
  <2>1. k \in B(key) /\ RankAmong(i) <= Rank(B(key), k)
    BY <1>9, NoLaterRank DEF RankAmong
  <2>2. /\ B(key) \in SUBSET (1 .. Len(prev))
        /\ Rank(B(key), k) \in 1 .. Cardinality(B(key))
    BY <1>3, <1>10, <2>1
  <2>3. RankAmong(i) \in 1 .. Cardinality(B(key))
    BY <1>5, <1>6, <2>1, <2>2
  <2>4. Nth(B(key), RankAmong(i)) <= k
    <3>1. \A n \in 1 .. Cardinality(B(key)) : \A l \in B(key) :
              n <= Rank(B(key), l) => Nth(B(key), n) <= l
      BY <1>10
    <3> HIDE DEF B, key
    <3> QED
      BY <2>1, <2>3, <3>1
  <2> QED
    BY <2>1, <2>3, <2>4 DEF Inherited, Donor, Bucket
<1> QED
  BY <1>7, <1>8, <1>9

LEMMA PreservedMatched ==
    ASSUME WatchTyped, NEW prev, Precedes(prev)
    PROVE  LET ms == preserveMatcherRuntimeState(prev)
           IN  Compiled(ms) /\ Matched(ms)
<1> DEFINE ms == preserveMatcherRuntimeState(prev)
           new == compileLogMatchers
           d(i) == Donor(prev, i)
<1>1. Compiled(new) /\ \A i \in DOMAIN watches : ~new[i].fired /\ new[i].lastMatchTime = 0
  BY CompiledAnew
<1>2. /\ Len(watches) \in Nat /\ DOMAIN watches = 1 .. Len(watches)
      /\ \A i \in DOMAIN watches : new[i] \in Matcher
  BY <1>1, WatchLists, MatcherLists DEF Compiled
<1>3. ms = [i \in 1 .. Len(watches) |->
               IF Inherited(prev, i) THEN Inherits(new[i], prev[d(i)]) ELSE new[i]]
  <2>1. \A i \in DOMAIN watches : new[i].key = watches[i].key
    BY <1>1 DEF Compiled
  <2> QED
    BY <1>2, <2>1 DEF preserveMatcherRuntimeState, Inherited, Donor, RankAmong
<1>4. ASSUME NEW i \in DOMAIN watches, Inherited(prev, i)
      PROVE  /\ ms[i] \in Matcher /\ d(i) \in DOMAIN prev
             /\ ms[i].serial = watches[i].serial /\ ms[i].key = watches[i].key
             /\ ms[i].fired = prev[d(i)].fired
             /\ ms[i].lastMatchTime = prev[d(i)].lastMatchTime
  <2>1. ms[i] = Inherits(new[i], prev[d(i)])
    BY <1>2, <1>3, <1>4
  <2>2. d(i) \in DOMAIN prev /\ prev[d(i)] \in Matcher
    BY <1>4, DonorIs, MatcherLists DEF Precedes, Matched
  <2>3. new[i] \in Matcher /\ new[i].serial = watches[i].serial /\ new[i].key = watches[i].key
    BY <1>1, <1>2 DEF Compiled
  <2> HIDE DEF ms, new, d
  <2> QED
    BY <2>1, <2>2, <2>3 DEF Inherits, Matcher
<1>5. ASSUME NEW i \in DOMAIN watches, ~Inherited(prev, i)
      PROVE  /\ ms[i] \in Matcher /\ ms[i].serial = watches[i].serial
             /\ ms[i].key = watches[i].key /\ ~ms[i].fired
  BY <1>1, <1>2, <1>3, <1>5 DEF Compiled
<1>6. DOMAIN ms = 1 .. Len(watches) /\ ms \in Seq(Matcher)
  <2>1. \A i \in 1 .. Len(watches) : ms[i] \in Matcher
    BY <1>2, <1>4, <1>5
  <2>2. ms = [i \in 1 .. Len(watches) |-> ms[i]]
    BY <1>3
  <2> HIDE DEF ms
  <2> QED
    BY <1>2, <2>1, <2>2
<1> HIDE DEF ms, new, d
<1>7. Compiled(ms)
  BY <1>2, <1>4, <1>5, <1>6 DEF Compiled
<1>8. /\ FiredFirst(prev) /\ \A i \in DOMAIN prev : Remembers(prev[i])
      /\ InOrder(prev) /\ OfEpoch(prev) /\ InOrder(watches) /\ OfEpoch(watches)
  BY DEF Precedes, Matched, WatchTyped
<1>9. FiredFirst(ms)
  <2> SUFFICES ASSUME NEW i \in DOMAIN ms, NEW j \in DOMAIN ms, i < j,
                      ms[i].key = ms[j].key, ms[j].fired
               PROVE  ms[i].fired
    BY DEF FiredFirst
  <2>1. i \in DOMAIN watches /\ j \in DOMAIN watches /\ watches[i].key = watches[j].key
    BY <1>7 DEF Compiled
  <2>2. Inherited(prev, j) /\ prev[d(j)].fired
    BY <1>4, <1>5, <2>1
  <2>3. Inherited(prev, i) /\ d(i) < d(j)
    BY <2>1, <2>2, DonorIs DEF d
  <2>4. /\ d(i) \in DOMAIN prev /\ d(j) \in DOMAIN prev
        /\ prev[d(i)].key = prev[d(j)].key
    BY <2>1, <2>2, <2>3, DonorIs DEF d
  <2>5. prev[d(i)].fired
    BY <1>8, <2>2, <2>3, <2>4 DEF FiredFirst
  <2> QED
    BY <1>4, <2>1, <2>3, <2>5
<1>10. ASSUME NEW i \in DOMAIN watches
       PROVE  Remembers(ms[i])
  <2> DEFINE s == watches[i].serial
  <2>1. ms[i].serial = s
    BY <1>7 DEF Compiled
  <2>2. ASSUME Fired(s)
        PROVE  Inherited(prev, i) /\ ms[i].fired
    <3>1. PICK k \in DOMAIN prev : prev[k].serial = s
      BY <2>2 DEF Precedes
    <3>2. Inherited(prev, i) /\ d(i) <= k /\ prev[k].key = watches[i].key
      BY <3>1, DonorIs DEF d
    <3>3. d(i) \in DOMAIN prev /\ prev[d(i)].key = watches[i].key
      BY <3>2, DonorIs DEF d
    <3>4. prev[k].fired
      BY <1>8, <2>2, <3>1 DEF Remembers
    <3>5. d(i) = k \/ d(i) < k
      BY <3>1, <3>2, <3>3, MatcherLists DEF Precedes, Matched
    <3>6. prev[d(i)].fired
      BY <1>8, <3>1, <3>2, <3>3, <3>4, <3>5 DEF FiredFirst
    <3> QED
      BY <1>4, <3>2, <3>6
  <2>3. ASSUME ~HasTwin(s), Inherited(prev, i)
        PROVE  /\ ms[i].fired => Fired(s)
               /\ \A f \in DOMAIN firings :
                     firings[f].serial = s => firings[f].at <= ms[i].lastMatchTime
    <3>1. /\ d(i) \in DOMAIN prev /\ prev[d(i)].key = watches[i].key
          /\ ms[i].fired = prev[d(i)].fired
          /\ ms[i].lastMatchTime = prev[d(i)].lastMatchTime
      BY <1>4, <2>3, DonorIs DEF d
    <3>2. /\ prev[d(i)].serial \in DOMAIN added /\ s \in DOMAIN added
          /\ added[s].key = added[prev[d(i)].serial].key
          /\ added[s].epoch = added[prev[d(i)].serial].epoch
      BY <1>8, <3>1 DEF InOrder, OfEpoch
    <3>3. prev[d(i)].serial = s
      BY <2>3, <3>2, NoTwinSame
    <3>4. Remembers(prev[d(i)])
      BY <1>8, <3>1
    <3> QED
      BY <2>3, <3>1, <3>3, <3>4 DEF Remembers
  <2>4. ASSUME ~Inherited(prev, i)
        PROVE  ~ms[i].fired /\ ~Fired(s)
    BY <1>5, <2>2, <2>4
  <2>5. CASE Inherited(prev, i)
    BY <2>1, <2>2, <2>3, <2>5 DEF Remembers
  <2>6. CASE ~Inherited(prev, i)
    BY <2>1, <2>4, <2>6 DEF Remembers, Fired
  <2> QED
    BY <2>5, <2>6
<1>11. Matched(ms)
  <2>1. \A i \in DOMAIN ms : Remembers(ms[i])
    BY <1>7, <1>10 DEF Compiled
  <2> QED
    BY <1>7, <1>9, <2>1, CompiledListed DEF Matched, Compiled
<1> QED
  BY <1>7, <1>11 DEF ms

(* Whatever was done to the list since, the matchers that output meets are
   those of the list and remember. *)
LEMMA SyncMatched ==
    ASSUME WatchInv
    PROVE  Compiled(syncMatcherState) /\ Matched(syncMatcherState)
<1>1. WatchTyped /\ CompiledFollows /\ FiredIsKnown
  BY DEF WatchInv
<1>2. CASE compiled # NoMatchers /\ compiled.revision = revision
  <2>1. syncMatcherState = compiled.matchers
    BY <1>2 DEF syncMatcherState
  <2>2. Matched(compiled.matchers) /\ Alike(compiled.matchers)
    BY <1>1, <1>2 DEF CompiledFollows
  <2>3. \A i \in DOMAIN watches : compiled.matchers[i].key = watches[i].key
    BY <1>1, <2>2 DEF Matched, Alike, InOrder, WatchTyped
  <2> QED
    BY <2>1, <2>2, <2>3 DEF Compiled, Matched, Alike
<1>3. CASE /\ ~(compiled # NoMatchers /\ compiled.revision = revision)
           /\ compiled # NoMatchers /\ compiled.generation = generation
  <2>1. syncMatcherState = preserveMatcherRuntimeState(compiled.matchers)
    BY <1>3 DEF syncMatcherState
  <2>2. Precedes(compiled.matchers)
    BY <1>1, <1>3 DEF Precedes, CompiledFollows, FiredIsKnown
  <2> QED
    BY <1>1, <2>1, <2>2, PreservedMatched
<1>4. CASE ~(compiled # NoMatchers /\ compiled.generation = generation)
  <2>1. ~(compiled # NoMatchers /\ compiled.revision = revision)
    BY <1>1, <1>4 DEF CompiledFollows
  <2>2. syncMatcherState = compileLogMatchers
    BY <1>4, <2>1 DEF syncMatcherState
  <2>3. \A i \in DOMAIN watches : ~Fired(watches[i].serial)
    BY <1>1, <1>4 DEF FiredIsKnown
  <2> QED
    BY <1>1, <2>2, <2>3, CompiledAnew, FreshMatched
<1> QED
  BY <1>2, <1>3, <1>4

-----------------------------------------------------------------------------
(* Output *)

LEMMA LoudOnly ==
    ASSUME NEW m, NEW lines, Hits(m, lines), m.fired
    PROVE  m.key \in Repeating /\ ~(time - m.lastMatchTime < Cooldown)
BY DEF Hits, Silent

Hitting(ms, lines) == {i \in DOMAIN ms : Hits(ms[i], lines)}

LEMMA EmittedIs ==
    ASSUME time \in Nat, NEW ms \in Seq(Matcher), NEW lines,
           \A i, j \in DOMAIN ms : i < j => ms[i].serial < ms[j].serial
    PROVE  LET e == Emitted(ms, lines)
           IN  /\ e \in Seq([serial : Nat, at : Nat]) /\ Len(e) \in Nat
               /\ DOMAIN e = 1 .. Len(e)
               /\ \A k \in DOMAIN e : /\ e[k].at = time
                                      /\ \E i \in Hitting(ms, lines) : e[k].serial = ms[i].serial
               /\ \A i \in Hitting(ms, lines) : \E k \in DOMAIN e : e[k].serial = ms[i].serial
               /\ \A k, l \in DOMAIN e : k < l => e[k].serial < e[l].serial
<1> DEFINE H == Hitting(ms, lines)
           C == Cardinality(H)
           hits == Picked(ms, H)
           e == Emitted(ms, lines)
<1>1. H \in SUBSET DOMAIN ms
  BY DEF Hitting
<1> HIDE DEF H
<1>2. /\ hits \in Seq(Matcher) /\ DOMAIN hits = 1 .. C /\ C \in 0 .. Len(ms)
      /\ \A k \in 1 .. C : Nth(H, k) \in H /\ hits[k] = ms[Nth(H, k)]
      /\ \A k, l \in 1 .. C : k < l => Nth(H, k) < Nth(H, l)
      /\ \A i \in H : \E k \in 1 .. C : hits[k] = ms[i]
  BY <1>1, PickedIs
<1>11. e = [k \in DOMAIN hits |-> [serial |-> hits[k].serial, at |-> time]]
  BY DEF Emitted, H, Hitting
<1> HIDE DEF hits, C, e
<1>3. e = [k \in 1 .. C |-> [serial |-> hits[k].serial, at |-> time]]
  BY <1>2, <1>11
<1>4. \A k \in 1 .. C : hits[k].serial \in Nat
  BY <1>2, MatcherLists DEF Matcher
<1>5. C \in Nat
  BY <1>2, MatcherLists
<1>6. \A k \in 1 .. C : [serial |-> hits[k].serial, at |-> time] \in [serial : Nat, at : Nat]
  BY <1>4
<1>7. /\ e \in Seq([serial : Nat, at : Nat]) /\ Len(e) = C /\ DOMAIN e = 1 .. C
      /\ \A k \in 1 .. C : e[k].serial = hits[k].serial /\ e[k].at = time
  BY <1>3, <1>5, <1>6
<1>8. ASSUME NEW k \in 1 .. C
      PROVE  e[k].at = time /\ \E i \in H : e[k].serial = ms[i].serial
  <2>1. Nth(H, k) \in H /\ hits[k] = ms[Nth(H, k)]
    BY <1>2
  <2>2. e[k].serial = hits[k].serial /\ e[k].at = time
    BY <1>7
  <2> QED
    BY <2>1, <2>2
<1>9. ASSUME NEW i \in H
      PROVE  \E k \in 1 .. C : e[k].serial = ms[i].serial
  <2>1. PICK k \in 1 .. C : hits[k] = ms[i]
    BY <1>2
  <2>2. e[k].serial = hits[k].serial
    BY <1>7
  <2> QED
    BY <2>1, <2>2
<1>10. ASSUME NEW k \in 1 .. C, NEW l \in 1 .. C, k < l
       PROVE  e[k].serial < e[l].serial
  <2>1. /\ Nth(H, k) \in DOMAIN ms /\ Nth(H, l) \in DOMAIN ms
        /\ Nth(H, k) < Nth(H, l)
    BY <1>1, <1>2, <1>10
  <2>2. ms[Nth(H, k)].serial < ms[Nth(H, l)].serial
    BY <2>1
  <2> QED
    BY <1>2, <1>7, <2>2
<1> QED
  BY <1>5, <1>7, <1>8, <1>9, <1>10 DEF H, e

(* The firings of an output come after those before, each of a watch on the list
   that was not silent. *)
OutputFires(ms, lines) ==
    /\ firings' \in Seq([serial : Nat, at : Nat])
    /\ DOMAIN firings \subseteq DOMAIN firings' /\ DOMAIN firings' \subseteq Nat
    /\ \A f \in DOMAIN firings : firings'[f] = firings[f]
    /\ \A f \in DOMAIN firings' \ DOMAIN firings :
          /\ firings'[f].at = time
          /\ \E i \in Hitting(ms, lines) : firings'[f].serial = ms[i].serial
          /\ \A g \in DOMAIN firings : g < f
    /\ \A i \in Hitting(ms, lines) :
          \E f \in DOMAIN firings' \ DOMAIN firings : firings'[f].serial = ms[i].serial
    /\ \A f, g \in DOMAIN firings' \ DOMAIN firings :
          f # g => firings'[f].serial # firings'[g].serial

LEMMA FiringsAre ==
    ASSUME WatchTyped, NEW ms \in Seq(Matcher), NEW lines, InOrder(ms),
           firings' = firings \o Emitted(ms, lines)
    PROVE  OutputFires(ms, lines)
<1> DEFINE e == Emitted(ms, lines)
           X == [serial : Nat, at : Nat]
           n == Len(firings)
<1>1. /\ e \in Seq(X) /\ Len(e) \in Nat /\ DOMAIN e = 1 .. Len(e)
      /\ \A k \in DOMAIN e : /\ e[k].at = time
                             /\ \E i \in Hitting(ms, lines) : e[k].serial = ms[i].serial
      /\ \A i \in Hitting(ms, lines) : \E k \in DOMAIN e : e[k].serial = ms[i].serial
      /\ \A k, l \in DOMAIN e : k < l => e[k].serial < e[l].serial
  BY EmittedIs DEF WatchTyped, InOrder
<1>2. firings \in Seq(X) /\ n \in Nat /\ DOMAIN firings = 1 .. n
  BY WatchLists DEF WatchTyped
<1> HIDE DEF e, X, n
<1>3. /\ firings' \in Seq(X) /\ Len(firings') = n + Len(e)
      /\ \A i \in 1 .. n + Len(e) :
            firings'[i] = IF i <= n THEN firings[i] ELSE e[i - n]
  BY <1>1, <1>2, ConcatProperties DEF e, n
<1>4. DOMAIN firings' = 1 .. n + Len(e)
  BY <1>3, LenProperties
<1>5. /\ DOMAIN firings \subseteq DOMAIN firings' /\ DOMAIN firings' \subseteq Nat
      /\ \A f \in DOMAIN firings : firings'[f] = firings[f]
  BY <1>1, <1>2, <1>3, <1>4
<1>6. ASSUME NEW f \in DOMAIN firings' \ DOMAIN firings
      PROVE  f - n \in DOMAIN e /\ f > n /\ f \in Nat /\ firings'[f] = e[f - n]
  BY <1>1, <1>2, <1>3, <1>4
<1>7. ASSUME NEW k \in DOMAIN e
      PROVE  n + k \in DOMAIN firings' \ DOMAIN firings /\ firings'[n + k] = e[k]
  <2>1. /\ n + k \in DOMAIN firings' \ DOMAIN firings /\ (n + k) - n = k
    BY <1>1, <1>2, <1>4
  <2> QED
    BY <1>6, <2>1
<1>8. ASSUME NEW f \in DOMAIN firings' \ DOMAIN firings
      PROVE  /\ firings'[f].at = time
             /\ \E i \in Hitting(ms, lines) : firings'[f].serial = ms[i].serial
             /\ \A g \in DOMAIN firings : g < f
  <2>1. f - n \in DOMAIN e /\ f > n /\ f \in Nat /\ firings'[f] = e[f - n]
    BY <1>6
  <2>2. /\ e[f - n].at = time
        /\ \E i \in Hitting(ms, lines) : e[f - n].serial = ms[i].serial
    BY <1>1, <2>1
  <2>3. \A g \in DOMAIN firings : g < f
    BY <1>2, <2>1
  <2> QED
    BY <2>1, <2>2, <2>3
<1>9. ASSUME NEW i \in Hitting(ms, lines)
      PROVE  \E f \in DOMAIN firings' \ DOMAIN firings : firings'[f].serial = ms[i].serial
  <2>1. PICK k \in DOMAIN e : e[k].serial = ms[i].serial
    BY <1>1
  <2> QED
    BY <1>7, <2>1
<1>10. ASSUME NEW f \in DOMAIN firings' \ DOMAIN firings,
              NEW g \in DOMAIN firings' \ DOMAIN firings, f # g
       PROVE  firings'[f].serial # firings'[g].serial
  <2>1. /\ f - n \in DOMAIN e /\ f \in Nat /\ firings'[f] = e[f - n]
        /\ g - n \in DOMAIN e /\ g \in Nat /\ firings'[g] = e[g - n]
    BY <1>6
  <2>5. f \in Int /\ g \in Int /\ n \in Int
    BY <1>2, <2>1
  <2>2. f - n < g - n \/ g - n < f - n
    BY <1>10, <2>5
  <2>3. \A k \in DOMAIN e : e[k].serial \in Nat
    <3>1. \A k \in DOMAIN e : e[k] \in X
      BY <1>1, ElementOfSeq
    <3> QED
      BY <3>1 DEF X
  <2>4. e[f - n].serial < e[g - n].serial \/ e[g - n].serial < e[f - n].serial
    BY <1>1, <2>1, <2>2
  <2> QED
    BY <2>1, <2>3, <2>4
<1> QED
  BY <1>3, <1>5, <1>8, <1>9, <1>10 DEF OutputFires, X

LEMMA EvaluatedIs ==
    ASSUME time \in Nat, NEW ms \in Seq(Matcher), NEW lines
    PROVE  LET after == Evaluated(ms, lines)
           IN  /\ after \in Seq(Matcher) /\ DOMAIN after = DOMAIN ms /\ Len(after) = Len(ms)
               /\ \A i \in DOMAIN ms :
                     /\ after[i].serial = ms[i].serial /\ after[i].key = ms[i].key
                     /\ after[i].fired = (ms[i].fired \/ i \in Hitting(ms, lines))
                     /\ after[i].lastMatchTime =
                           IF i \in Hitting(ms, lines) THEN time ELSE ms[i].lastMatchTime
<1> DEFINE after == Evaluated(ms, lines)
<1>1. Len(ms) \in Nat /\ DOMAIN ms = 1 .. Len(ms) /\ \A i \in DOMAIN ms : ms[i] \in Matcher
  BY MatcherLists
<1>2. after = [i \in 1 .. Len(ms) |->
        IF Hits(ms[i], lines) THEN [ms[i] EXCEPT !.fired = TRUE, !.lastMatchTime = time]
        ELSE ms[i]]
  BY <1>1 DEF Evaluated
<1>3. ASSUME NEW i \in DOMAIN ms
      PROVE  /\ after[i] \in Matcher
             /\ after[i].serial = ms[i].serial /\ after[i].key = ms[i].key
             /\ after[i].fired = (ms[i].fired \/ i \in Hitting(ms, lines))
             /\ after[i].lastMatchTime =
                   IF i \in Hitting(ms, lines) THEN time ELSE ms[i].lastMatchTime
  <2>1. CASE Hits(ms[i], lines)
    <3>1. after[i] = [ms[i] EXCEPT !.fired = TRUE, !.lastMatchTime = time]
      BY <1>1, <1>2, <2>1
    <3>2. i \in Hitting(ms, lines)
      BY <2>1 DEF Hitting
    <3> HIDE DEF after
    <3> QED
      BY <1>1, <3>1, <3>2 DEF Matcher
  <2>2. CASE ~Hits(ms[i], lines)
    <3>1. after[i] = ms[i]
      BY <1>1, <1>2, <2>2
    <3>2. i \notin Hitting(ms, lines)
      BY <2>2 DEF Hitting
    <3>3. ms[i].fired \in BOOLEAN
      BY <1>1 DEF Matcher
    <3> HIDE DEF after
    <3> QED
      BY <1>1, <3>1, <3>2, <3>3
  <2> QED
    BY <2>1, <2>2
<1>4. after \in Seq(Matcher) /\ DOMAIN after = DOMAIN ms /\ Len(after) = Len(ms)
  <2>1. \A i \in 1 .. Len(ms) : after[i] \in Matcher
    BY <1>1, <1>3
  <2>2. after = [i \in 1 .. Len(ms) |-> after[i]]
    BY <1>2
  <2> HIDE DEF after
  <2> QED
    BY <1>1, <2>1, <2>2
<1> QED
  BY <1>3, <1>4

(* What a watch on the list has fired is what its matcher remembers. *)
LEMMA OutputStep ==
    ASSUME WatchInv, NEW lines, handleOutputChanged(lines)
    PROVE  /\ WatchInv'
           /\ \A f \in DOMAIN firings' \ DOMAIN firings :
                 registered /\ firings'[f].serial \in Serials(watches)
<1> DEFINE ms == syncMatcherState
           after == Evaluated(ms, lines)
           H == Hitting(ms, lines)
           Old == DOMAIN firings
           New == DOMAIN firings' \ DOMAIN firings
<1>1. WatchTyped /\ CompiledFollows /\ FiredIsKnown
  BY DEF WatchInv
<1>2. /\ registered /\ time \in Nat
      /\ compiled' = IF ms = <<>> THEN NoMatchers
                     ELSE [matchers |-> after, revision |-> revision, generation |-> generation]
      /\ firings' = firings \o Emitted(ms, lines)
      /\ missed' = missed \cup {s \in Serials(watches) \ Serials(Emitted(ms, lines)) :
                                   added[s].key \in lines /\ ~Fired(s)}
      /\ UNCHANGED <<registry, added, epoch, time>>
  BY <1>1 DEF handleOutputChanged, WatchTyped
<1>3. Compiled(ms) /\ Matched(ms)
  BY SyncMatched
<1>4. /\ ms \in Seq(Matcher) /\ DOMAIN ms = DOMAIN watches /\ InOrder(ms) /\ FiredFirst(ms)
      /\ OfEpoch(ms) /\ Alike(ms)
      /\ \A i \in DOMAIN ms : /\ ms[i] \in Matcher /\ Remembers(ms[i])
                              /\ ms[i].serial = watches[i].serial /\ ms[i].key = watches[i].key
  BY <1>1, <1>3, CompiledListed, MatcherLists DEF Compiled, Matched
<1>5. OutputFires(ms, lines)
  BY <1>1, <1>2, <1>4, FiringsAre
<1>6. /\ after \in Seq(Matcher) /\ DOMAIN after = DOMAIN ms /\ Len(after) = Len(ms)
      /\ \A i \in DOMAIN ms :
            /\ after[i].serial = ms[i].serial /\ after[i].key = ms[i].key
            /\ after[i].fired = (ms[i].fired \/ i \in H)
            /\ after[i].lastMatchTime = IF i \in H THEN time ELSE ms[i].lastMatchTime
  BY <1>2, <1>4, EvaluatedIs
<1>24. \A s \in Serials(Emitted(ms, lines)) : \E i \in H : s = ms[i].serial
  <2>1. \A k \in DOMAIN Emitted(ms, lines) :
            \E i \in H : Emitted(ms, lines)[k].serial = ms[i].serial
    BY <1>2, <1>4, EmittedIs DEF InOrder
  <2> QED
    BY <2>1 DEF Serials
<1>25. \A i \in H : ms[i].serial \in Serials(Emitted(ms, lines))
  <2>1. \A i \in H : \E k \in DOMAIN Emitted(ms, lines) :
            Emitted(ms, lines)[k].serial = ms[i].serial
    BY <1>2, <1>4, EmittedIs DEF InOrder
  <2> QED
    BY <2>1 DEF Serials
<1>7. H \subseteq DOMAIN ms /\ \A i \in H : Hits(ms[i], lines)
  BY DEF Hitting
<1> HIDE DEF ms, after, H
<1>8. /\ \A s : HasTwin(s)' <=> HasTwin(s)
      /\ \A seq : InOrder(seq)' <=> InOrder(seq)
      /\ \A seq : OfEpoch(seq)' <=> OfEpoch(seq)
  BY <1>2 DEF HasTwin, InOrder, OfEpoch
<1>9. /\ Old \subseteq DOMAIN firings' /\ DOMAIN firings' \subseteq Nat
      /\ \A f \in Old : firings'[f] = firings[f] /\ firings[f] \in [serial : Nat, at : Nat]
                        /\ firings[f].serial \in DOMAIN added /\ firings[f].at <= time
      /\ \A f \in New : firings'[f].at = time
      /\ \A f \in New : \E i \in H : firings'[f].serial = ms[i].serial
      /\ \A f \in New : \A g \in Old : g < f
      /\ \A f, g \in New : f # g => firings'[f].serial # firings'[g].serial
      /\ \A i \in H : \E f \in New : firings'[f].serial = ms[i].serial
  BY <1>1, <1>5, WatchLists DEF OutputFires, H, WatchTyped
<1>10. \A s : Fired(s)' <=> Fired(s) \/ \E i \in H : ms[i].serial = s
  BY <1>9 DEF Fired
(* An earlier firing of one that fires now. *)
<1>11. ASSUME NEW f \in Old, NEW g \in New, firings'[f].serial = firings'[g].serial
       PROVE  /\ added[firings'[f].serial].key \in Repeating
              /\ HasTwin(firings'[f].serial) \/ firings'[g].at - firings'[f].at >= Cooldown
  <2>1. PICK i \in H : firings'[g].serial = ms[i].serial
    BY <1>9
  <2>2. /\ i \in DOMAIN ms /\ Hits(ms[i], lines) /\ ms[i] \in Matcher /\ Remembers(ms[i])
        /\ ms[i].key = added[ms[i].serial].key
    BY <1>4, <1>7, <2>1 DEF InOrder
  <2>3. Fired(ms[i].serial) /\ firings[f].serial = ms[i].serial
    BY <1>9, <1>11, <2>1 DEF Fired
  <2>4. ms[i].key \in Repeating /\ ~(time - ms[i].lastMatchTime < Cooldown)
    BY <2>2, <2>3, LoudOnly DEF Remembers
  <2>5. ~HasTwin(ms[i].serial) => firings[f].at <= ms[i].lastMatchTime
    BY <2>2, <2>3 DEF Remembers
  <2>6. /\ firings'[f].at = firings[f].at /\ firings'[g].at = time
        /\ firings[f].at \in Nat /\ ms[i].lastMatchTime \in Nat /\ Cooldown \in Nat
    BY <1>9, <2>2, WatchesAssumption DEF Matcher
  <2>7. ~HasTwin(ms[i].serial) => firings'[g].at - firings'[f].at >= Cooldown
    <3>1. ~HasTwin(ms[i].serial) =>
              ~(firings'[g].at - ms[i].lastMatchTime < Cooldown)
              /\ firings'[f].at <= ms[i].lastMatchTime
      BY <2>4, <2>5, <2>6
    <3>2. /\ firings'[f].at \in Int /\ firings'[g].at \in Int
          /\ ms[i].lastMatchTime \in Int /\ Cooldown \in Int
      BY <1>2, <2>6 DEF WatchTyped
    <3> QED
      BY <3>1, <3>2
  <2> QED
    BY <1>11, <2>1, <2>2, <2>4, <2>7
<1>12. \A f, g \in New : firings'[f].serial = firings'[g].serial => f = g
  BY <1>9
<1>13. OncePerWatch'
  <2> SUFFICES ASSUME NEW i \in DOMAIN firings', NEW j \in DOMAIN firings', i # j,
                      firings'[i].serial = firings'[j].serial
               PROVE  added[firings'[i].serial].key \in Repeating
    BY <1>2 DEF OncePerWatch
  <2>1. CASE i \in Old /\ j \in Old
    BY <1>9, <2>1 DEF WatchInv, FiresAsOftenAsAsked, OncePerWatch
  <2>2. CASE i \in Old /\ j \in New
    BY <1>11, <2>2
  <2>3. CASE i \in New /\ j \in Old
    BY <1>11, <2>3
  <2>4. CASE i \in New /\ j \in New
    BY <1>12, <2>4
  <2> QED
    BY <2>1, <2>2, <2>3, <2>4
<1>14. CooldownIsKept'
  <2> SUFFICES ASSUME NEW i \in DOMAIN firings', NEW j \in DOMAIN firings', i < j,
                      firings'[i].serial = firings'[j].serial
               PROVE  \/ firings'[j].at - firings'[i].at >= Cooldown
                      \/ HasTwin(firings'[i].serial)
    BY <1>8 DEF CooldownIsKept
  <2>1. CASE i \in Old /\ j \in Old
    BY <1>9, <2>1 DEF WatchInv, FiresAsOftenAsAsked, CooldownIsKept
  <2>2. CASE i \in Old /\ j \in New
    BY <1>11, <2>2
  <2>3. CASE i \in New /\ j \in Old
    <3>1. j < i /\ i \in Nat /\ j \in Nat
      BY <1>9, <2>3
    <3> QED
      BY <3>1
  <2>4. CASE i \in New /\ j \in New
    <3>1. i = j /\ i \in Nat
      BY <1>9, <1>12, <2>4
    <3> QED
      BY <3>1
  <2> QED
    BY <2>1, <2>2, <2>3, <2>4
(* A watch that could have fired for the first time. *)
<1>15. ASSUME NEW s \in Serials(watches) \ Serials(Emitted(ms, lines)),
              added[s].key \in lines, ~Fired(s)
       PROVE  s \in DOMAIN added /\ HasTwin(s)
  <2>1. PICK i \in DOMAIN watches : watches[i].serial = s
    BY DEF Serials
  <2>2. /\ i \in DOMAIN ms /\ ms[i].serial = s /\ ms[i].key = added[s].key
        /\ Remembers(ms[i]) /\ s \in DOMAIN added
    BY <1>4, <2>1 DEF InOrder
  <2>3. i \notin H
    BY <1>15, <1>25, <2>2
  <2>4. ms[i].fired
    BY <1>15, <2>2, <2>3 DEF H, Hitting, Hits, Silent
  <2> QED
    BY <1>15, <2>2, <2>4 DEF Remembers
<1>16. FirstMatchFires' /\ missed' \subseteq DOMAIN added
  BY <1>1, <1>2, <1>8, <1>15 DEF WatchInv, FirstMatchFires, WatchTyped
<1>17. ASSUME NEW i \in DOMAIN ms, NEW s, s = ms[i].serial
       PROVE  /\ Fired(s)' => after[i].fired
              /\ ~HasTwin(s) =>
                    /\ after[i].fired => Fired(s)'
                    /\ \A f \in DOMAIN firings' :
                          firings'[f].serial = s => firings'[f].at <= after[i].lastMatchTime
  <2>1. Remembers(ms[i]) /\ ms[i] \in Matcher
    BY <1>4
  <2>2. \A j \in DOMAIN ms : ms[j].serial = s => j = i
    <3>1. Len(ms) \in Nat /\ DOMAIN ms = 1 .. Len(ms)
      BY <1>4, MatcherLists
    <3>2. \A j \in DOMAIN ms : ms[j].serial \in Nat
      BY <1>4 DEF Matcher
    <3> QED
      BY <1>4, <1>17, <3>1, <3>2 DEF InOrder
  <2>3. Fired(s)' <=> Fired(s) \/ i \in H
    BY <1>7, <1>10, <1>17, <2>2
  <2>4. /\ after[i].fired = (ms[i].fired \/ i \in H)
        /\ after[i].lastMatchTime = IF i \in H THEN time ELSE ms[i].lastMatchTime
    BY <1>6
  <2>5. Fired(s) => ms[i].fired
    BY <1>17, <2>1 DEF Remembers
  <2>6. ~HasTwin(s) => (ms[i].fired => Fired(s))
    BY <1>17, <2>1 DEF Remembers
  <2>7. ASSUME ~HasTwin(s), NEW f \in DOMAIN firings', firings'[f].serial = s
        PROVE  firings'[f].at <= after[i].lastMatchTime
    <3>1. CASE i \in H
      <4>1. firings'[f].at <= time
        BY <1>2, <1>9
      <4> QED
        BY <2>4, <3>1, <4>1
    <3>2. CASE i \notin H
      <4>1. f \in Old
        BY <1>7, <1>9, <2>2, <2>7, <3>2
      <4>2. firings[f].at <= ms[i].lastMatchTime
        BY <1>9, <1>17, <2>1, <2>7, <4>1 DEF Remembers
      <4> QED
        BY <1>9, <2>4, <3>2, <4>1, <4>2
    <3> QED
      BY <3>1, <3>2
  <2> QED
    BY <2>3, <2>4, <2>5, <2>6, <2>7
<1>18. FiredFirst(after)
  <2> SUFFICES ASSUME NEW i \in DOMAIN after, NEW j \in DOMAIN after, i < j,
                      after[i].key = after[j].key, after[j].fired
               PROVE  after[i].fired
    BY DEF FiredFirst
  <2>1. /\ i \in DOMAIN ms /\ j \in DOMAIN ms /\ ms[i].key = ms[j].key
        /\ after[i].fired = (ms[i].fired \/ i \in H)
        /\ after[j].fired = (ms[j].fired \/ j \in H)
    BY <1>6
  <2>2. CASE ms[j].fired
    BY <1>4, <2>1, <2>2 DEF FiredFirst
  <2>3. CASE j \in H
    <3>1. ms[i].key \in lines
      BY <1>7, <2>1, <2>3 DEF Hits
    <3>2. i \in H \/ ms[i].fired
      BY <2>1, <3>1 DEF H, Hitting, Hits, Silent
    <3> QED
      BY <2>1, <3>2
  <2> QED
    BY <2>1, <2>2, <2>3
<1>19. InOrder(after) /\ OfEpoch(after) /\ Alike(after)
  BY <1>4, <1>6 DEF InOrder, OfEpoch, Alike
<1>20. CompiledFollows'
  <2>1. CASE ms = <<>>
    BY <1>2, <2>1 DEF CompiledFollows, NoMatchers
  <2>2. CASE ms # <<>>
    <3>1. compiled' = [matchers |-> after, revision |-> revision, generation |-> generation]
      BY <1>2, <2>2
    <3>2. /\ compiled'.matchers = after /\ compiled'.revision = revision
          /\ compiled'.generation = generation
      BY <3>1
    <3>3. /\ generation \in Nat /\ revision \in Nat
          /\ Len(after) \in 1 .. MaxWatches
      <4>1. generation \in Nat /\ revision \in Nat /\ watches \in Seq(Watch)
            /\ Len(watches) <= MaxWatches
        BY <1>1, <1>2 DEF WatchTyped
      <4>2. Len(ms) = Len(watches) /\ Len(ms) \in Nat
        BY <1>4, <4>1, LenProperties
      <4>3. Len(ms) # 0
        BY <1>4, <2>2, EmptySeq
      <4> QED
        BY <1>6, <4>1, <4>2, <4>3, WatchesAssumption
    <3>4. compiled' \in [matchers : Seq(Matcher), revision : Nat, generation : Nat]
      BY <1>6, <3>1, <3>3
    <3>5. Matched(compiled.matchers)'
      <4>1. \A i \in DOMAIN compiled'.matchers : Remembers(compiled.matchers[i])'
        <5> TAKE i \in DOMAIN compiled'.matchers
        <5>1. i \in DOMAIN ms /\ compiled'.matchers[i] = after[i] /\ after[i].serial = ms[i].serial
          BY <1>6, <3>2
        <5> QED
          BY <1>8, <1>17, <5>1 DEF Remembers, Fired
      <4>2. FiredFirst(compiled.matchers)' /\ InOrder(compiled.matchers)'
        BY <1>2, <1>8, <1>18, <1>19, <3>2 DEF FiredFirst, InOrder
      <4> QED
        BY <1>6, <3>2, <4>1, <4>2 DEF Matched
    <3>6. OfEpoch(compiled.matchers)' /\ Alike(compiled.matchers)' /\ Follows(compiled.matchers)'
      BY <1>2, <1>19, <3>2 DEF OfEpoch, Alike, Follows, registry
    <3> QED
      BY <1>2, <3>2, <3>3, <3>4, <3>5, <3>6 DEF CompiledFollows, registry
  <2> QED
    BY <2>1, <2>2
<1>21. FiredIsKnown'
  <2> SUFFICES ASSUME NEW i \in DOMAIN watches
               PROVE  /\ (compiled # NoMatchers)' /\ compiled'.generation = generation
                      /\ \E k \in DOMAIN compiled'.matchers :
                            compiled'.matchers[k].serial = watches[i].serial
    BY <1>2 DEF FiredIsKnown, registry
  <2>1. ms # <<>>
    BY <1>4
  <2>2. compiled' = [matchers |-> after, revision |-> revision, generation |-> generation]
    BY <1>2, <2>1
  <2>3. after # <<>> /\ i \in DOMAIN after /\ after[i].serial = watches[i].serial
    BY <1>4, <1>6
  <2> QED
    BY <2>2, <2>3 DEF NoMatchers
<1>22. WatchTyped'
  <2>1. /\ firings' \in Seq([serial : Nat, at : Nat])
        /\ \A f \in DOMAIN firings' : /\ firings'[f].serial \in DOMAIN added
                                      /\ firings'[f].at <= time
    <3>1. firings' \in Seq([serial : Nat, at : Nat])
      BY <1>5 DEF OutputFires
    <3>2. \A f \in New : firings'[f].serial \in DOMAIN added /\ firings'[f].at <= time
      <4> TAKE f \in New
      <4>1. PICK i \in H : firings'[f].serial = ms[i].serial
        BY <1>9
      <4>2. firings'[f].serial \in DOMAIN added
        BY <1>4, <1>7, <4>1 DEF InOrder
      <4> QED
        BY <1>2, <1>9, <4>2
    <3> QED
      BY <1>9, <3>1, <3>2
  <2>2. InOrder(watches)' /\ OfEpoch(watches)'
    BY <1>1, <1>2 DEF WatchTyped, registry, InOrder, OfEpoch
  <2>3. time' = time /\ registered' = registered /\ watches' = watches /\ added' = added
    BY <1>2 DEF registry
  <2> QED
    BY <1>1, <1>2, <1>16, <2>1, <2>2, <2>3 DEF WatchTyped, registry
<1>23. \A f \in New : registered /\ firings'[f].serial \in Serials(watches)
  <2> TAKE f \in New
  <2>1. PICK i \in H : firings'[f].serial = ms[i].serial
    BY <1>9
  <2>2. i \in DOMAIN watches /\ ms[i].serial = watches[i].serial
    BY <1>4, <1>7
  <2> QED
    BY <1>2, <2>1, <2>2 DEF Serials
<1> QED
  BY <1>13, <1>14, <1>16, <1>20, <1>21, <1>22, <1>23 DEF WatchInv, FiresAsOftenAsAsked

-----------------------------------------------------------------------------
(* Edits of the list *)

(* The history of the list only grows. *)
Grown ==
    /\ added' \in Seq(Added) /\ DOMAIN added \subseteq DOMAIN added'
    /\ \A s \in DOMAIN added : added'[s] = added[s]

LEMMA TwinsStay ==
    ASSUME Grown, NEW s \in DOMAIN added, HasTwin(s)
    PROVE  HasTwin(s)'
BY DEF Grown, HasTwin

(* An edit keeps watches of the list or puts newer ones there; what it does to
   the revision and the generation tells the service how much it kept. *)
Edited ==
    /\ registered' = TRUE /\ UNCHANGED <<compiled, firings, missed, time>>
    /\ watches' \in Seq(Watch) /\ Len(watches') <= MaxWatches
    /\ InOrder(watches)' /\ OfEpoch(watches)' /\ epoch' \in Nat
    /\ revision' \in Nat /\ generation' \in Nat
    /\ revision < revision' /\ generation <= generation' /\ generation' <= revision'
    /\ generation' = generation => registered /\ epoch' = epoch
    /\ \A i \in DOMAIN watches' :
          \/ watches'[i].serial \notin DOMAIN added
          \/ /\ generation' = generation
             /\ \E j \in DOMAIN watches : watches'[i].serial = watches[j].serial

LEMMA EditKeeps ==
    ASSUME WatchInv, Grown, Edited
    PROVE  WatchInv'
<1>1. WatchTyped /\ CompiledFollows /\ FiredIsKnown /\ FiresAsOftenAsAsked /\ FirstMatchFires
  BY DEF WatchInv
<1>2. \A f \in DOMAIN firings : firings[f].serial \in DOMAIN added
  BY <1>1 DEF WatchTyped
<1>3. WatchTyped'
  BY <1>1 DEF WatchTyped, Grown, Edited
<1>4. \A s : Fired(s)' <=> Fired(s)
  BY DEF Fired, Edited
<1>5. \A s \in DOMAIN added : HasTwin(s) => HasTwin(s)'
  BY TwinsStay
<1>6. FiresAsOftenAsAsked'
  <2>1. OncePerWatch'
    BY <1>1, <1>2 DEF FiresAsOftenAsAsked, OncePerWatch, Edited, Grown
  <2>2. CooldownIsKept'
    BY <1>1, <1>2, <1>5 DEF FiresAsOftenAsAsked, CooldownIsKept, Edited
  <2> QED
    BY <2>1, <2>2 DEF FiresAsOftenAsAsked
<1>7. FirstMatchFires'
  BY <1>1, <1>5 DEF FirstMatchFires, WatchTyped, Edited
<1>8. FiredIsKnown'
  <2> SUFFICES ASSUME NEW i \in DOMAIN watches', NEW s, s = watches'[i].serial, Fired(s)
               PROVE  /\ compiled # NoMatchers /\ compiled.generation = generation'
                      /\ \E k \in DOMAIN compiled.matchers : compiled.matchers[k].serial = s
    BY <1>4 DEF FiredIsKnown, Edited, NoMatchers
  <2>1. s \in DOMAIN added
    BY <1>2 DEF Fired
  <2>2. PICK j \in DOMAIN watches : s = watches[j].serial
    BY <2>1 DEF Edited
  <2>3. generation' = generation
    BY <2>1 DEF Edited
  <2> QED
    BY <1>1, <2>2, <2>3 DEF FiredIsKnown
<1>9. CompiledFollows'
  <2> SUFFICES ASSUME compiled # NoMatchers
               PROVE  CompiledFollows'
    BY DEF CompiledFollows, Edited, NoMatchers
  <2> DEFINE ms == compiled.matchers
  <2>1. /\ compiled \in [matchers : Seq(Matcher), revision : Nat, generation : Nat]
        /\ Matched(ms) /\ Len(ms) \in 1 .. MaxWatches
        /\ compiled.revision <= revision /\ compiled.generation <= generation
        /\ compiled.generation = generation => OfEpoch(ms) /\ Follows(ms)
    BY <1>1 DEF CompiledFollows
  <2>2. \A i \in DOMAIN ms : ms[i].serial \in DOMAIN added /\ ms[i].serial \in Nat
    BY <2>1, MatcherLists DEF Matched, InOrder, Matcher
  <2>3. compiled'.revision < revision' /\ compiled'.generation <= generation'
    BY <1>1, <2>1 DEF Edited, WatchTyped
  <2>4. Matched(compiled.matchers)'
    <3>1. InOrder(compiled.matchers)'
      BY <2>1, <2>2 DEF Matched, InOrder, Edited, Grown
    <3>2. FiredFirst(compiled.matchers)'
      BY <2>1 DEF Matched, FiredFirst, Edited
    <3>3. \A i \in DOMAIN compiled'.matchers : Remembers(compiled.matchers[i])'
      <4> TAKE i \in DOMAIN compiled'.matchers
      <4>1. i \in DOMAIN ms /\ compiled'.matchers[i] = ms[i]
        BY DEF Edited
      <4>2. Remembers(ms[i])
        BY <2>1, <4>1 DEF Matched
      <4> HIDE DEF ms
      <4>3. ms[i].serial \in DOMAIN added
        BY <2>2, <4>1
      <4> QED
        BY <1>4, <1>5, <4>1, <4>2, <4>3 DEF Remembers, Edited
    <3> QED
      BY <2>1, <3>1, <3>2, <3>3 DEF Matched, Edited
  <2>5. compiled'.generation = generation' => OfEpoch(compiled.matchers)' /\ Follows(compiled.matchers)'
    <3> SUFFICES ASSUME compiled'.generation = generation'
                 PROVE  OfEpoch(compiled.matchers)' /\ Follows(compiled.matchers)'
      OBVIOUS
    <3>1. generation' = generation /\ compiled.generation = generation
      BY <1>1, <2>1 DEF Edited, WatchTyped
    <3>2. OfEpoch(compiled.matchers)'
      BY <2>1, <2>2, <3>1 DEF OfEpoch, Edited, Grown
    <3>3. Follows(compiled.matchers)'
      <4> SUFFICES ASSUME NEW i \in DOMAIN watches', NEW j \in DOMAIN ms,
                          watches'[i].serial <= ms[j].serial
                   PROVE  \E k \in DOMAIN ms : ms[k].serial = watches'[i].serial
        BY DEF Follows, Edited
      <4>1. watches'[i].serial \in Nat
        <5>1. watches' \in Seq(Watch)
          BY DEF Edited
        <5>2. watches'[i] \in Watch
          BY <5>1, ElementOfSeq, LenProperties
        <5> QED
          BY <5>2 DEF Watch
      <4>2. watches'[i].serial \in DOMAIN added
        <5>1. watches'[i].serial \in DOMAIN added'
          BY DEF Edited, InOrder
        <5>2. /\ DOMAIN added = 1 .. Len(added) /\ Len(added) \in Nat
              /\ DOMAIN added' = 1 .. Len(added') /\ Len(added') \in Nat
          BY <1>1, <1>3, LenProperties DEF WatchTyped
        <5> QED
          BY <2>2, <4>1, <5>1, <5>2
      <4>3. PICK w \in DOMAIN watches : watches'[i].serial = watches[w].serial
        BY <4>2 DEF Edited
      <4> QED
        BY <2>1, <3>1, <4>3 DEF Follows
    <3> QED
      BY <3>2, <3>3
  <2>6. ~(compiled'.revision = revision')
    <3>1. compiled' = compiled /\ compiled.revision \in Nat /\ revision' \in Nat
      BY <2>1 DEF Edited
    <3> QED
      BY <2>3, <3>1
  <2> QED
    BY <2>1, <2>3, <2>4, <2>5, <2>6 DEF CompiledFollows, Edited
<1> QED
  BY <1>3, <1>6, <1>7, <1>8, <1>9 DEF WatchInv

LEMMA KeysTyped ==
    ASSUME NEW keys \in SeqOf(Keys, MaxWatches + 1)
    PROVE  keys \in Seq(Keys)
<1>1. PICK m \in 0 .. MaxWatches + 1 : keys \in [1 .. m -> Keys]
  BY DEF SeqOf
<1> QED
  BY <1>1, WatchesAssumption

LEMMA AddsGrow ==
    ASSUME WatchTyped, NEW keys \in Seq(Keys), NEW e \in Nat, Adds(keys, e)
    PROVE  /\ Grown
           /\ \A i \in DOMAIN keys : /\ Len(added) + i \in DOMAIN added' \ DOMAIN added
                                     /\ added'[Len(added) + i].key = keys[i]
                                     /\ added'[Len(added) + i].epoch = e
<1> DEFINE more == [i \in DOMAIN keys |-> [key |-> keys[i], epoch |-> e]]
           n == Len(added)
<1>1. /\ Len(keys) \in Nat /\ DOMAIN keys = 1 .. Len(keys)
      /\ \A i \in DOMAIN keys : keys[i] \in Keys
  BY LenProperties, ElementOfSeq
<1>2. /\ added \in Seq(Added) /\ n \in Nat /\ DOMAIN added = 1 .. n
  BY WatchLists DEF WatchTyped
<1>3. \A i \in 1 .. Len(keys) : [key |-> keys[i], epoch |-> e] \in Added
  BY <1>1 DEF Added
<1>4. more = [i \in 1 .. Len(keys) |-> [key |-> keys[i], epoch |-> e]]
  BY <1>1
<1>5. more \in Seq(Added) /\ Len(more) = Len(keys)
  BY <1>1, <1>3, <1>4
<1>6. \A i \in 1 .. Len(keys) : more[i].key = keys[i] /\ more[i].epoch = e
  BY <1>4
<1>7. added' = added \o more
  BY DEF Adds
<1> HIDE DEF more, n
<1>8. /\ added' \in Seq(Added) /\ Len(added') = n + Len(keys)
      /\ \A i \in 1 .. n + Len(keys) :
            added'[i] = IF i <= n THEN added[i] ELSE more[i - n]
  <2>1. /\ added \o more \in Seq(Added) /\ Len(added \o more) = Len(added) + Len(more)
        /\ \A i \in 1 .. Len(added) + Len(more) :
              (added \o more)[i] = IF i <= Len(added) THEN added[i] ELSE more[i - Len(added)]
    BY <1>2, <1>5, ConcatProperties
  <2> QED
    BY <1>5, <1>7, <2>1 DEF n
<1>9. DOMAIN added' = 1 .. n + Len(keys)
  BY <1>8, LenProperties
<1>10. Grown
  BY <1>1, <1>2, <1>8, <1>9 DEF Grown
<1>11. ASSUME NEW i \in DOMAIN keys
       PROVE  n + i \in DOMAIN added' \ DOMAIN added /\ added'[n + i] = more[i]
  <2>1. n + i \in 1 .. n + Len(keys) /\ ~(n + i <= n) /\ (n + i) - n = i
    BY <1>1, <1>2
  <2> QED
    BY <1>2, <1>8, <1>9, <2>1
<1> QED
  BY <1>1, <1>6, <1>10, <1>11 DEF n

LEMMA NewTyped ==
    ASSUME WatchTyped, NEW keys \in Seq(Keys)
    PROVE  LET new == NewWatches(keys)
           IN  /\ new \in Seq(Watch) /\ Len(new) = Len(keys) /\ Len(keys) \in Nat
               /\ DOMAIN new = 1 .. Len(keys) /\ DOMAIN keys = 1 .. Len(keys)
               /\ \A i \in DOMAIN keys : /\ new[i].key = keys[i]
                                         /\ new[i].serial = Len(added) + i
<1> DEFINE new == NewWatches(keys)
<1>1. /\ Len(keys) \in Nat /\ DOMAIN keys = 1 .. Len(keys)
      /\ \A i \in DOMAIN keys : keys[i] \in Keys
  BY LenProperties, ElementOfSeq
<1>2. Len(added) \in Nat
  BY WatchLists
<1>3. new = [i \in 1 .. Len(keys) |-> [key |-> keys[i], serial |-> Len(added) + i]]
  BY <1>1 DEF NewWatches
<1>4. \A i \in 1 .. Len(keys) : [key |-> keys[i], serial |-> Len(added) + i] \in Watch
  BY <1>1, <1>2 DEF Watch
<1>5. new \in Seq(Watch) /\ Len(new) = Len(keys)
  BY <1>1, <1>3, <1>4
<1> QED
  BY <1>1, <1>3, <1>5

(* A list of new watches only. *)
LEMMA RenewedEdits ==
    ASSUME WatchInv, NEW keys \in Seq(Keys), Adds(keys, epoch'), Len(keys) <= MaxWatches,
           watches' = NewWatches(keys), registered' = TRUE, epoch' \in Nat,
           UNCHANGED <<compiled, firings, missed, time>>,
           revision' = revision + 1, generation' = generation + 1, generation' \in Nat
    PROVE  WatchInv'
<1>1. WatchTyped
  BY DEF WatchInv
<1>2. /\ Grown
      /\ \A i \in DOMAIN keys : /\ Len(added) + i \in DOMAIN added' \ DOMAIN added
                                /\ added'[Len(added) + i].key = keys[i]
                                /\ added'[Len(added) + i].epoch = epoch'
  BY <1>1, AddsGrow
<1>3. /\ watches' \in Seq(Watch) /\ Len(watches') = Len(keys) /\ Len(keys) \in Nat
      /\ DOMAIN watches' = 1 .. Len(keys) /\ DOMAIN keys = 1 .. Len(keys)
      /\ \A i \in DOMAIN keys : /\ watches'[i].key = keys[i]
                                /\ watches'[i].serial = Len(added) + i
  BY <1>1, NewTyped
<1>4. Len(added) \in Nat
  BY <1>1, WatchLists
<1>5. InOrder(watches)' /\ OfEpoch(watches)'
  BY <1>2, <1>3, <1>4 DEF InOrder, OfEpoch
<1>6. Edited
  BY <1>1, <1>2, <1>3, <1>5 DEF Edited, WatchTyped
<1> QED
  BY <1>2, <1>6, EditKeeps

LEMMA RegisterStep ==
    ASSUME WatchInv, NEW keys \in Seq(Keys), register(keys)
    PROVE  WatchInv'
<1>1. WatchTyped
  BY DEF WatchInv
<1>2. /\ revision = -1 /\ Len(keys) <= MaxWatches /\ watches' = NewWatches(keys)
      /\ registered' = TRUE /\ revision' = 0 /\ generation' = 0 /\ epoch' = epoch
      /\ Adds(keys, epoch) /\ UNCHANGED <<compiled, firings, missed, time>>
  BY DEF register, FitsLimit, watchCounters
<1>3. generation = -1 /\ epoch' \in Nat
  BY <1>1, <1>2 DEF WatchTyped
<1>4. revision' = revision + 1 /\ generation' = generation + 1 /\ generation' \in Nat
  BY <1>2, <1>3
<1>5. Adds(keys, epoch')
  BY <1>2
<1> QED
  BY <1>2, <1>3, <1>4, <1>5, RenewedEdits

LEMMA AppendStep ==
    ASSUME WatchInv, NEW keys \in Seq(Keys), appendWatches(keys)
    PROVE  WatchInv'
<1>1. WatchTyped
  BY DEF WatchInv
<1> DEFINE new == NewWatches(keys)
           n == Len(watches)
<1>2. /\ registered /\ watches' = watches \o new /\ revision' = revision + 1
      /\ Adds(keys, epoch) /\ n + Len(keys) <= MaxWatches
      /\ UNCHANGED <<registered, generation, compiled, epoch, firings, missed, time>>
  BY DEF appendWatches, FitsLimit, bumpRevision, BumpedRevision
<1>3. /\ Grown
      /\ \A i \in DOMAIN keys : /\ Len(added) + i \in DOMAIN added' \ DOMAIN added
                                /\ added'[Len(added) + i].key = keys[i]
                                /\ added'[Len(added) + i].epoch = epoch
  BY <1>1, <1>2, AddsGrow DEF WatchTyped
<1>4. /\ new \in Seq(Watch) /\ Len(new) = Len(keys) /\ Len(keys) \in Nat
      /\ DOMAIN keys = 1 .. Len(keys)
      /\ \A i \in DOMAIN keys : /\ new[i].key = keys[i]
                                /\ new[i].serial = Len(added) + i
  BY <1>1, NewTyped
<1>5. /\ watches \in Seq(Watch) /\ n \in Nat /\ DOMAIN watches = 1 .. n
      /\ Len(added) \in Nat /\ DOMAIN added = 1 .. Len(added)
      /\ InOrder(watches) /\ OfEpoch(watches)
  BY <1>1, WatchLists DEF WatchTyped
<1> HIDE DEF new, n
<1>6. /\ watches' \in Seq(Watch) /\ Len(watches') = n + Len(keys)
      /\ \A i \in 1 .. n + Len(keys) :
            watches'[i] = IF i <= n THEN watches[i] ELSE new[i - n]
  <2>1. /\ watches \o new \in Seq(Watch) /\ Len(watches \o new) = Len(watches) + Len(new)
        /\ \A i \in 1 .. Len(watches) + Len(new) :
              (watches \o new)[i] =
                  IF i <= Len(watches) THEN watches[i] ELSE new[i - Len(watches)]
    <3>1. watches \in Seq(Watch) /\ new \in Seq(Watch)
      BY <1>4, <1>5
    <3> QED
      BY <3>1, ConcatProperties
  <2> QED
    BY <1>2, <1>4, <2>1 DEF n
<1>7. DOMAIN watches' = 1 .. n + Len(keys)
  BY <1>6, LenProperties
<1>8. ASSUME NEW i \in DOMAIN watches', i <= n
      PROVE  i \in DOMAIN watches /\ watches'[i] = watches[i]
  BY <1>4, <1>5, <1>6, <1>7, <1>8
<1>9. ASSUME NEW i \in DOMAIN watches', ~(i <= n)
      PROVE  /\ i - n \in DOMAIN keys /\ watches'[i].key = keys[i - n]
             /\ watches'[i].serial = Len(added) + (i - n)
             /\ watches'[i].serial \notin DOMAIN added
  <2>1. i \in 1 .. n + Len(keys) /\ i - n \in DOMAIN keys
    BY <1>4, <1>5, <1>7, <1>9
  <2>2. watches'[i] = new[i - n]
    BY <1>6, <1>9, <2>1
  <2>3. new[i - n].key = keys[i - n] /\ new[i - n].serial = Len(added) + (i - n)
    BY <1>4, <2>1
  <2>4. Len(added) + (i - n) \notin DOMAIN added
    BY <1>3, <2>1
  <2> QED
    BY <2>1, <2>2, <2>3, <2>4
<1>10. ASSUME NEW i \in DOMAIN watches'
       PROVE  /\ watches'[i].serial \in DOMAIN added'
              /\ watches'[i].key = added'[watches'[i].serial].key
              /\ added'[watches'[i].serial].epoch = epoch'
  <2>1. CASE i <= n
    BY <1>2, <1>3, <1>5, <1>8, <2>1 DEF InOrder, OfEpoch, Grown
  <2>2. CASE ~(i <= n)
    BY <1>2, <1>3, <1>9, <2>2
  <2> QED
    BY <2>1, <2>2
<1>11. ASSUME NEW i \in DOMAIN watches', NEW j \in DOMAIN watches', i < j
       PROVE  watches'[i].serial < watches'[j].serial
  <2>1. CASE j <= n
    <3>1. i <= n
      BY <1>5, <1>4, <1>7, <1>11, <2>1
    <3> QED
      BY <1>5, <1>8, <1>11, <2>1, <3>1 DEF InOrder
  <2>2. CASE i <= n /\ ~(j <= n)
    <3>1. watches'[i].serial \in DOMAIN added
      BY <1>5, <1>8, <2>2 DEF InOrder
    <3>2. watches'[j].serial = Len(added) + (j - n) /\ j - n \in 1 .. Len(keys)
      BY <1>4, <1>9, <2>2
    <3> QED
      BY <1>4, <1>5, <3>1, <3>2
  <2>3. CASE ~(i <= n) /\ ~(j <= n)
    <3>1. /\ watches'[i].serial = Len(added) + (i - n)
          /\ watches'[j].serial = Len(added) + (j - n)
      BY <1>9, <2>3
    <3> QED
      BY <1>4, <1>5, <1>7, <1>11, <3>1
  <2> QED
    BY <1>4, <1>5, <1>7, <1>11, <2>1, <2>2, <2>3
<1>12. InOrder(watches)' /\ OfEpoch(watches)'
  BY <1>10, <1>11 DEF InOrder, OfEpoch
<1>13. \A i \in DOMAIN watches' :
          \/ watches'[i].serial \notin DOMAIN added
          \/ \E j \in DOMAIN watches : watches'[i].serial = watches[j].serial
  <2> TAKE i \in DOMAIN watches'
  <2>1. CASE i <= n
    BY <1>8, <2>1
  <2>2. CASE ~(i <= n)
    BY <1>9, <2>2
  <2> QED
    BY <2>1, <2>2
<1>14. Edited
  <2>1. /\ revision \in Int /\ generation \in Nat /\ generation <= revision
        /\ registered = TRUE /\ epoch \in Nat
    BY <1>1, <1>2 DEF WatchTyped
  <2>2. /\ revision' \in Nat /\ generation' \in Nat /\ revision < revision'
        /\ generation <= generation' /\ generation' <= revision'
    BY <1>2, <2>1
  <2>3. Len(watches') <= MaxWatches
    BY <1>2, <1>6
  <2> QED
    BY <1>2, <1>6, <1>12, <1>13, <2>1, <2>2, <2>3 DEF Edited
<1> QED
  BY <1>3, <1>14, EditKeeps

LEMMA ReplaceStep ==
    ASSUME WatchInv, NEW keys \in Seq(Keys), replaceWatches(keys)
    PROVE  WatchInv'
<1>1. /\ registered /\ Len(keys) <= MaxWatches /\ watches' = NewWatches(keys)
      /\ revision' = revision + 1 /\ generation' = generation + 1
      /\ epoch' = epoch + 1 /\ Adds(keys, epoch')
      /\ registered' = TRUE /\ UNCHANGED <<compiled, firings, missed, time>>
  BY DEF replaceWatches, FitsLimit, bumpRevision, BumpedRevision, BumpedGeneration, WatchInv,
         WatchTyped
<1>2. epoch' \in Nat /\ generation' \in Nat
  BY <1>1 DEF WatchInv, WatchTyped
<1> QED
  BY <1>1, <1>2, RenewedEdits

LEMMA RemoveStep ==
    ASSUME WatchInv, NEW gone, removeWatches(gone)
    PROVE  WatchInv'
<1>1. WatchTyped
  BY DEF WatchInv
<1> DEFINE S == {i \in DOMAIN watches : watches[i].serial \notin gone}
           C == Cardinality(S)
<1>2. /\ registered /\ watches' = Picked(watches, S) /\ revision' = revision + 1
      /\ UNCHANGED <<registered, generation, compiled, added, epoch, firings, missed, time>>
  BY DEF removeWatches, bumpRevision, BumpedRevision, watchHistory
<1>3. watches \in Seq(Watch) /\ Len(watches) \in Nat /\ S \in SUBSET DOMAIN watches
      /\ InOrder(watches) /\ OfEpoch(watches) /\ Len(watches) <= MaxWatches
  BY <1>1, WatchLists DEF WatchTyped
<1> HIDE DEF S
<1>4. /\ watches' \in Seq(Watch) /\ DOMAIN watches' = 1 .. C /\ Len(watches') = C
      /\ C \in 0 .. Len(watches)
      /\ \A k \in 1 .. C : Nth(S, k) \in S /\ watches'[k] = watches[Nth(S, k)]
      /\ \A k, l \in 1 .. C : k < l => Nth(S, k) < Nth(S, l)
  BY <1>2, <1>3, PickedIs
<1> HIDE DEF C
<1>5. \A k \in DOMAIN watches' : Nth(S, k) \in DOMAIN watches /\ watches'[k] = watches[Nth(S, k)]
  BY <1>3, <1>4
<1>6. InOrder(watches)' /\ OfEpoch(watches)'
  BY <1>2, <1>3, <1>4, <1>5 DEF InOrder, OfEpoch
<1>7. Edited
  <2>1. C <= MaxWatches
    BY <1>3, <1>4, WatchesAssumption
  <2> QED
    BY <1>1, <1>2, <1>4, <1>5, <1>6, <2>1 DEF Edited, WatchTyped
<1>8. Grown
  BY <1>1, <1>2 DEF Grown, WatchTyped
<1> QED
  BY <1>7, <1>8, EditKeeps

LEMMA EndStep ==
    ASSUME WatchInv, handleProcessEnded
    PROVE  WatchInv'
<1>1. /\ registered' = FALSE /\ watches' = <<>> /\ compiled' = NoMatchers
      /\ UNCHANGED <<revision, generation, added, epoch, firings, missed, time>>
  BY DEF handleProcessEnded, watchHistory, watchCounters
<1>2. /\ \A s : Fired(s)' <=> Fired(s)
      /\ \A s : HasTwin(s)' <=> HasTwin(s)
  BY <1>1 DEF Fired, HasTwin
<1>3. WatchTyped'
  <2>1. /\ watches' \in Seq(Watch) /\ DOMAIN watches' = {}
        /\ Len(watches') = 0 /\ 0 <= MaxWatches
    BY <1>1, WatchesAssumption
  <2>2. InOrder(watches)' /\ OfEpoch(watches)'
    BY <2>1 DEF InOrder, OfEpoch
  <2> QED
    BY <1>1, <2>1, <2>2 DEF WatchInv, WatchTyped
<1>4. CompiledFollows' /\ FiredIsKnown'
  BY <1>1 DEF CompiledFollows, FiredIsKnown, NoMatchers
<1>5. FiresAsOftenAsAsked' /\ FirstMatchFires'
  BY <1>1, <1>2 DEF WatchInv, FiresAsOftenAsAsked, OncePerWatch, CooldownIsKept, FirstMatchFires
<1> QED
  BY <1>3, <1>4, <1>5 DEF WatchInv

(* A step that leaves all but the clock and the counters alone. *)
LEMMA QuietStep ==
    ASSUME WatchInv, time' \in Nat, time <= time',
           UNCHANGED <<registered, watches, revision, generation, compiled, added, epoch,
                       firings, missed>>
    PROVE  WatchInv'
<1>1. /\ \A s : Fired(s)' <=> Fired(s)
      /\ \A s : HasTwin(s)' <=> HasTwin(s)
  BY DEF Fired, HasTwin
<1>2. WatchTyped'
  <2>1. \A f \in DOMAIN firings : firings[f].at <= time'
    <3>1. \A f \in DOMAIN firings : firings[f].at \in Nat /\ firings[f].at <= time /\ time \in Nat
      BY WatchLists DEF WatchInv, WatchTyped
    <3> QED
      BY <3>1
  <2> QED
    BY <2>1 DEF WatchInv, WatchTyped, InOrder, OfEpoch
<1>3. CompiledFollows'
  BY <1>1 DEF WatchInv, CompiledFollows, NoMatchers, Matched, InOrder, FiredFirst, Remembers,
       OfEpoch, Follows, Alike
<1>4. FiredIsKnown'
  BY <1>1 DEF WatchInv, FiredIsKnown, NoMatchers
<1>5. FiresAsOftenAsAsked' /\ FirstMatchFires'
  BY <1>1 DEF WatchInv, FiresAsOftenAsAsked, OncePerWatch, CooldownIsKept, FirstMatchFires
<1> QED
  BY <1>2, <1>3, <1>4, <1>5 DEF WatchInv

LEMMA WatchStart == WatchInit => WatchInv
<1> SUFFICES ASSUME WatchInit
             PROVE  WatchInv
  OBVIOUS
<1>1. WatchTyped
  <2>1. /\ watches = <<>> /\ watches \in Seq(Watch) /\ DOMAIN watches = {}
        /\ Len(watches) = 0 /\ 0 <= MaxWatches
    BY WatchesAssumption DEF WatchInit
  <2>2. InOrder(watches) /\ OfEpoch(watches)
    BY <2>1 DEF InOrder, OfEpoch
  <2>3. added \in Seq(Added) /\ firings \in Seq([serial : Nat, at : Nat]) /\ DOMAIN firings = {}
    BY DEF WatchInit
  <2>4. /\ registered = FALSE /\ revision = -1 /\ generation = -1 /\ time = 0 /\ epoch = 0
        /\ missed = {}
    BY DEF WatchInit
  <2>5. /\ revision \in Int /\ generation \in Nat \cup {-1} /\ generation <= revision
        /\ time \in Nat /\ epoch \in Nat /\ registered \in BOOLEAN
    <3>1. generation = revision /\ revision \in Int
      BY <2>4
    <3>2. generation \in Nat \cup {-1} /\ generation <= revision
      BY <2>4, <3>1
    <3> QED
      BY <2>4, <3>1, <3>2
  <2>6. Len(watches) <= MaxWatches
    BY <2>1
  <2> HIDE DEF WatchInit
  <2> QED
    BY <2>1, <2>2, <2>3, <2>4, <2>5, <2>6 DEF WatchTyped
<1>2. CompiledFollows /\ FiredIsKnown
  BY DEF WatchInit, CompiledFollows, FiredIsKnown
<1>3. FiresAsOftenAsAsked /\ FirstMatchFires
  BY DEF WatchInit, FiresAsOftenAsAsked, OncePerWatch, CooldownIsKept, FirstMatchFires
<1> QED
  BY <1>1, <1>2, <1>3 DEF WatchInv

FiresListed ==
    \A f \in DOMAIN firings' \ DOMAIN firings :
        registered /\ firings'[f].serial \in Serials(watches)

LEMMA WatchStep ==
    ASSUME WatchInv, [WatchNext]_watchVars
    PROVE  WatchInv' /\ FiresListed
<1>1. ASSUME firings' = firings
      PROVE  FiresListed
  BY <1>1 DEF FiresListed
<1>2. CASE \E keys \in SeqOf(Keys, MaxWatches + 1) : register(keys)
  <2>1. PICK keys \in SeqOf(Keys, MaxWatches + 1) : register(keys)
    BY <1>2
  <2> QED
    BY <1>1, <2>1, KeysTyped, RegisterStep DEF register
<1>3. CASE \E keys \in SeqOf(Keys, MaxWatches + 1) : appendWatches(keys)
  <2>1. PICK keys \in SeqOf(Keys, MaxWatches + 1) : appendWatches(keys)
    BY <1>3
  <2> QED
    BY <1>1, <2>1, KeysTyped, AppendStep DEF appendWatches
<1>4. CASE \E keys \in SeqOf(Keys, MaxWatches + 1) : replaceWatches(keys)
  <2>1. PICK keys \in SeqOf(Keys, MaxWatches + 1) : replaceWatches(keys)
    BY <1>4
  <2> QED
    BY <1>1, <2>1, KeysTyped, ReplaceStep DEF replaceWatches
<1>5. CASE clearWatches
  <2>1. replaceWatches(<<>>) /\ <<>> \in Seq(Keys)
    BY <1>5 DEF clearWatches
  <2> QED
    BY <1>1, <2>1, ReplaceStep DEF replaceWatches
<1>6. CASE \E gone \in SUBSET Serials(watches) : removeWatches(gone)
  <2>1. PICK gone \in SUBSET Serials(watches) : removeWatches(gone)
    BY <1>6
  <2> QED
    BY <1>1, <2>1, RemoveStep DEF removeWatches, watchHistory
<1>7. CASE \E lines \in SUBSET Keys : handleOutputChanged(lines)
  <2>1. PICK lines \in SUBSET Keys : handleOutputChanged(lines)
    BY <1>7
  <2> QED
    BY <2>1, OutputStep DEF FiresListed
<1>8. CASE handleProcessEnded
  BY <1>1, <1>8, EndStep DEF handleProcessEnded, watchHistory
<1>9. CASE WatchTock
  <2>1. time' = time + 1 /\ time \in Nat
    BY <1>9 DEF WatchTock, WatchInv, WatchTyped
  <2>2. UNCHANGED <<registered, watches, revision, generation, compiled, added, epoch,
                    firings, missed>>
    BY <1>9 DEF WatchTock, registry, watchHistory
  <2> QED
    BY <1>1, <2>1, <2>2, QuietStep
<1>10. CASE UNCHANGED watchVars
  <2>1. time' = time /\ time \in Nat
    BY <1>10 DEF watchVars, watchCounters, WatchInv, WatchTyped
  <2>2. UNCHANGED <<registered, watches, revision, generation, compiled, added, epoch,
                    firings, missed>>
    BY <1>10 DEF watchVars, registry, watchHistory
  <2> QED
    BY <1>1, <2>1, <2>2, QuietStep
<1> QED
  BY <1>2, <1>3, <1>4, <1>5, <1>6, <1>7, <1>8, <1>9, <1>10 DEF WatchNext

(* notifications/service.ts, syncMatcherState and preserveMatcherRuntimeState:
   what the compiled matchers remember of the watches on the list, however the
   list is edited between two outputs. *)
THEOREM WatchInvariance == WatchSpec => []WatchInv
<1>1. WatchInv /\ [WatchNext]_watchVars => WatchInv'
  BY WatchStep
<1> QED
  BY <1>1, WatchStart, PTL DEF WatchSpec

(* The bounds of the list and of the matchers; what is a watch, and where. *)
THEOREM WatchesTyped == WatchSpec => []WatchTypeOK
<1>1. WatchInv => WatchTypeOK
  <2> SUFFICES ASSUME WatchInv
               PROVE  WatchTypeOK
    OBVIOUS
  <2>1. WatchTyped /\ CompiledFollows
    BY DEF WatchInv
  <2>2. \A f \in DOMAIN firings : firings[f].at \in 0 .. time
    BY <2>1, WatchLists DEF WatchTyped
  <2>3. revision >= generation
    BY <2>1 DEF WatchTyped
  <2> QED
    BY <2>1, <2>2, <2>3 DEF WatchTypeOK, WatchTyped, InOrder, CompiledFollows
<1> QED
  BY <1>1, WatchInvariance, PTL

(* No edit of the list makes a one-shot watch fire again or cuts the cooldown of
   a repeating one short, unless that can be taken for another. *)
THEOREM WatchesFireAsAsked == WatchSpec => []FiresAsOftenAsAsked
<1>1. WatchInv => FiresAsOftenAsAsked
  BY DEF WatchInv
<1> QED
  BY <1>1, WatchInvariance, PTL

(* No edit of the list silences a watch that has not fired, unless it can be
   taken for another. *)
THEOREM FirstMatchesFire == WatchSpec => []FirstMatchFires
<1>1. WatchInv => FirstMatchFires
  BY DEF WatchInv
<1> QED
  BY <1>1, WatchInvariance, PTL

(* A watch that was taken out of the list does not fire, although the service
   hears of that only with the next output. *)
THEOREM ListedOnlyFire == WatchSpec => OnlyListedFires
<1>1. WatchInv /\ [WatchNext]_watchVars => [FiresListed]_watchVars
  BY WatchStep
<1>2. [FiresListed]_watchVars =>
        [\A i \in DOMAIN firings' \ DOMAIN firings :
            registered /\ firings'[i].serial \in Serials(watches)]_watchVars
  BY DEF FiresListed
<1> QED
  BY <1>1, <1>2, WatchInvariance, PTL DEF WatchSpec, OnlyListedFires

-----------------------------------------------------------------------------
(* Delivery *)

Indices == 1 .. Len(delivered)

(* An open window has its timer and at least the delivery that opened it; a
   closed one leaves nothing behind. *)
WindowShape ==
    /\ windowStart # Never =>
          /\ ~disposed /\ windowStart <= now /\ sentInWindow > 0
          /\ summaryTimer = windowStart + Window
    /\ windowStart = Never =>
          summaryTimer = Never /\ sentInWindow = 0 /\ suppressed = 0
    /\ ~disposed => dropped = 0

(* A delivery is made within its window, and not in the future. *)
WithinWindow ==
    \A i \in Indices :
        /\ delivered[i].window <= delivered[i].at
        /\ delivered[i].at < delivered[i].window + Window
        /\ delivered[i].at <= now

(* Two deliveries share a window or theirs are a window's length apart. *)
WindowsApart ==
    \A i, j \in Indices :
        i < j => \/ delivered[i].window = delivered[j].window
                 \/ delivered[i].window + Window <= delivered[j].window

(* A window holds at most MaxPerWindow deliveries. *)
WindowsLimited ==
    \A i, j \in Indices :
        j = i + MaxPerWindow =>
            delivered[i].window + Window <= delivered[j].window

(* The first delivery of a window is made when the window opens. *)
WindowsOpened ==
    \A i \in Indices :
        i = 1 \/ delivered[i - 1].window # delivered[i].window
            => delivered[i].at = delivered[i].window

(* Until the listener goes, the last sentInWindow deliveries are those of the
   current window, and all others are a window's length in the past. *)
CurrentWindow ==
    ~disposed =>
        /\ sentInWindow <= Len(delivered)
        /\ \A i \in Indices :
              IF i > Len(delivered) - sentInWindow
              THEN delivered[i].window = windowStart
              ELSE IF windowStart = Never
                   THEN delivered[i].window + Window <= now
                   ELSE delivered[i].window + Window <= windowStart

Deliveries ==
    /\ WithinWindow /\ WindowsApart /\ WindowsLimited /\ WindowsOpened
    /\ CurrentWindow

IInv == DeliveryTypeOK /\ WindowShape /\ EveryMatchIsAccountedFor /\ Deliveries

-----------------------------------------------------------------------------
(* Lemmas *)

(* The parameters are positive. *)
LEMMA Parameters ==
  /\ Window \in Nat /\ Window > 0
  /\ MaxPerWindow \in Nat /\ MaxPerWindow > 0
  BY DeliveryAssumption

(* What a delivery does to the sequence: one entry more, the others as they
   were. *)
LEMMA DeliveredAppend ==
  ASSUME DeliveryTypeOK, now' = now, NEW start \in Nat, Pass(start)
  PROVE  /\ Len(delivered) \in Nat
         /\ delivered' \in Seq([at : Nat, window : Nat])
         /\ Indices' = 1 .. Len(delivered) + 1
         /\ Len(delivered') = Len(delivered) + 1
         /\ \A i \in Indices : delivered'[i] = delivered[i]
         /\ delivered'[Len(delivered) + 1].at = now
         /\ delivered'[Len(delivered) + 1].window = start
<1> DEFINE entry == [at |-> now, window |-> start]
           Entries == [at : Nat, window : Nat]
<1>1. entry \in Entries /\ delivered \in Seq(Entries)
  BY DEF DeliveryTypeOK
<1>2. delivered' = Append(delivered, entry)
  BY DEF Pass
<1>3. Len(delivered) \in Nat
  BY <1>1
<1> HIDE DEF entry, Entries
<1>4. /\ delivered' \in Seq(Entries)
      /\ Len(delivered') = Len(delivered) + 1
      /\ \A i \in 1 .. Len(delivered) : delivered'[i] = delivered[i]
      /\ delivered'[Len(delivered) + 1] = entry
  BY <1>1, <1>2, AppendProperties
<1> QED
  BY <1>3, <1>4 DEF Indices, entry, Entries

(* Deliveries are dated. *)
LEMMA DeliveryDates ==
  ASSUME DeliveryTypeOK
  PROVE  /\ Len(delivered) \in Nat
         /\ \A i \in Indices :
               delivered[i].at \in Nat /\ delivered[i].window \in Nat
<1> DEFINE Entries == [at : Nat, window : Nat]
<1>1. delivered \in Seq(Entries)
  BY DEF DeliveryTypeOK
<1> HIDE DEF Entries
<1>2. Len(delivered) \in Nat /\ \A i \in Indices : delivered[i] \in Entries
  BY <1>1 DEF Indices
<1> QED
  BY <1>2 DEF Entries

(* MaxPerWindow deliveries further on the window is another one, and twice that
   is two windows away unless the first delivery opened its window. *)
LEMMA WindowsSpread ==
  ASSUME IInv, NEW i \in Indices, NEW last \in Indices,
         last = i + 2 * MaxPerWindow - 1
  PROVE  delivered[last].at - delivered[i].at >= Window
<1>1. /\ MaxPerWindow \in Nat /\ MaxPerWindow > 0
      /\ Window \in Nat /\ Window > 0
      /\ Len(delivered) \in Nat
      /\ \A j \in Indices :
            delivered[j].at \in Nat /\ delivered[j].window \in Nat
  BY Parameters, DeliveryDates DEF IInv
<1>2. /\ i + MaxPerWindow \in Indices /\ i + MaxPerWindow <= last
      /\ i > 1 => /\ i - 1 \in Indices
                  /\ i - 1 + MaxPerWindow \in Indices
                  /\ last = i - 1 + MaxPerWindow + MaxPerWindow
  BY <1>1 DEF Indices
<1>3. /\ delivered[last].at \in Nat /\ delivered[last].window \in Nat
      /\ delivered[i].at \in Nat /\ delivered[i].window \in Nat
      /\ delivered[last].window <= delivered[last].at
      /\ delivered[i].at < delivered[i].window + Window
  BY <1>1, <1>2 DEF IInv, Deliveries, WithinWindow
<1>4. CASE i = 1 \/ delivered[i - 1].window # delivered[i].window
  <2>1. delivered[i].at = delivered[i].window
    BY <1>2, <1>4 DEF IInv, Deliveries, WindowsOpened
  <2> DEFINE next == i + MaxPerWindow
  <2>2. next \in Indices /\ next <= last
    BY <1>2
  <2>3. delivered[i].window + Window <= delivered[next].window
    BY <1>2, <2>2 DEF IInv, Deliveries, WindowsLimited
  <2> HIDE DEF next
  <2>4. \/ delivered[next].window = delivered[last].window
        \/ delivered[next].window + Window <= delivered[last].window
    BY <1>1, <1>2, <2>2 DEF IInv, Deliveries, WindowsApart, Indices
  <2>5. delivered[next].window \in Nat
    BY <1>1, <2>2
  <2> QED
    BY <1>3, <2>1, <2>3, <2>4, <2>5, Parameters
<1>5. CASE i > 1 /\ delivered[i - 1].window = delivered[i].window
  <2> DEFINE middle == i - 1 + MaxPerWindow
  <2>1. /\ i - 1 \in Indices /\ middle \in Indices
        /\ last = middle + MaxPerWindow
    BY <1>2, <1>5
  <2>2. delivered[i].window + Window <= delivered[middle].window
    BY <1>5, <2>1 DEF IInv, Deliveries, WindowsLimited
  <2> HIDE DEF middle
  <2>3. delivered[middle].window + Window <= delivered[last].window
    BY <1>2, <2>1 DEF IInv, Deliveries, WindowsLimited
  <2>4. delivered[middle].window \in Nat
    BY <1>1, <2>1
  <2> QED
    BY <1>3, <2>2, <2>3, <2>4, Parameters
<1> QED
  BY <1>1, <1>4, <1>5 DEF Indices

(* Windows that are apart and limited bound the bursts. *)
LEMMA WindowsBoundBursts == IInv => BurstsAreBounded
<1> SUFFICES ASSUME IInv,
                    NEW i \in 1 .. Len(delivered) - (2 * MaxPerWindow - 1)
             PROVE  delivered[i + 2 * MaxPerWindow - 1].at - delivered[i].at
                        >= Window
  BY DEF BurstsAreBounded
<1> DEFINE last == i + 2 * MaxPerWindow - 1
<1>1. i \in Indices /\ last \in Indices
  BY Parameters, DeliveryDates DEF IInv, Indices
<1>2. last = i + 2 * MaxPerWindow - 1
  OBVIOUS
<1> HIDE DEF last
<1>3. delivered[last].at - delivered[i].at >= Window
  BY <1>1, <1>2, WindowsSpread
<1> QED
  BY <1>3 DEF last

(* Once the current window is over, all deliveries are of windows that are. *)
LEMMA PastWindows ==
  ASSUME IInv, ~disposed, windowStart # Never => windowStart + Window <= now
  PROVE  \A i \in Indices : delivered[i].window + Window <= now
<1> SUFFICES ASSUME NEW i \in Indices
             PROVE  delivered[i].window + Window <= now
  OBVIOUS
<1>1. /\ Len(delivered) \in Nat /\ i \in Nat /\ i <= Len(delivered)
      /\ delivered[i].window \in Nat /\ now \in Nat
      /\ windowStart = Never \/ windowStart \in Nat
  BY DeliveryDates DEF IInv, DeliveryTypeOK, Indices
<1>2. IF i > Len(delivered) - sentInWindow
      THEN delivered[i].window = windowStart
      ELSE IF windowStart = Never
           THEN delivered[i].window + Window <= now
           ELSE delivered[i].window + Window <= windowStart
  BY DEF IInv, Deliveries, CurrentWindow
<1>3. CASE windowStart = Never
  <2>1. ~(i > Len(delivered) - sentInWindow)
    BY <1>1, <1>3 DEF IInv, WindowShape
  <2> QED
    BY <1>2, <1>3, <2>1
<1>4. CASE windowStart # Never
  BY <1>1, <1>2, <1>4, Parameters
<1> QED
  BY <1>3, <1>4

(* A delivery keeps the shape of the sequence when it is made now, at the
   start of a window that follows all others or in the current one below the
   limit. *)
LEMMA DeliveringKeepsWindows ==
  ASSUME IInv, ~disposed, now' = now, NEW start \in Nat, Pass(start),
         \/ /\ start = now
            /\ windowStart # Never => windowStart + Window <= now
         \/ /\ windowStart # Never /\ start = windowStart
            /\ now < windowStart + Window /\ sentInWindow < MaxPerWindow
  PROVE  (WithinWindow /\ WindowsApart /\ WindowsLimited /\ WindowsOpened)'
<1> DEFINE n == Len(delivered)
           new == n + 1
<1>1. /\ MaxPerWindow \in Nat /\ MaxPerWindow > 0
      /\ Window \in Nat /\ Window > 0
      /\ n \in Nat /\ now \in Nat /\ sentInWindow \in Nat
      /\ windowStart = Never \/ windowStart \in Nat
      /\ \A i \in Indices :
            delivered[i].at \in Nat /\ delivered[i].window \in Nat
  BY Parameters, DeliveryDates DEF IInv, DeliveryTypeOK
<1>2. /\ Indices' = 1 .. new /\ Indices = 1 .. n
      /\ \A i \in Indices : delivered'[i] = delivered[i]
      /\ delivered'[new].at = now /\ delivered'[new].window = start
      /\ Len(delivered') = new
  BY DeliveredAppend DEF IInv, Indices
<1>3. /\ start <= now /\ now < start + Window
      /\ sentInWindow <= n
  BY <1>1 DEF IInv, WindowShape, Deliveries, CurrentWindow, Never
<1>4. \A i \in Indices :
        IF i > n - sentInWindow
        THEN delivered[i].window = windowStart
        ELSE IF windowStart = Never
             THEN delivered[i].window + Window <= now
             ELSE delivered[i].window + Window <= windowStart
  BY DEF IInv, Deliveries, CurrentWindow
<1>5. /\ \A i \in Indices : \/ delivered[i].window = start
                          \/ delivered[i].window + Window <= start
      /\ \A i \in Indices :
            i + MaxPerWindow = n + 1 => delivered[i].window + Window <= start
      /\ start = now \/ (n \in Indices /\ delivered[n].window = start)
  <2>1. CASE /\ start = now
             /\ windowStart # Never => windowStart + Window <= now
    <3>1. \A i \in Indices : delivered[i].window + Window <= start
      BY <2>1, PastWindows
    <3> QED
      BY <2>1, <3>1
  <2>2. CASE /\ windowStart # Never /\ start = windowStart
             /\ now < windowStart + Window /\ sentInWindow < MaxPerWindow
    <3>1. \A i \in Indices : i <= n - sentInWindow =>
              delivered[i].window + Window <= start
      BY <1>1, <1>2, <1>4, <2>2
    <3>2. sentInWindow > 0 /\ n \in Indices /\ delivered[n].window = start
      BY <1>1, <1>2, <1>3, <1>4, <2>2 DEF IInv, WindowShape
    <3>3. \A i \in Indices :
              i + MaxPerWindow = n + 1 => delivered[i].window + Window <= start
      BY <1>1, <1>2, <2>2, <3>1
    <3> QED
      BY <1>4, <2>2, <3>1, <3>2, <3>3
  <2> QED
    BY <2>1, <2>2
<1>6. new = n + 1
  OBVIOUS
<1> HIDE DEF n, new
<1>7. \A i \in Indices' : (i \in Indices /\ i <= n) \/ i = new
  BY <1>1, <1>2, <1>6
<1>8. \A i \in Indices', j \in Indices' : i < j => i \in Indices
  BY <1>1, <1>2, <1>6
<1>9. WithinWindow'
  <2> SUFFICES ASSUME NEW i \in Indices'
               PROVE  /\ delivered'[i].window <= delivered'[i].at
                      /\ delivered'[i].at < delivered'[i].window + Window
                      /\ delivered'[i].at <= now'
    BY DEF WithinWindow
  <2>1. CASE i \in Indices /\ i <= n
    BY <1>1, <1>2, <2>1 DEF IInv, Deliveries, WithinWindow
  <2>2. CASE i = new
    BY <1>1, <1>2, <1>3, <2>2
  <2> QED
    BY <1>7, <2>1, <2>2
<1>10. WindowsApart'
  <2> SUFFICES ASSUME NEW i \in Indices', NEW j \in Indices', i < j
               PROVE  \/ delivered'[i].window = delivered'[j].window
                      \/ delivered'[i].window + Window <= delivered'[j].window
    BY DEF WindowsApart
  <2>1. i \in Indices /\ delivered'[i] = delivered[i]
    BY <1>2, <1>8
  <2>2. CASE j \in Indices
    BY <1>2, <2>1, <2>2 DEF IInv, Deliveries, WindowsApart
  <2>3. CASE j = new
    BY <1>2, <1>5, <2>1, <2>3
  <2> QED
    BY <1>7, <2>2, <2>3
<1>11. WindowsLimited'
  <2> SUFFICES ASSUME NEW i \in Indices', NEW j \in Indices',
                      j = i + MaxPerWindow
               PROVE  delivered'[i].window + Window <= delivered'[j].window
    BY DEF WindowsLimited
  <2>1. i \in Indices /\ delivered'[i] = delivered[i]
    BY <1>1, <1>2, <1>8
  <2>2. CASE j \in Indices
    BY <1>2, <2>1, <2>2 DEF IInv, Deliveries, WindowsLimited
  <2>3. CASE j = new
    BY <1>2, <1>5, <1>6, <2>1, <2>3
  <2> QED
    BY <1>7, <2>2, <2>3
<1>12. WindowsOpened'
  <2> SUFFICES ASSUME NEW i \in Indices',
                      i = 1 \/ delivered'[i - 1].window # delivered'[i].window
               PROVE  delivered'[i].at = delivered'[i].window
    BY DEF WindowsOpened
  <2>1. CASE i \in Indices
    <3>1. delivered'[i] = delivered[i]
      BY <1>2, <2>1
    <3>2. i > 1 => delivered'[i - 1] = delivered[i - 1]
      BY <1>1, <1>2, <2>1
    <3> QED
      BY <1>2, <2>1, <3>1, <3>2 DEF IInv, Deliveries, WindowsOpened
  <2>2. CASE i = new
    <3>1. n \in Indices => i - 1 = n /\ i # 1
      BY <1>1, <1>2, <1>6, <2>2
    <3> QED
      BY <1>2, <1>5, <2>2, <3>1
  <2> QED
    BY <1>7, <2>1, <2>2
<1> QED
  BY <1>9, <1>10, <1>11, <1>12

-----------------------------------------------------------------------------
(* IInv is inductive: one lemma per action *)

(* It holds before the first match. *)
LEMMA InitInv == Init => IInv
<1> SUFFICES ASSUME Init PROVE IInv
  OBVIOUS
<1>1. delivered \in Seq([at : Nat, window : Nat]) /\ Len(delivered) = 0
  BY DEF Init
<1>2. /\ sentInWindow \in 0 .. MaxPerWindow /\ suppressed \in Nat /\ now \in Nat
      /\ arrived \in Nat /\ told \in Nat /\ dropped \in Nat
  BY Parameters DEF Init
<1>3. windowStart \in Nat \cup {Never} /\ summaryTimer \in Nat \cup {Never}
  BY DEF Init
<1>4. disposed \in BOOLEAN
  BY DEF Init
<1>5. WindowShape /\ EveryMatchIsAccountedFor
  BY <1>1 DEF Init, WindowShape, EveryMatchIsAccountedFor
<1>6. Deliveries
  BY <1>1 DEF Init, Deliveries, WithinWindow, WindowsApart, WindowsLimited,
     WindowsOpened, CurrentWindow, Indices
<1> QED
  BY <1>1, <1>2, <1>3, <1>4, <1>5, <1>6 DEF IInv, DeliveryTypeOK

(* A match that opens a window tells what the last one suppressed. *)
LEMMA MatchOpensWindowInv == IInv /\ MatchOpensWindow => IInv'
<1> SUFFICES ASSUME IInv, MatchOpensWindow PROVE IInv'
  OBVIOUS
<1> USE Parameters DEF Never
<1>1. DeliveryTypeOK /\ now \in Nat /\ now' = now /\ Pass(now) /\ ~disposed
  BY DEF IInv, DeliveryTypeOK, MatchOpensWindow
<1>2. windowStart # Never => windowStart + Window <= now
  BY DEF IInv, DeliveryTypeOK, MatchOpensWindow, Expired
<1>3. /\ Len(delivered) \in Nat /\ Len(delivered') = Len(delivered) + 1
      /\ delivered' \in Seq([at : Nat, window : Nat])
      /\ Indices' = 1 .. Len(delivered) + 1
      /\ \A i \in Indices : delivered'[i] = delivered[i]
      /\ delivered'[Len(delivered) + 1].window = now
  BY <1>1, DeliveredAppend
<1>4. DeliveryTypeOK'
  BY <1>1, <1>3 DEF DeliveryTypeOK, MatchOpensWindow, StartedTimer,
     PreviousSuppressed
<1>5. WindowShape'
  BY <1>1 DEF IInv, WindowShape, MatchOpensWindow, StartedTimer
<1>6. EveryMatchIsAccountedFor'
  <2>1. /\ arrived' = arrived + 1 /\ told' = told + suppressed
        /\ suppressed' = 0 /\ dropped' = dropped
    BY <1>1 DEF IInv, DeliveryTypeOK, WindowShape, MatchOpensWindow,
       PreviousSuppressed
  <2>2. /\ arrived \in Nat /\ told \in Nat
        /\ suppressed \in Nat /\ dropped \in Nat
        /\ arrived = Len(delivered) + told + suppressed + dropped
    BY DEF IInv, DeliveryTypeOK, EveryMatchIsAccountedFor
  <2> QED
    BY <1>3, <2>1, <2>2 DEF EveryMatchIsAccountedFor
<1>7. (WithinWindow /\ WindowsApart /\ WindowsLimited /\ WindowsOpened)'
  BY <1>1, <1>2, DeliveringKeepsWindows
<1>8. CurrentWindow'
  <2>1. sentInWindow' = 1 /\ windowStart' = now
    BY DEF MatchOpensWindow
  <2>2. \A i \in Indices : delivered[i].window + Window <= now
    BY <1>1, <1>2, PastWindows
  <2>3. \A i \in Indices' : i > Len(delivered') - 1 => i = Len(delivered) + 1
    BY <1>3
  <2>4. \A i \in Indices' : ~(i > Len(delivered') - 1) => i \in Indices
    BY <1>3 DEF Indices
  <2>5. ASSUME NEW i \in Indices'
        PROVE  IF i > Len(delivered') - 1
               THEN delivered'[i].window = now
               ELSE delivered'[i].window + Window <= now
    BY <1>3, <2>2, <2>3, <2>4
  <2>6. sentInWindow' <= Len(delivered') /\ now # Never
    BY <1>1, <1>3, <2>1
  <2> QED
    BY <2>1, <2>5, <2>6 DEF CurrentWindow
<1> QED
  BY <1>4, <1>5, <1>6, <1>7, <1>8 DEF IInv, Deliveries

(* A match within the window is passed on below the limit, counted above. *)
LEMMA MatchInWindowInv == IInv /\ MatchInWindow => IInv'
<1> SUFFICES ASSUME IInv, MatchInWindow PROVE IInv'
  OBVIOUS
<1> USE Parameters DEF Never
<1>1. /\ DeliveryTypeOK /\ now \in Nat /\ now' = now /\ ~disposed
      /\ windowStart \in Nat /\ now < windowStart + Window
      /\ windowStart' = windowStart /\ summaryTimer' = summaryTimer
      /\ disposed' = disposed /\ told' = told /\ dropped' = dropped
      /\ arrived' = arrived + 1
  BY DEF IInv, DeliveryTypeOK, MatchInWindow, Expired
<1>2. CASE AtLimit
  <2>1. /\ suppressed' = suppressed + 1
        /\ sentInWindow' = sentInWindow /\ delivered' = delivered
    BY <1>2 DEF MatchInWindow
  <2>2. DeliveryTypeOK' /\ WindowShape' /\ EveryMatchIsAccountedFor'
    <3>1. DeliveryTypeOK'
      BY <1>1, <2>1, DeliveryDates DEF DeliveryTypeOK
    <3>2. WindowShape'
      BY <1>1, <2>1 DEF IInv, DeliveryTypeOK, WindowShape
    <3>3. EveryMatchIsAccountedFor'
      BY <1>1, <2>1 DEF IInv, DeliveryTypeOK, EveryMatchIsAccountedFor
    <3> QED
      BY <3>1, <3>2, <3>3
  <2>3. Deliveries'
    BY <1>1, <2>1 DEF IInv, Deliveries, WithinWindow, WindowsApart,
       WindowsLimited, WindowsOpened, CurrentWindow, Indices
  <2> QED
    BY <2>2, <2>3 DEF IInv
<1>3. CASE ~AtLimit
  <2>1. /\ sentInWindow' = sentInWindow + 1 /\ suppressed' = suppressed
        /\ Pass(windowStart)
    BY <1>3 DEF MatchInWindow
  <2>2. sentInWindow \in Nat /\ sentInWindow < MaxPerWindow
    BY <1>1, <1>3 DEF DeliveryTypeOK, AtLimit
  <2>3. /\ Len(delivered) \in Nat /\ Len(delivered') = Len(delivered) + 1
        /\ delivered' \in Seq([at : Nat, window : Nat])
        /\ Indices' = 1 .. Len(delivered) + 1
        /\ \A i \in Indices : delivered'[i] = delivered[i]
        /\ delivered'[Len(delivered) + 1].window = windowStart
    BY <1>1, <2>1, DeliveredAppend
  <2>4. DeliveryTypeOK'
    BY <1>1, <2>1, <2>2, <2>3 DEF DeliveryTypeOK
  <2>5. WindowShape' /\ EveryMatchIsAccountedFor'
    BY <1>1, <2>1, <2>2, <2>3 DEF IInv, DeliveryTypeOK, WindowShape,
       EveryMatchIsAccountedFor
  <2>6. (WithinWindow /\ WindowsApart /\ WindowsLimited /\ WindowsOpened)'
    BY <1>1, <2>1, <2>2, DeliveringKeepsWindows
  <2>7. CurrentWindow'
    <3>1. /\ sentInWindow <= Len(delivered)
          /\ \A i \in Indices :
                IF i > Len(delivered) - sentInWindow
                THEN delivered[i].window = windowStart
                ELSE delivered[i].window + Window <= windowStart
      BY <1>1 DEF IInv, Deliveries, CurrentWindow
    <3>2. \A i \in Indices' : i \in Indices \/ i = Len(delivered) + 1
      BY <2>3 DEF Indices
    <3>3. /\ Len(delivered') - sentInWindow' = Len(delivered) - sentInWindow
          /\ sentInWindow' <= Len(delivered')
          /\ Len(delivered) + 1 > Len(delivered) - sentInWindow
      BY <2>1, <2>2, <2>3, <3>1
    <3>4. \A i \in Indices :
            IF i > Len(delivered') - sentInWindow'
            THEN delivered'[i].window = windowStart
            ELSE delivered'[i].window + Window <= windowStart
      BY <2>3, <3>1, <3>3
    <3>5. ASSUME NEW i \in Indices'
          PROVE  IF i > Len(delivered') - sentInWindow'
                 THEN delivered'[i].window = windowStart
                 ELSE delivered'[i].window + Window <= windowStart
      <4>1. CASE i \in Indices
        BY <3>4, <4>1
      <4>2. CASE i = Len(delivered) + 1
        BY <2>3, <3>3, <4>2
      <4> QED
        BY <3>2, <4>1, <4>2
    <3> QED
      BY <1>1, <3>3, <3>5 DEF CurrentWindow
  <2> QED
    BY <2>4, <2>5, <2>6, <2>7 DEF IInv, Deliveries
<1> QED
  BY <1>2, <1>3

(* The timer closes a window whose length has passed. *)
LEMMA FlushInv == IInv /\ flushSuppressedSummary => IInv'
<1> SUFFICES ASSUME IInv, flushSuppressedSummary PROVE IInv'
  OBVIOUS
<1> USE Parameters DEF Never
<1>1. /\ DeliveryTypeOK /\ windowStart \in Nat /\ windowStart + Window <= now
      /\ resetWindow /\ told' = told + suppressed
      /\ UNCHANGED <<disposed, now, arrived, delivered, dropped>>
  BY DEF IInv, DeliveryTypeOK, WindowShape, flushSuppressedSummary
<1>2. DeliveryTypeOK' /\ WindowShape' /\ EveryMatchIsAccountedFor'
  <2>1. /\ windowStart' = Never /\ summaryTimer' = Never
        /\ sentInWindow' = 0 /\ suppressed' = 0
    BY <1>1 DEF resetWindow
  <2>2. DeliveryTypeOK'
    BY <1>1, <2>1, DeliveryDates DEF DeliveryTypeOK
  <2>3. WindowShape'
    BY <1>1, <2>1 DEF IInv, WindowShape
  <2>4. EveryMatchIsAccountedFor'
    BY <1>1, <2>1 DEF IInv, DeliveryTypeOK, EveryMatchIsAccountedFor
  <2> QED
    BY <2>2, <2>3, <2>4
<1>3. (WithinWindow /\ WindowsApart /\ WindowsLimited /\ WindowsOpened)'
  BY <1>1 DEF IInv, Deliveries, WithinWindow, WindowsApart, WindowsLimited,
     WindowsOpened, Indices
<1>4. CurrentWindow'
  <2>1. sentInWindow' = 0 /\ windowStart' = Never /\ delivered' = delivered
    BY <1>1 DEF resetWindow
  <2>2. ~disposed => \A i \in Indices : delivered[i].window + Window <= now
    BY <1>1, PastWindows
  <2> QED
    BY <1>1, <2>1, <2>2, DeliveryDates DEF CurrentWindow, Indices
<1> QED
  BY <1>2, <1>3, <1>4 DEF IInv, Deliveries

(* The end of the session keeps the count of what was never told. *)
LEMMA DisposeInv == IInv /\ Dispose => IInv'
<1> SUFFICES ASSUME IInv, Dispose PROVE IInv'
  OBVIOUS
<1> USE Parameters DEF Never
<1>1. DeliveryTypeOK' /\ WindowShape' /\ EveryMatchIsAccountedFor'
  BY DeliveryDates DEF IInv, DeliveryTypeOK, WindowShape,
     EveryMatchIsAccountedFor, Dispose, resetWindow
<1>2. Deliveries'
  BY DEF IInv, Deliveries, WithinWindow, WindowsApart, WindowsLimited,
     WindowsOpened, CurrentWindow, Indices, Dispose
<1> QED
  BY <1>1, <1>2 DEF IInv

(* Time passes. *)
LEMMA TockInv == IInv /\ Tock => IInv'
<1> SUFFICES ASSUME IInv, Tock PROVE IInv'
  OBVIOUS
<1> USE Parameters DEF Never
<1>1. /\ DeliveryTypeOK /\ now \in Nat /\ now' = now + 1
      /\ UNCHANGED <<limiter, history, disposed>>
  BY DEF IInv, DeliveryTypeOK, Tock
<1>2. DeliveryTypeOK' /\ WindowShape' /\ EveryMatchIsAccountedFor'
  BY <1>1 DEF IInv, DeliveryTypeOK, WindowShape, EveryMatchIsAccountedFor,
     limiter, history
<1>3. Indices' = Indices /\ delivered' = delivered
  BY <1>1 DEF Indices, history
<1>4. \A i \in Indices : delivered[i].at \in Nat /\ delivered[i].window \in Nat
  BY <1>1, DeliveryDates
<1>5. WithinWindow'
  BY <1>1, <1>3, <1>4 DEF IInv, Deliveries, WithinWindow
<1>6. (WindowsApart /\ WindowsLimited /\ WindowsOpened)'
  BY <1>3 DEF IInv, Deliveries, WindowsApart, WindowsLimited, WindowsOpened
<1>7. CurrentWindow'
  BY <1>1, <1>3, <1>4 DEF IInv, Deliveries, CurrentWindow, limiter
<1> QED
  BY <1>2, <1>5, <1>6, <1>7 DEF IInv, Deliveries

(* Every step keeps it. *)
LEMMA NextInv == IInv /\ [Next]_vars => IInv'
<1> SUFFICES ASSUME IInv, [Next]_vars PROVE IInv'
  OBVIOUS
<1>1. CASE UNCHANGED vars
  BY <1>1 DEF IInv, DeliveryTypeOK, WindowShape, EveryMatchIsAccountedFor,
     Deliveries, WithinWindow, WindowsApart, WindowsLimited, WindowsOpened,
     CurrentWindow, Indices, vars, limiter, history
<1> QED
  BY <1>1, MatchOpensWindowInv, MatchInWindowInv, FlushInv, DisposeInv, TockInv
     DEF Next

-----------------------------------------------------------------------------
(* The invariants the run checks, for every value of the constants *)

(* The strengthened invariant holds of every reachable state. *)
THEOREM DeliveryInvariance == Spec => []IInv
<1>1. Init => IInv
  BY InitInv
<1>2. IInv /\ [Next]_vars => IInv'
  BY NextInv
<1> QED
  BY <1>1, <1>2, PTL DEF Spec

(* Every variable keeps its type; no window exceeds its limit. *)
THEOREM DeliveryTypeCorrect == Spec => []DeliveryTypeOK
<1>1. IInv => DeliveryTypeOK
  BY DEF IInv
<1> QED
  BY <1>1, DeliveryInvariance, PTL

(* No log match is lost without a word. *)
THEOREM MatchesAccountedFor == Spec => []EveryMatchIsAccountedFor
<1>1. IInv => EveryMatchIsAccountedFor
  BY DEF IInv
<1> QED
  BY <1>1, DeliveryInvariance, PTL

(* Twice the limit of deliveries in a row always spans a window's length, also
   across the border of two windows. *)
THEOREM BurstsBounded == Spec => []BurstsAreBounded
<1>1. IInv => BurstsAreBounded
  BY WindowsBoundBursts
<1> QED
  BY <1>1, DeliveryInvariance, PTL

(* What is suppressed has a timer that will tell it. *)
THEOREM SuppressedTimed == Spec => []SuppressedHasTimer
<1>1. IInv => SuppressedHasTimer
  BY DEF IInv, WindowShape, SuppressedHasTimer
<1> QED
  BY <1>1, DeliveryInvariance, PTL
=================================================================================
