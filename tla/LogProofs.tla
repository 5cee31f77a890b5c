------------------------------- MODULE LogProofs -------------------------------
(***************************************************************************)
(* The log of one process on its way to the views, for every number of     *)
(* lines, of views and of bytes: what the manager makes of the chunks it   *)
(* is given is what OutputPromise says, whatever the cuts between chunks   *)
(* (CutsAreInvisible), and a view that is subscribed gets what             *)
(* OutputPromise promises, in turn. Last, the files that keep the log, and *)
(* how they are read back (LogReadsBack).                                  *)
(***************************************************************************)
EXTENDS ProcessOutput, ProcessLogStore, LogTail, LogSubscriptions, PlacesProofs

-----------------------------------------------------------------------------
(* Numbers and sequences *)

LEMMA Larger ==
    ASSUME NEW a \in Int, NEW b \in Int
    PROVE  Max({a, b}) = IF a >= b THEN a ELSE b
BY DEF Max

LEMMA Smaller ==
    ASSUME NEW a \in Int, NEW b \in Int
    PROVE  Min({a, b}) = IF a <= b THEN a ELSE b
BY DEF Min

LEMMA LinesTyped ==
    ASSUME NEW from \in Nat, NEW to \in Nat, from <= to
    PROVE  /\ Lines(from, to) \in Seq(Nat) /\ Len(Lines(from, to)) = to - from
           /\ DOMAIN Lines(from, to) = 1 .. to - from
           /\ \A i \in 1 .. to - from : Lines(from, to)[i] = from + i
BY DEF Lines

LEMMA Concatenated ==
    ASSUME NEW S, NEW s \in Seq(S), NEW c \in Seq(S)
    PROVE  /\ s \o c \in Seq(S) /\ Len(s \o c) = Len(s) + Len(c)
           /\ Len(s) \in Nat /\ Len(c) \in Nat
           /\ DOMAIN s = 1 .. Len(s) /\ DOMAIN (s \o c) = 1 .. Len(s) + Len(c)
           /\ \A i \in 1 .. Len(s) : (s \o c)[i] = s[i]
           /\ \A i \in 1 .. Len(c) : (s \o c)[Len(s) + i] = c[i]
<1>1. /\ s \o c \in Seq(S) /\ Len(s \o c) = Len(s) + Len(c)
      /\ \A i \in 1 .. Len(s) + Len(c) :
            (s \o c)[i] = IF i <= Len(s) THEN s[i] ELSE c[i - Len(s)]
  BY ConcatProperties
<1>2. /\ Len(s) \in Nat /\ Len(c) \in Nat
      /\ DOMAIN s = 1 .. Len(s) /\ DOMAIN (s \o c) = 1 .. Len(s) + Len(c)
  BY <1>1, LenProperties
<1> DEFINE t == s \o c
<1>3. \A i \in 1 .. Len(s) + Len(c) : t[i] = IF i <= Len(s) THEN s[i] ELSE c[i - Len(s)]
  BY <1>1
<1> HIDE DEF t
<1>4. ASSUME NEW i \in 1 .. Len(c)
      PROVE  t[Len(s) + i] = c[i]
  <2>1. /\ Len(s) + i \in 1 .. Len(s) + Len(c) /\ ~(Len(s) + i <= Len(s))
        /\ (Len(s) + i) - Len(s) = i
    BY <1>2
  <2> QED
    BY <1>3, <2>1
<1>5. \A i \in 1 .. Len(s) : t[i] = s[i]
  BY <1>2, <1>3
<1> QED
  BY <1>1, <1>2, <1>4, <1>5 DEF t

(* What is appended to a sequence is appended to what follows its start. *)
LEMMA Follows ==
    ASSUME NEW S, NEW s \in Seq(S), NEW c \in Seq(S), NEW k \in 0 .. Len(s)
    PROVE  /\ SubSeq(s, k + 1, Len(s)) \in Seq(S)
           /\ SubSeq(s \o c, k + 1, Len(s \o c)) = SubSeq(s, k + 1, Len(s)) \o c
<1>1. /\ s \o c \in Seq(S) /\ Len(s \o c) = Len(s) + Len(c)
      /\ \A i \in 1 .. Len(s) + Len(c) :
            (s \o c)[i] = IF i <= Len(s) THEN s[i] ELSE c[i - Len(s)]
  BY ConcatProperties
<1> DEFINE t == SubSeq(s, k + 1, Len(s))
<1> DEFINE u == SubSeq(s \o c, k + 1, Len(s \o c))
<1>2. /\ t \in Seq(S) /\ Len(t) = Len(s) - k
      /\ \A i \in 1 .. Len(s) - k : t[i] = s[k + i]
  <2>1. \A i \in k + 1 .. Len(s) : s[i] \in S
    BY ElementOfSeq
  <2> QED
    BY <2>1, SubSeqProperties
<1>3. /\ u \in Seq(S) /\ Len(u) = Len(s) + Len(c) - k
      /\ \A i \in 1 .. Len(s) + Len(c) - k : u[i] = (s \o c)[k + i]
  <2>1. \A i \in k + 1 .. Len(s \o c) : (s \o c)[i] \in S
    BY <1>1, ElementOfSeq
  <2> QED
    BY <1>1, <2>1, SubSeqProperties
<1> HIDE DEF t, u
<1>4. /\ t \o c \in Seq(S) /\ Len(t \o c) = Len(t) + Len(c)
      /\ \A i \in 1 .. Len(t) + Len(c) :
            (t \o c)[i] = IF i <= Len(t) THEN t[i] ELSE c[i - Len(t)]
  BY <1>2, ConcatProperties
<1>5. Len(u) = Len(t \o c) /\ \A i \in 1 .. Len(u) : u[i] = (t \o c)[i]
  <2>1. Len(s) \in Nat /\ Len(c) \in Nat
    BY LenProperties
  <2>2. Len(u) = Len(t \o c)
    BY <1>2, <1>3, <1>4, <2>1
  <2>3. ASSUME NEW i \in 1 .. Len(u)
        PROVE  u[i] = (t \o c)[i]
    <3>1. /\ k + i \in 1 .. Len(s) + Len(c) /\ i \in 1 .. Len(t) + Len(c)
          /\ k + i <= Len(s) <=> i <= Len(t)
          /\ i - Len(t) = (k + i) - Len(s)
      BY <1>2, <1>3, <2>1
    <3>2. u[i] = IF k + i <= Len(s) THEN s[k + i] ELSE c[(k + i) - Len(s)]
      BY <1>1, <1>3, <3>1
    <3>3. (t \o c)[i] = IF i <= Len(t) THEN t[i] ELSE c[i - Len(t)]
      BY <1>4, <3>1
    <3>4. i <= Len(t) => t[i] = s[k + i]
      BY <1>2, <2>1
    <3> QED
      BY <3>1, <3>2, <3>3, <3>4
  <2> QED
    BY <2>2, <2>3
<1>6. u = t \o c
  <2>1. u \in Seq(S) /\ t \o c \in Seq(S)
    BY <1>3, <1>4
  <2> QED
    BY <2>1, <1>5, SeqEqual
<1>7. t \in Seq(S)
  BY <1>2
<1> QED
  BY <1>6, <1>7 DEF t, u

(* A nonempty set of naturals has a least member, and when it is bounded a
   greatest. *)
LEMMA Least ==
    ASSUME NEW T \in SUBSET Nat, T # {}
    PROVE  Min(T) \in T /\ \A y \in T : Min(T) <= y
<1>1. PICK x \in T : \A y \in T : ~ (<<y, x>> \in OpToRel(<, Nat))
  BY NatLessThanWellFounded, WFMin
<1>2. \A y \in T : ~ (y < x)
  BY <1>1, Zenon DEF OpToRel
<1>3. \A y \in T : x <= y
  <2> TAKE y \in T
  <2>1. x \in Nat /\ y \in Nat /\ ~ (y < x)
    BY <1>2
  <2> QED
    BY <2>1
<1> QED
  BY <1>3 DEF Min

LEMMA Greatest ==
    ASSUME NEW n \in Nat, NEW T \in SUBSET (0 .. n), T # {}
    PROVE  Max(T) \in T /\ \A y \in T : y <= Max(T)
<1> DEFINE U == {n - y : y \in T}
<1>1. U \in SUBSET Nat /\ U # {}
  OBVIOUS
<1> HIDE DEF U
<1>2. PICK u \in U : \A w \in U : u <= w
  BY <1>1, Least
<1>3. PICK x \in T : u = n - x
  BY DEF U
<1>4. ASSUME NEW y \in T PROVE y <= x
  <2>1. n - y \in U
    BY DEF U
  <2>2. n - x <= n - y
    BY <1>2, <1>3, <2>1
  <2> QED
    BY <2>2
<1>5. \E m \in T : \A y \in T : m >= y
  <2>1. \A y \in T : x >= y
    BY <1>4
  <2> QED
    BY <2>1
<1>6. Max(T) \in T /\ \A y \in T : Max(T) >= y
  BY <1>5 DEF Max
<1> QED
  BY <1>6

-----------------------------------------------------------------------------
(* What a subscriber is told *)

Events == [dropped : Nat, lines : Seq(Nat)]

LEMMA Told ==
    ASSUME NEW from \in Nat, NEW upto \in Nat, from < upto, NEW drop \in 0 .. upto - from
    PROVE  LET e == Event(from, upto, drop)
           IN  /\ e \in Events /\ e.dropped = drop /\ Len(e.lines) = upto - from - drop
               /\ \A i \in 1 .. upto - from - drop : e.lines[i] = from + drop + i
BY DEF Event, Events

LEMMA ChunkTyped ==
    ASSUME NEW e \in Events
    PROVE  /\ ChunkOf(e) \in Seq(Nat)
           /\ e.dropped = 0 => ChunkOf(e) = e.lines
           /\ e.dropped # 0 => /\ Len(ChunkOf(e)) = 1 + Len(e.lines)
                              /\ ChunkOf(e)[1] = Gap
                              /\ \A i \in 1 .. Len(e.lines) : ChunkOf(e)[1 + i] = e.lines[i]
<1>1. e.dropped \in Nat /\ e.lines \in Seq(Nat) /\ Len(e.lines) \in Nat
  BY DEF Events
<1>2. CASE e.dropped # 0
  <2>1. <<Gap>> \in Seq(Nat) /\ Len(<<Gap>>) = 1 /\ <<Gap>>[1] = Gap
    BY DEF Gap
  <2>2. ChunkOf(e) = <<Gap>> \o e.lines
    <3>1. e.dropped > 0
      BY <1>1, <1>2
    <3> QED
      BY <3>1 DEF ChunkOf
  <2>3. /\ <<Gap>> \o e.lines \in Seq(Nat) /\ Len(<<Gap>> \o e.lines) = 1 + Len(e.lines)
        /\ (<<Gap>> \o e.lines)[1] = Gap
        /\ \A i \in 1 .. Len(e.lines) : (<<Gap>> \o e.lines)[1 + i] = e.lines[i]
    BY <1>1, <2>1, Concatenated
  <2> QED
    BY <1>2, <2>2, <2>3
<1>3. CASE e.dropped = 0
  <2>1. ChunkOf(e) = <<>> \o e.lines
    BY <1>3 DEF ChunkOf
  <2> QED
    BY <1>1, <1>3, <2>1, ConcatEmptySeq
<1> QED
  BY <1>2, <1>3

(* Lines told of in turn, the number of those not told of with them. *)
InStep(lines, since, upto) ==
    /\ InTurn(lines, since, upto)
    /\ since <= upto /\ upto - since >= Len(lines)
    /\ \A i \in DOMAIN lines : lines[i] # Gap => upto - lines[i] >= Len(lines) - i

LEMMA StartsInStep ==
    ASSUME NEW n \in Nat
    PROVE  InStep(<<>>, n, n)
BY DEF InStep, InTurn, Lines, Range

(* The lines of an event: a gap if n is 1, and the last k up to upto. *)
Chunked(c, n, k, upto) ==
    /\ Len(c) = n + k
    /\ n = 1 => c[1] = Gap
    /\ \A i \in 1 .. k : c[n + i] = upto - k + i

LEMMA GoesOn ==
    ASSUME NEW lines \in Seq(Nat), NEW since \in Nat, NEW from \in Nat, NEW upto \in Nat,
           InStep(lines, since, from), from < upto,
           NEW n \in {0, 1}, NEW k \in Nat, n + k <= upto - from,
           n = 0 => k = upto - from,
           NEW c \in Seq(Nat), Chunked(c, n, k, upto)
    PROVE  InStep(lines \o c, since, upto)
<1>0. /\ lines \o c \in Seq(Nat) /\ Len(lines \o c) = Len(lines) + Len(c)
      /\ Len(lines) \in Nat
      /\ DOMAIN lines = 1 .. Len(lines) /\ DOMAIN (lines \o c) = 1 .. Len(lines) + Len(c)
      /\ \A i \in 1 .. Len(lines) : (lines \o c)[i] = lines[i]
      /\ \A i \in 1 .. Len(c) : (lines \o c)[Len(lines) + i] = c[i]
  BY Concatenated
<1> DEFINE s == lines \o c
           m == Len(lines)
           end == m + (n + k)
           d == upto - end
<1>1. /\ s \in Seq(Nat) /\ Len(s) = end
      /\ DOMAIN lines = 1 .. m /\ DOMAIN s = 1 .. end
      /\ \A i \in 1 .. m : s[i] = lines[i]
      /\ \A i \in 1 .. n + k : s[m + i] = c[i]
  BY <1>0 DEF Chunked
<1>m. m \in Nat /\ n \in Nat
  BY <1>0
<1> HIDE DEF s, m
<1>2. /\ InTurn(lines, since, from) /\ since <= from /\ from - since >= m
      /\ \A i \in 1 .. m : lines[i] # Gap => from - lines[i] >= m - i
      /\ \A i \in 1 .. m : lines[i] \in Nat
      /\ \A i \in 1 .. end : s[i] \in Nat
  BY <1>1, ElementOfSeq DEF InStep, m
<1>3. /\ end \in Nat /\ d \in Nat /\ d >= since /\ d >= from - m
      /\ n = 0 => d = from - m
  BY <1>m, <1>2
<1>d. end \in Nat /\ d \in Nat /\ d >= from - m
  BY <1>3
<1>4. n = 1 => s[m + 1] = Gap
  BY <1>1, <1>m DEF Chunked
<1>5. ASSUME NEW i \in 1 .. end, i > m + n
      PROVE  s[i] = d + i
  <2>1. /\ i - m - n \in 1 .. k /\ i - m \in 1 .. n + k
        /\ m + (i - m) = i /\ n + (i - m - n) = i - m
    BY <1>m, <1>5
  <2>2. s[i] = c[i - m]
    BY <1>1, <2>1
  <2>3. c[i - m] = upto - k + (i - m - n)
    BY <2>1 DEF Chunked
  <2> QED
    BY <1>m, <2>2, <2>3
(* Where a line comes from. *)
<1>6. ASSUME NEW i \in 1 .. end
      PROVE  \/ i \in 1 .. m /\ s[i] = lines[i]
             \/ i = m + 1 /\ n = 1 /\ s[i] = Gap
             \/ i > m + n /\ s[i] = d + i
  <2>1. CASE i <= m
    BY <1>1, <1>m, <2>1
  <2>2. CASE i = m + 1 /\ n = 1
    BY <1>4, <2>2
  <2>3. CASE i > m + n
    BY <1>5, <2>3
  <2> QED
    BY <1>m, <2>1, <2>2, <2>3
<1> HIDE DEF end, d
<1>7. ASSUME Gap \notin Range(s) PROVE s = Lines(since, upto)
  <2>1. \A i \in 1 .. end : s[i] # Gap
    BY <1>1, <1>7 DEF Range
  <2>2. n = 0
    <3>1. n = 1 => m + 1 \in 1 .. end
      BY <1>m DEF end
    <3> QED
      BY <1>4, <2>1, <3>1
  <2>3. Gap \notin Range(lines)
    <3>1. \A i \in 1 .. m : i \in 1 .. end
      BY <1>m DEF end
    <3> QED
      BY <1>1, <2>1, <3>1 DEF Range
  <2>4. lines = Lines(since, from)
    BY <1>2, <2>3 DEF InTurn
  <2>5. m = from - since /\ \A i \in 1 .. m : lines[i] = since + i
    <3>1. /\ Len(Lines(since, from)) = from - since
          /\ \A i \in 1 .. from - since : Lines(since, from)[i] = since + i
      BY <1>2, LinesTyped
    <3> QED
      BY <2>4, <3>1 DEF m
  <2>6. d = since /\ end = upto - since
    BY <1>m, <1>2, <1>3, <2>2, <2>5 DEF d
  <2>7. \A i \in 1 .. end : s[i] = since + i
    BY <1>m, <1>6, <2>2, <2>5, <2>6
  <2>8. /\ Lines(since, upto) \in Seq(Nat) /\ Len(Lines(since, upto)) = end
        /\ \A i \in 1 .. end : Lines(since, upto)[i] = since + i
    <3>1. since <= upto
      BY <1>2
    <3> QED
      BY <2>6, <3>1, LinesTyped
  <2>9. /\ Len(s) = Len(Lines(since, upto))
        /\ \A i \in 1 .. Len(s) : s[i] = Lines(since, upto)[i]
    BY <1>1, <2>7, <2>8
  <2> QED
    BY <1>1, <2>8, <2>9, SeqEqual
<1>8. ASSUME NEW i \in 1 .. end, s[i] # Gap
      PROVE  /\ s[i] >= since + i
             /\ i = 1 => s[i] = since + 1
             /\ i > 1 /\ s[i - 1] # Gap => s[i] = s[i - 1] + 1
  <2>1. CASE i \in 1 .. m /\ s[i] = lines[i]
    <3>1. ASSUME i > 1 PROVE i - 1 \in 1 .. m /\ s[i - 1] = lines[i - 1]
      <4>1. i - 1 \in 1 .. m
        BY <1>m, <2>1, <3>1
      <4> QED
        BY <1>1, <4>1
    <3> QED
      BY <1>1, <1>2, <1>8, <2>1, <3>1 DEF InTurn
  <2>2. CASE i > m + n /\ s[i] = d + i
    <3>1. s[i] >= since + i
      BY <1>3, <2>2
    <3>2. ASSUME i = 1 PROVE s[i] = since + 1
      <4>1. m = 0 /\ n = 0
        BY <1>m, <2>2, <3>2
      <4>2. Gap \notin Range(lines)
        BY <1>1, <4>1 DEF Range
      <4>3. lines = Lines(since, from)
        BY <1>2, <4>2 DEF InTurn
      <4>4. Len(Lines(since, from)) = from - since
        BY <1>2, LinesTyped
      <4> QED
        BY <1>2, <1>3, <2>2, <3>2, <4>1, <4>3, <4>4 DEF m
    <3>3. ASSUME i > 1, s[i - 1] # Gap PROVE s[i] = s[i - 1] + 1
      <4>1. i - 1 \in 1 .. end
        BY <1>3, <3>3
      <4>2. CASE i - 1 > m + n
        BY <1>3, <1>5, <2>2, <4>1, <4>2
      <4>3. CASE n = 0 /\ i - 1 = m
        <5>1. m \in 1 .. m /\ lines # <<>> /\ s[m] = lines[m] /\ lines[m] # Gap
          BY <1>1, <1>m, <3>3, <4>3 DEF m
        <5>2. lines[m] = from
          BY <1>2, <5>1 DEF InTurn, m
        <5>3. s[i - 1] = from
          BY <4>3, <5>1, <5>2
        <5>4. s[i] = (from - m) + (m + 1)
          BY <1>m, <1>3, <2>2, <4>3
        <5> QED
          BY <1>m, <5>3, <5>4
      <4>4. CASE n = 1 /\ i - 1 = m + 1
        BY <1>4, <3>3, <4>4
      <4> QED
        BY <1>m, <2>2, <4>2, <4>3, <4>4
    <3> QED
      BY <3>1, <3>2, <3>3
  <2> QED
    BY <1>6, <1>8, <2>1, <2>2
<1>9. ASSUME NEW i \in 1 .. end, NEW j \in 1 .. end, i < j, s[i] # Gap, s[j] # Gap
      PROVE  s[j] - s[i] >= j - i
  <2>1. CASE j \in 1 .. m /\ s[j] = lines[j]
    <3>1. i \in 1 .. m /\ s[i] = lines[i]
      BY <1>1, <1>m, <1>9, <2>1
    <3> QED
      BY <1>1, <1>2, <1>9, <2>1, <3>1 DEF InTurn
  <2>2. CASE j > m + n /\ s[j] = d + j
    <3>1. CASE i \in 1 .. m /\ s[i] = lines[i]
      <4>1. from - s[i] >= m - i /\ s[i] \in Nat
        BY <1>2, <1>9, <3>1
      <4> QED
        BY <1>m, <1>d, <2>2, <4>1, SMTT(30)
    <3>2. CASE i > m + n /\ s[i] = d + i
      BY <1>3, <2>2, <3>2
    <3> QED
      BY <1>6, <1>9, <3>1, <3>2
  <2> QED
    BY <1>6, <1>9, <2>1, <2>2
<1>10. s # <<>> => s[Len(s)] \in {upto, Gap}
  <2>1. CASE k > 0
    <3>1. end \in 1 .. end /\ end > m + n /\ d + end = upto
      BY <1>m, <2>1 DEF end, d
    <3> QED
      BY <1>1, <1>5, <3>1
  <2>2. CASE k = 0
    <3>1. n = 1 /\ end = m + 1
      BY <1>m, <2>2 DEF end
    <3> QED
      BY <1>1, <1>4, <3>1
  <2> QED
    BY <2>1, <2>2
<1>11. since <= upto /\ upto - since >= end
  BY <1>m, <1>2, <1>3 DEF d
<1>12. ASSUME NEW i \in 1 .. end, s[i] # Gap
       PROVE  upto - s[i] >= end - i
  <2>1. d = upto - end
    BY DEF d
  <2>2. CASE i \in 1 .. m /\ s[i] = lines[i]
    <3>1. from - s[i] >= m - i /\ s[i] \in Nat
      BY <1>2, <1>12, <2>2
    <3> QED
      BY <1>m, <1>d, <2>1, <3>1
  <2>3. CASE i > m + n /\ s[i] = d + i
    BY <1>3, <2>1, <2>3
  <2> QED
    BY <1>6, <1>12, <2>2, <2>3
<1>13. InTurn(s, since, upto)
  BY <1>1, <1>7, <1>8, <1>9, <1>10 DEF InTurn
<1> QED
  BY <1>1, <1>11, <1>12, <1>13 DEF InStep, s

(* What is in step stays so with the next event. *)
LEMMA StaysInStep ==
    ASSUME NEW lines \in Seq(Nat), NEW since \in Nat, NEW from \in Nat, NEW upto \in Nat,
           from < upto, NEW drop \in 0 .. upto - from, InStep(lines, since, from)
    PROVE  InStep(lines \o ChunkOf(Event(from, upto, drop)), since, upto)
<1> DEFINE e == Event(from, upto, drop)
           k == upto - from - drop
<1>1. /\ e \in Events /\ e.dropped = drop /\ Len(e.lines) = k
      /\ \A i \in 1 .. k : e.lines[i] = from + drop + i
  BY Told
<1>2. k \in Nat /\ drop \in Nat /\ drop + k = upto - from
  OBVIOUS
<1> HIDE DEF e, k
<1>3. /\ ChunkOf(e) \in Seq(Nat)
      /\ drop = 0 => ChunkOf(e) = e.lines
      /\ drop # 0 => /\ Len(ChunkOf(e)) = 1 + k /\ ChunkOf(e)[1] = Gap
                     /\ \A i \in 1 .. k : ChunkOf(e)[1 + i] = e.lines[i]
  BY <1>1, ChunkTyped
<1>4. PICK n \in {0, 1} : n = 0 <=> drop = 0
  OBVIOUS
<1>5. /\ n + k <= upto - from
      /\ n = 0 => k = upto - from
  BY <1>2, <1>4
<1>6. Chunked(ChunkOf(e), n, k, upto)
  <2>1. CASE drop = 0
    <3>1. n = 0 /\ ChunkOf(e) = e.lines /\ Len(e.lines) = k
      BY <1>1, <1>3, <1>4, <2>1
    <3>2. ASSUME NEW i \in 1 .. k
          PROVE  e.lines[0 + i] = upto - k + i
      <4>1. e.lines[i] = from + drop + i /\ 0 + i = i
        BY <1>1
      <4> QED
        BY <1>2, <2>1, <4>1
    <3> QED
      BY <1>2, <3>1, <3>2 DEF Chunked
  <2>2. CASE drop # 0
    <3>1. n = 1 /\ Len(ChunkOf(e)) = 1 + k /\ ChunkOf(e)[1] = Gap
      BY <1>3, <1>4, <2>2
    <3>2. ASSUME NEW i \in 1 .. k
          PROVE  ChunkOf(e)[1 + i] = upto - k + i
      <4>1. ChunkOf(e)[1 + i] = from + drop + i
        BY <1>1, <1>3, <2>2
      <4> QED
        BY <1>2, <4>1
    <3> QED
      BY <3>1, <3>2 DEF Chunked
  <2> QED
    BY <2>1, <2>2
<1>7. InStep(lines \o ChunkOf(e), since, upto)
  BY <1>2, <1>3, <1>5, <1>6, GoesOn, ZenonT(40)
<1> QED
  BY <1>7 DEF e

-----------------------------------------------------------------------------
(* Subscribers *)

Copied(v) == Min({openedAt[v].logged, TailLines})

(* A subscriber still has its copy, and what follows the copy is in step with
   what was announced. *)
FollowsUp(v) ==
    /\ Copied(v) <= Len(shown[v])
    /\ InStep(Streamed(v), openedAt[v].announced, announced)

SubscriptionTyped ==
    /\ logged \in Nat /\ announced \in Nat /\ announced <= logged
    /\ feed \in Seq(Events)
    /\ subscribers \subseteq connected /\ connected \subseteq Views
    /\ openedAt \in [Views -> [logged : Nat, announced : Nat]]
    /\ shown \in [Views -> Seq(Nat)]

SubscriptionInv == SubscriptionTyped /\ \A v \in subscribers : FollowsUp(v)

LEMMA CopiedTyped ==
    ASSUME SubscriptionTyped, NEW v \in Views
    PROVE  Copied(v) \in Nat
<1>1. openedAt[v].logged \in Nat /\ TailLines \in Nat
  BY SubscriptionAssumption DEF SubscriptionTyped
<1> QED
  BY <1>1, Smaller DEF Copied

(* An event is new, and the views get the lines of that one. *)
LEMMA OneEvent ==
    ASSUME SubscriptionTyped, logged' \in Nat, Tells
    PROVE  /\ announced' \in Nat /\ announced < announced' /\ announced' = logged'
           /\ feed' \in Seq(Events) /\ feed' # feed
           /\ \E drop \in 0 .. announced' - announced :
                 Last(feed') = Event(announced, announced', drop)
<1>1. /\ announced' \in Nat /\ announced < announced' /\ announced' = logged'
      /\ announced \in Nat /\ feed \in Seq(Events)
  BY DEF SubscriptionTyped, Tells
<1>2. PICK drop \in 0 .. announced' - announced :
          feed' = Append(feed, Event(announced, announced', drop))
  BY <1>1 DEF Tells
<1> DEFINE e == Event(announced, announced', drop)
<1>3. e \in Events
  BY <1>1, Told
<1> HIDE DEF e
<1>4. /\ Append(feed, e) \in Seq(Events) /\ Len(Append(feed, e)) = Len(feed) + 1
      /\ Append(feed, e)[Len(feed) + 1] = e /\ Len(feed) \in Nat
  BY <1>1, <1>3, AppendProperties, LenProperties
<1>5. feed' \in Seq(Events) /\ feed' # feed /\ Last(feed') = e
  <2>1. feed' = Append(feed, e)
    BY <1>2 DEF e
  <2> QED
    BY <1>4, <2>1 DEF Last
<1> QED
  BY <1>1, <1>5 DEF e

LEMMA DeliverKeeps ==
    ASSUME SubscriptionInv, Deliver, Tells \/ Silent,
           logged' \in Nat, logged' >= logged,
           connected' = connected, openedAt' = openedAt, subscribers' \subseteq subscribers
    PROVE  SubscriptionInv'
<1>1. SubscriptionTyped /\ \A v \in subscribers : FollowsUp(v)
  BY DEF SubscriptionInv
<1>2. /\ announced' \in Nat /\ announced' <= logged' /\ feed' \in Seq(Events)
  <2>1. CASE Tells
    BY <1>1, <2>1, OneEvent
  <2>2. CASE Silent
    BY <1>1, <2>2 DEF Silent, SubscriptionTyped
  <2> QED
    BY <2>1, <2>2
<1>3. ASSUME NEW v \in Views
      PROVE  \/ shown'[v] = shown[v] /\ (v \in subscribers => announced' = announced)
             \/ /\ v \in subscribers
                /\ announced < announced'
                /\ \E drop \in 0 .. announced' - announced :
                      shown'[v] = shown[v] \o ChunkOf(Event(announced, announced', drop))
  <2>1. CASE Tells
    <3>1. PICK drop \in 0 .. announced' - announced :
              Last(feed') = Event(announced, announced', drop)
      BY <1>1, <2>1, OneEvent
    <3>2. feed' # feed /\ announced < announced'
      BY <1>1, <2>1, OneEvent
    <3> QED
      BY <1>1, <3>1, <3>2 DEF Deliver, SubscriptionTyped
  <2>2. CASE Silent
    BY <2>2 DEF Silent, Deliver
  <2> QED
    BY <2>1, <2>2
<1>4. ASSUME NEW v \in Views, NEW drop \in 0 .. announced' - announced, announced < announced'
      PROVE  ChunkOf(Event(announced, announced', drop)) \in Seq(Nat)
  <2>1. Event(announced, announced', drop) \in Events
    BY <1>1, <1>2, <1>4, Told DEF SubscriptionTyped
  <2> QED
    BY <2>1, ChunkTyped
<1>5. \A v \in Views : shown'[v] \in Seq(Nat)
  <2>1. \A v \in Views : shown[v] \in Seq(Nat)
    BY <1>1 DEF SubscriptionTyped
  <2> QED
    BY <1>3, <1>4, <2>1, ConcatProperties
<1>6. SubscriptionTyped'
  <2>1. shown' \in [Views -> Seq(Nat)]
    <3>1. shown' = [v \in Views |-> shown'[v]]
      BY DEF Deliver
    <3> QED
      BY <1>5, <3>1
  <2> QED
    BY <1>1, <1>2, <2>1 DEF SubscriptionTyped
<1>7. ASSUME NEW v \in subscribers'
      PROVE  FollowsUp(v)'
  <2>1. /\ v \in subscribers /\ v \in Views /\ FollowsUp(v)
        /\ Copied(v) \in Nat /\ Copied(v)' = Copied(v)
        /\ shown[v] \in Seq(Nat) /\ Len(shown[v]) \in Nat
        /\ openedAt[v].announced \in Nat /\ announced \in Nat
    BY <1>1, CopiedTyped, LenProperties DEF SubscriptionTyped, Copied
  <2>2. CASE shown'[v] = shown[v] /\ announced' = announced
    BY <2>1, <2>2 DEF FollowsUp, Streamed, Copied
  <2>3. CASE /\ announced < announced'
             /\ \E drop \in 0 .. announced' - announced :
                   shown'[v] = shown[v] \o ChunkOf(Event(announced, announced', drop))
    <3>1. PICK drop \in 0 .. announced' - announced :
              shown'[v] = shown[v] \o ChunkOf(Event(announced, announced', drop))
      BY <2>3
    <3> DEFINE c == ChunkOf(Event(announced, announced', drop))
    <3>2. c \in Seq(Nat)
      BY <1>4, <2>1, <2>3
    <3> HIDE DEF c
    <3>3. shown'[v] = shown[v] \o c
      BY <3>1 DEF c
    <3>4. Copied(v) \in 0 .. Len(shown[v])
      BY <2>1 DEF FollowsUp
    <3>5. Streamed(v) \in Seq(Nat) /\ Streamed(v)' = Streamed(v) \o c
      <4>1. /\ Streamed(v) = SubSeq(shown[v], Copied(v) + 1, Len(shown[v]))
            /\ Streamed(v)' = SubSeq(shown'[v], Copied(v) + 1, Len(shown'[v]))
        BY <2>1 DEF Streamed, Copied
      <4>2. /\ SubSeq(shown[v], Copied(v) + 1, Len(shown[v])) \in Seq(Nat)
            /\ SubSeq(shown[v] \o c, Copied(v) + 1, Len(shown[v] \o c)) =
                  SubSeq(shown[v], Copied(v) + 1, Len(shown[v])) \o c
        BY <2>1, <3>2, <3>4, Follows, ZenonT(40)
      <4> QED
        BY <3>3, <4>1, <4>2
    <3>6. InStep(Streamed(v) \o c, openedAt[v].announced, announced')
      BY <1>2, <2>1, <2>3, <3>5, StaysInStep DEF FollowsUp, c
    <3>7. Copied(v)' <= Len(shown'[v])
      BY <2>1, <3>2, <3>3, <3>4, Concatenated
    <3> QED
      BY <3>5, <3>6, <3>7 DEF FollowsUp
  <2> QED
    BY <1>3, <2>1, <2>2, <2>3
<1> QED
  BY <1>6, <1>7 DEF SubscriptionInv

LEMMA ConnectKeeps ==
    ASSUME SubscriptionInv, NEW v \in Views, Connect(v)
    PROVE  SubscriptionInv'
<1> USE DEF SubscriptionTyped
<1>1. SubscriptionTyped /\ \A w \in subscribers : FollowsUp(w)
  BY DEF SubscriptionInv
<1>2. /\ v \notin connected
      /\ subscribers' = subscribers \cup {v} /\ connected' = connected \cup {v}
      /\ shown' = [shown EXCEPT ![v] = Snapshot(v)]
      /\ openedAt' = [openedAt EXCEPT ![v] = [logged |-> logged, announced |-> announced]]
      /\ logged' = logged /\ announced' = announced /\ feed' = feed
  BY DEF Connect, outputVars
<1>3. /\ logged \in Nat /\ announced \in Nat /\ TailLines \in Nat
  BY <1>1, SubscriptionAssumption
<1>4. Snapshot(v) \in Seq(Nat) /\ Len(Snapshot(v)) = Min({logged, TailLines})
  <2>1. CASE logged <= TailLines
    <3>1. Max({0, logged - TailLines}) = 0 /\ Min({logged, TailLines}) = logged
      BY <1>3, <2>1, Larger, Smaller
    <3> QED
      BY <1>3, <3>1, LinesTyped DEF Snapshot
  <2>2. CASE logged > TailLines
    <3>1. /\ Max({0, logged - TailLines}) = logged - TailLines
          /\ Min({logged, TailLines}) = TailLines
      BY <1>3, <2>2, Larger, Smaller
    <3>2. logged - TailLines \in Nat /\ logged - TailLines <= logged
      BY <1>3, <2>2
    <3>3. Len(Lines(logged - TailLines, logged)) = logged - (logged - TailLines)
      BY <1>3, <3>2, LinesTyped
    <3>4. Lines(logged - TailLines, logged) \in Seq(Nat)
      BY <1>3, <3>2, LinesTyped
    <3> QED
      BY <1>3, <3>1, <3>3, <3>4 DEF Snapshot
  <2> QED
    BY <1>3, <2>1, <2>2
<1>5. SubscriptionTyped'
  <2>1. [logged |-> logged, announced |-> announced] \in [logged : Nat, announced : Nat]
    BY <1>3
  <2> QED
    BY <1>1, <1>2, <1>4, <2>1
<1>6. FollowsUp(v)'
  <2>1. shown'[v] = Snapshot(v) /\ openedAt'[v].logged = logged /\ openedAt'[v].announced = announced
    BY <1>1, <1>2
  <2>2. Copied(v)' = Len(shown'[v])
    BY <1>4, <2>1 DEF Copied
  <2>3. Streamed(v)' = <<>>
    <3>1. Len(shown'[v]) \in Nat
      BY <1>4, <2>1, LenProperties
    <3>2. Streamed(v)' = SubSeq(shown'[v], Len(shown'[v]) + 1, Len(shown'[v]))
      BY <2>2 DEF Streamed, Copied
    <3> QED
      BY <3>1, <3>2, SubSeqEmpty
  <2>4. InStep(<<>>, announced, announced)
    BY <1>3, StartsInStep
  <2>5. Copied(v)' \in Nat
    BY <1>4, <2>1, <2>2, LenProperties
  <2> QED
    BY <1>2, <2>1, <2>2, <2>3, <2>4, <2>5 DEF FollowsUp
<1>7. ASSUME NEW w \in subscribers
      PROVE  FollowsUp(w)'
  <2>1. FollowsUp(w) /\ shown'[w] = shown[w] /\ openedAt'[w] = openedAt[w]
    BY <1>1, <1>2
  <2> QED
    BY <1>2, <2>1 DEF FollowsUp, Streamed, Copied
<1> QED
  BY <1>2, <1>5, <1>6, <1>7 DEF SubscriptionInv

(* What is shown to a view that is not connected is nobody's concern. *)
LEMMA OthersKeep ==
    ASSUME SubscriptionInv, SubscriptionTyped',
           announced' = announced, openedAt' = openedAt, subscribers' \subseteq subscribers,
           \A v \in connected : shown'[v] = shown[v]
    PROVE  SubscriptionInv'
<1>1. ASSUME NEW v \in subscribers'
      PROVE  FollowsUp(v)'
  <2>1. FollowsUp(v) /\ shown'[v] = shown[v]
    BY DEF SubscriptionInv, SubscriptionTyped
  <2> QED
    BY <2>1 DEF FollowsUp, Streamed, Copied
<1> QED
  BY <1>1 DEF SubscriptionInv

LEMMA SubscriptionStep ==
    ASSUME SubscriptionInv, [SubscriptionNext]_subscriptionVars
    PROVE  SubscriptionInv'
<1>1. SubscriptionTyped
  BY DEF SubscriptionInv
<1>2. CASE Output
  <2>1. logged' \in Nat /\ logged' >= logged /\ (Tells \/ Silent)
    <3>1. CASE Logs
      BY <1>1, <3>1, SubscriptionAssumption DEF Logs, SubscriptionTyped
    <3>2. CASE TellsLate
      BY <1>1, <3>2 DEF TellsLate, SubscriptionTyped
    <3> QED
      BY <1>2, <3>1, <3>2 DEF Output
  <2> QED
    BY <1>2, <2>1, DeliverKeeps DEF Output
<1>3. CASE End
  <2>1. logged' \in Nat /\ logged' >= logged /\ (Tells \/ Silent)
    BY <1>1, <1>3, SubscriptionAssumption DEF End, Finishes, SubscriptionTyped
  <2> QED
    BY <1>3, <2>1, DeliverKeeps DEF End
<1>4. CASE Forget
  BY <1>1, <1>4, OthersKeep DEF Forget, outputVars, SubscriptionTyped
<1>5. ASSUME NEW v \in Views, Connect(v) PROVE SubscriptionInv'
  BY <1>5, ConnectKeeps
<1>6. ASSUME NEW v \in Views, Refused(v) PROVE SubscriptionInv'
  <2>1. SubscriptionTyped'
    <3>1. <<>> \in Seq(Nat)
      OBVIOUS
    <3> QED
      BY <1>1, <1>6, <3>1 DEF Refused, outputVars, SubscriptionTyped
  <2>2. \A w \in connected : shown'[w] = shown[w]
    BY <1>1, <1>6 DEF Refused, SubscriptionTyped
  <2> QED
    BY <1>6, <2>1, <2>2, OthersKeep DEF Refused, outputVars
<1>7. ASSUME NEW v \in Views, Leave(v) PROVE SubscriptionInv'
  <2>1. SubscriptionTyped'
    BY <1>1, <1>7 DEF Leave, outputVars, SubscriptionTyped
  <2> QED
    BY <1>7, <2>1, OthersKeep DEF Leave, outputVars
<1>8. CASE UNCHANGED subscriptionVars
  <2>1. /\ logged' = logged /\ announced' = announced /\ feed' = feed
        /\ subscribers' = subscribers /\ connected' = connected
        /\ shown' = shown /\ openedAt' = openedAt
    BY <1>8 DEF subscriptionVars, outputVars
  <2>2. SubscriptionTyped'
    BY <1>1, <2>1 DEF SubscriptionTyped
  <2> QED
    BY <2>1, <2>2, OthersKeep
<1> QED
  BY <1>2, <1>3, <1>4, <1>5, <1>6, <1>7, <1>8 DEF SubscriptionNext

(* What a view shows beyond its copy of the log never gets ahead of what was
   announced, nor behind it. *)
THEOREM SubscriptionInvariance == SubscriptionSpec => []SubscriptionInv
<1>1. SubscriptionInit => SubscriptionInv
  BY DEF SubscriptionInit, OutputInit, SubscriptionInv, SubscriptionTyped
<1>2. SubscriptionInv /\ [SubscriptionNext]_subscriptionVars => SubscriptionInv'
  BY SubscriptionStep
<1> QED
  BY <1>1, <1>2, PTL DEF SubscriptionSpec

(* A subscriber misses nothing and gets nothing out of turn, whatever the views
   ask for and however often they come and go (subscriptions.ts, logs-client.ts). *)
THEOREM SubscribersServed == SubscriptionSpec => []SubscriberKeepsUp
<1>1. SubscriptionInv => SubscriberKeepsUp
  BY DEF SubscriptionInv, SubscriptionTyped, SubscriberKeepsUp, FollowsUp, InStep
<1> QED
  BY <1>1, SubscriptionInvariance, PTL

-----------------------------------------------------------------------------
(* Bytes and their lines *)

Bytes == Seq(STRING)

LEMMA NewlinesCounted ==
    ASSUME NEW bytes \in Bytes
    PROVE  /\ Newlines(bytes) \subseteq 1 .. Len(bytes)
           /\ IsFiniteSet(Newlines(bytes)) /\ Cardinality(Newlines(bytes)) \in Nat
<1>1. Newlines(bytes) \subseteq 1 .. Len(bytes) /\ Len(bytes) \in Nat
  BY LenProperties DEF Bytes, Newlines
<1>2. IsFiniteSet(1 .. Len(bytes))
  BY <1>1, FS_Interval
<1> QED
  BY <1>1, <1>2, FS_Subset, FS_CardinalityType

(* Any part of some bytes is bytes. *)
LEMMA PartIs ==
    ASSUME NEW bytes \in Bytes, NEW from \in 1 .. Len(bytes) + 1, NEW to \in Int, to <= Len(bytes)
    PROVE  /\ SubSeq(bytes, from, to) \in Bytes
           /\ Len(SubSeq(bytes, from, to)) = IF from <= to THEN to - from + 1 ELSE 0
           /\ \A i \in 1 .. to - from + 1 : SubSeq(bytes, from, to)[i] = bytes[from + i - 1]
<1>1. Len(bytes) \in Nat
  BY LenProperties DEF Bytes
<1>2. \A i \in from .. to : bytes[i] \in STRING
  BY <1>1, ElementOfSeq DEF Bytes
<1> QED
  BY <1>1, <1>2, SubSeqProperties DEF Bytes

LEMMA LineEndTyped ==
    ASSUME NEW bytes \in Bytes, NEW n \in 0 .. Cardinality(Newlines(bytes))
    PROVE  LineEnd(bytes, n) \in 0 .. Len(bytes)
<1>1. Newlines(bytes) \in SUBSET (1 .. Len(bytes)) /\ Len(bytes) \in Nat
  BY NewlinesCounted, LenProperties DEF Bytes
<1>2. CASE n # 0
  <2>1. n \in 1 .. Cardinality(Newlines(bytes))
    BY <1>2, NewlinesCounted
  <2>2. Nth(Newlines(bytes), n) \in Newlines(bytes)
    BY <1>1, <2>1, NthIs
  <2> QED
    BY <1>1, <1>2, <2>2 DEF LineEnd
<1>3. CASE n = 0
  BY <1>1, <1>3 DEF LineEnd
<1> QED
  BY <1>2, <1>3

LEMMA LinesAreBytes ==
    ASSUME NEW bytes \in Bytes
    PROVE  /\ DOMAIN Terminated(bytes) = 1 .. Cardinality(Newlines(bytes))
           /\ \A n \in DOMAIN Terminated(bytes) : Terminated(bytes)[n] \in Bytes
           /\ Unterminated(bytes) \in Bytes /\ Newlines(Unterminated(bytes)) = {}
<1>1. /\ Newlines(bytes) \subseteq 1 .. Len(bytes) /\ Len(bytes) \in Nat
      /\ Cardinality(Newlines(bytes)) \in Nat
  BY NewlinesCounted, LenProperties DEF Bytes
<1>2. DOMAIN Terminated(bytes) = 1 .. Cardinality(Newlines(bytes))
  BY DEF Terminated
<1>3. ASSUME NEW n \in 1 .. Cardinality(Newlines(bytes))
      PROVE  Terminated(bytes)[n] \in Bytes
  <2>1. /\ n \in 0 .. Cardinality(Newlines(bytes))
        /\ n - 1 \in 0 .. Cardinality(Newlines(bytes))
    BY <1>1
  <2>2. LineEnd(bytes, n - 1) \in 0 .. Len(bytes) /\ LineEnd(bytes, n) \in 0 .. Len(bytes)
    BY <2>1, LineEndTyped
  <2>3. /\ LineEnd(bytes, n - 1) + 1 \in 1 .. Len(bytes) + 1
        /\ LineEnd(bytes, n) - 1 \in Int /\ LineEnd(bytes, n) - 1 <= Len(bytes)
    BY <1>1, <2>2
  <2>4. SubSeq(bytes, LineEnd(bytes, n - 1) + 1, LineEnd(bytes, n) - 1) \in Bytes
    BY <2>3, PartIs
  <2> QED
    BY <2>4 DEF Terminated
<1> DEFINE T == {0} \cup Newlines(bytes)
           last == Max(T)
<1>4. T \in SUBSET (0 .. Len(bytes)) /\ T # {}
  BY <1>1
<1>5. last \in T /\ \A i \in T : i <= last
  BY <1>1, <1>4, Greatest
<1>6. last \in 0 .. Len(bytes) /\ \A i \in Newlines(bytes) : i <= last
  BY <1>4, <1>5
<1>7. Unterminated(bytes) = SubSeq(bytes, last + 1, Len(bytes))
  BY DEF Unterminated
<1> HIDE DEF T, last
<1>8. /\ Unterminated(bytes) \in Bytes
      /\ Len(Unterminated(bytes)) = Len(bytes) - last
      /\ \A i \in 1 .. Len(bytes) - last : Unterminated(bytes)[i] = bytes[last + i]
  <2>1. last + 1 \in 1 .. Len(bytes) + 1 /\ Len(bytes) - (last + 1) + 1 = Len(bytes) - last
    BY <1>1, <1>6
  <2>2. \A i \in 1 .. Len(bytes) - last : last + 1 + i - 1 = last + i
    BY <1>1, <1>6
  <2> QED
    <3>1. /\ SubSeq(bytes, last + 1, Len(bytes)) \in Bytes
          /\ Len(SubSeq(bytes, last + 1, Len(bytes))) =
                IF last + 1 <= Len(bytes) THEN Len(bytes) - (last + 1) + 1 ELSE 0
          /\ \A i \in 1 .. Len(bytes) - (last + 1) + 1 :
                SubSeq(bytes, last + 1, Len(bytes))[i] = bytes[last + 1 + i - 1]
      BY <1>1, <2>1, PartIs
    <3>2. Len(Unterminated(bytes)) = Len(bytes) - last
      BY <1>1, <1>6, <1>7, <3>1
    <3>3. ASSUME NEW i \in 1 .. Len(bytes) - last
          PROVE  Unterminated(bytes)[i] = bytes[last + i]
      BY <1>7, <2>1, <2>2, <3>1
    <3> QED
      BY <1>7, <3>1, <3>2, <3>3
<1>9. Newlines(Unterminated(bytes)) = {}
  <2>1. ASSUME NEW i \in 1 .. Len(bytes) - last
        PROVE  Unterminated(bytes)[i] # Newline
    <3>1. last + i \in 1 .. Len(bytes) /\ ~ (last + i <= last)
      BY <1>1, <1>6
    <3>2. last + i \notin Newlines(bytes)
      BY <1>6, <3>1
    <3>3. DOMAIN bytes = 1 .. Len(bytes)
      BY LenProperties DEF Bytes
    <3> QED
      BY <1>8, <3>1, <3>2, <3>3 DEF Newlines
  <2>2. DOMAIN Unterminated(bytes) = 1 .. Len(bytes) - last
    BY <1>8, LenProperties DEF Bytes
  <2> QED
    BY <2>1, <2>2 DEF Newlines
<1> QED
  BY <1>2, <1>3, <1>8, <1>9

LEMMA NothingUnterminated == Unterminated(<<>>) = <<>>
<1>1. <<>> \in Bytes /\ Len(<<>>) = 0
  BY EmptySeq DEF Bytes
<1>2. {0} \cup Newlines(<<>>) = {0}
  BY DEF Newlines
<1>3. Max({0}) = 0
  BY DEF Max
<1>4. Unterminated(<<>>) = SubSeq(<<>>, 0 + 1, 0)
  BY <1>1, <1>2, <1>3 DEF Unterminated
<1> QED
  BY <1>4, SubSeqEmpty

(* A line is logged within the bound. *)
BoundedLines == {line \in [text : Bytes, cut : BOOLEAN] : Len(line.text) <= MaxPending}

LEMMA LineIsBounded ==
    ASSUME NEW line \in Bytes
    PROVE  buildBoundedLine(line) \in BoundedLines
<1>1. MaxPending \in Nat /\ Len(line) \in Nat
  BY OutputAssumption, LenProperties DEF Bytes
<1>2. CASE Len(line) <= MaxPending
  BY <1>2 DEF buildBoundedLine, BoundedLines
<1>3. CASE Len(line) > MaxPending
  <2> DEFINE start == SubSeq(line, 1, MaxPending)
  <2>1. start \in Bytes /\ Len(start) = IF 1 <= MaxPending THEN MaxPending - 1 + 1 ELSE 0
    <3>1. 1 \in 1 .. Len(line) + 1 /\ MaxPending \in Int /\ MaxPending <= Len(line)
      BY <1>1, <1>3
    <3> QED
      BY <3>1, PartIs
  <2>2. Len(start) <= MaxPending
    BY <1>1, <2>1
  <2>3. buildBoundedLine(line) = [text |-> start, cut |-> TRUE]
    BY <1>1, <1>3 DEF buildBoundedLine
  <2> HIDE DEF start
  <2> QED
    BY <2>1, <2>2, <2>3 DEF BoundedLines
<1> QED
  BY <1>1, <1>2, <1>3

LEMMA WithoutReturnTyped ==
    ASSUME NEW line \in Bytes
    PROVE  WithoutReturn(line) \in Bytes
<1>1. CASE line # <<>>
  <2>1. Len(line) \in Nat /\ Len(line) >= 1
    BY <1>1, EmptySeq, LenProperties DEF Bytes
  <2>2. SubSeq(line, 1, Len(line) - 1) \in Bytes
    BY <2>1, PartIs
  <2> QED
    BY <2>2 DEF WithoutReturn, Front
<1>2. CASE line = <<>>
  BY <1>2 DEF WithoutReturn
<1> QED
  BY <1>1, <1>2

LEMMA WholeTyped ==
    ASSUME NEW bytes \in Bytes
    PROVE  /\ Whole(bytes) \in Seq(BoundedLines)
           /\ Len(Whole(bytes)) = Cardinality(Newlines(bytes))
           /\ \A n \in 1 .. Cardinality(Newlines(bytes)) :
                 Whole(bytes)[n] = buildBoundedLine(WithoutReturn(Terminated(bytes)[n]))
<1> DEFINE ended == Terminated(bytes)
<1>1. /\ Cardinality(Newlines(bytes)) \in Nat
      /\ DOMAIN ended = 1 .. Cardinality(Newlines(bytes))
      /\ \A n \in DOMAIN ended : ended[n] \in Bytes
  BY LinesAreBytes, NewlinesCounted
<1> HIDE DEF ended
<1>2. \A n \in DOMAIN ended : buildBoundedLine(WithoutReturn(ended[n])) \in BoundedLines
  BY <1>1, LineIsBounded, WithoutReturnTyped
<1>3. Whole(bytes) = [n \in DOMAIN ended |-> buildBoundedLine(WithoutReturn(ended[n]))]
  BY DEF Whole, ended
<1> QED
  BY <1>1, <1>2, <1>3 DEF ended

LEMMA SkippedTyped ==
    ASSUME NEW stream \in Streams, NEW chunk \in Bytes
    PROVE  Skipped(stream, chunk) \in Bytes
<1>1. <<>> \in Bytes
  BY EmptySeq DEF Bytes
<1>2. CASE Newlines(chunk) # {}
  <2>1. Newlines(chunk) \subseteq 1 .. Len(chunk) /\ Len(chunk) \in Nat
    BY NewlinesCounted, LenProperties DEF Bytes
  <2>2. Min(Newlines(chunk)) \in 1 .. Len(chunk)
    <3>1. Newlines(chunk) \in SUBSET Nat
      BY <2>1
    <3>2. Min(Newlines(chunk)) \in Newlines(chunk)
      BY <1>2, <3>1, Least
    <3> QED
      BY <2>1, <3>2
  <2>3. SubSeq(chunk, Min(Newlines(chunk)) + 1, Len(chunk)) \in Bytes
    BY <2>1, <2>2, PartIs
  <2> QED
    BY <1>1, <2>3 DEF Skipped
<1>3. CASE Newlines(chunk) = {}
  BY <1>1, <1>3 DEF Skipped
<1> QED
  BY <1>2, <1>3

-----------------------------------------------------------------------------
(* Lines and events *)

(* The buffer keeps the last of the lines it is given. *)
LEMMA TrimmedLines ==
    ASSUME NEW from \in Nat, NEW to \in Nat, from <= to
    PROVE  LET buffer == Lines(from, to)
               lost == Overflow(buffer)
           IN  /\ lost \in 0 .. to - from
               /\ Trimmed(buffer) = Lines(from + lost, to)
               /\ Len(Trimmed(buffer)) <= MaxLines
<1> DEFINE buffer == Lines(from, to)
           lost == Overflow(buffer)
           left == SubSeq(buffer, lost + 1, Len(buffer))
<1>1. /\ buffer \in Seq(Nat) /\ Len(buffer) = to - from
      /\ \A i \in 1 .. to - from : buffer[i] = from + i
  BY LinesTyped
<1>2. MaxLines \in Nat /\ MaxLines >= 1
  BY OutputAssumption
<1>3. lost = IF to - from > MaxLines THEN to - from - MaxLines ELSE 0
  <2>1. lost = Max({0, (to - from) - MaxLines})
    BY <1>1 DEF Overflow
  <2>2. (to - from) - MaxLines \in Int
    BY <1>2
  <2> QED
    BY <1>2, <2>1, <2>2, Larger
<1> HIDE DEF lost
<1>4. lost \in 0 .. to - from /\ (to - from) - lost <= MaxLines
  BY <1>2, <1>3
<1>5. /\ left \in Seq(Nat) /\ Len(left) = (to - from) - lost
      /\ \A i \in 1 .. (to - from) - lost : left[i] = from + lost + i
  <2>1. \A i \in lost + 1 .. to - from : buffer[i] \in Nat
    BY <1>1, <1>4, ElementOfSeq
  <2> HIDE DEF buffer
  <2>2. /\ left \in Seq(Nat)
        /\ Len(left) = IF lost + 1 <= to - from THEN (to - from) - (lost + 1) + 1 ELSE 0
        /\ \A i \in 1 .. (to - from) - (lost + 1) + 1 : left[i] = buffer[lost + 1 + i - 1]
    <3>1. lost + 1 \in Int /\ to - from \in Int /\ Len(buffer) = to - from
      BY <1>1, <1>4 DEF buffer
    <3> HIDE DEF left
    <3>2. left = SubSeq(buffer, lost + 1, to - from)
      BY <3>1 DEF left
    <3> QED
      BY <2>1, <3>1, <3>2, SubSeqProperties
  <2>3. Len(left) = (to - from) - lost
    BY <1>4, <2>2
  <2> HIDE DEF left
  <2>4. ASSUME NEW i \in 1 .. (to - from) - lost
        PROVE  left[i] = from + lost + i
    <3>1. /\ i \in 1 .. (to - from) - (lost + 1) + 1
          /\ lost + 1 + i - 1 = lost + i /\ lost + i \in 1 .. to - from
      BY <1>4
    <3>2. left[i] = buffer[lost + i]
      BY <2>2, <3>1
    <3> QED
      BY <1>1, <1>4, <3>1, <3>2
  <2> QED
    BY <2>2, <2>3, <2>4
<1>6. /\ Lines(from + lost, to) \in Seq(Nat)
      /\ Len(Lines(from + lost, to)) = (to - from) - lost
      /\ \A i \in 1 .. (to - from) - lost : Lines(from + lost, to)[i] = from + lost + i
  <2>1. from + lost \in Nat /\ from + lost <= to /\ to - (from + lost) = (to - from) - lost
    BY <1>4
  <2> QED
    BY <2>1, LinesTyped
<1> HIDE DEF left
<1>7. left = Lines(from + lost, to)
  BY <1>5, <1>6, SeqEqual
<1>8. Trimmed(buffer) = left
  BY DEF Trimmed, left, lost
<1> QED
  BY <1>4, <1>5, <1>7, <1>8 DEF lost

(* An event is what is left of the lines it tells of. *)
LEMMA EventIs ==
    ASSUME NEW from \in Nat, NEW upto \in Nat, NEW drop \in 0 .. upto - from
    PROVE  Event(from, upto, drop) = [dropped |-> drop, lines |-> Lines(from + drop, upto)]
<1>1. upto - (from + drop) = upto - from - drop
  OBVIOUS
<1> QED
  BY <1>1 DEF Event, Lines

-----------------------------------------------------------------------------
(* The output of one process *)

Entries == [stream : Streams, line : BoundedLines]

LogTyped ==
    /\ pending \in [Streams -> Bytes] /\ overflowed \in [Streams -> BOOLEAN]
    /\ combined \in Seq(Entries)

(* How many lines of the log the events have told of. *)
Announced == Len(combined) - dropped - Len(appended)

(* What waits to be emitted are the last lines of the log, and those dropped
   come right before. *)
AllCounted ==
    /\ dropped \in Nat /\ Announced \in Nat
    /\ Announced + dropped <= Len(combined)
    /\ appended = Lines(Announced + dropped, Len(combined))

Clocked ==
    /\ now \in Nat
    /\ lastEmit \in Nat \cup {Never} /\ timer \in Nat \cup {Never}

Emitted == told \in Seq({e \in Events : Len(e.lines) <= MaxLines})

OutputInv == LogTyped /\ AllCounted /\ Clocked /\ Emitted /\ OutputTypeOK

(* A step either tells of all there is, in one event if there is anything, or
   of nothing. *)
AllTold ==
    /\ Announced' = Len(combined') /\ appended' = <<>> /\ dropped' = 0
    /\ \/ Announced = Announced' /\ told' = told
       \/ /\ Announced < Announced'
          /\ \E drop \in 0 .. Announced' - Announced :
                told' = Append(told, Event(Announced, Announced', drop))

NoneTold == Announced' = Announced /\ told' = told

LEMMA BufferIsLines ==
    ASSUME LogTyped, AllCounted, NEW k \in Nat
    PROVE  /\ Buffered(k) = Lines(Announced + dropped, Len(combined) + k)
           /\ Len(combined) \in Nat /\ Announced + dropped \in Nat
           /\ Len(appended) = Len(combined) - (Announced + dropped)
<1>1. /\ Len(combined) \in Nat /\ Announced + dropped \in Nat
      /\ Announced + dropped <= Len(combined)
  BY LenProperties DEF LogTyped, AllCounted
<1> DEFINE from == Announced + dropped
           more == [n \in 1 .. k |-> Len(combined) + n]
<1>2. appended = Lines(from, Len(combined))
  BY DEF AllCounted
<1> HIDE DEF from
<1>3. /\ appended \in Seq(Nat) /\ Len(appended) = Len(combined) - from
      /\ \A i \in 1 .. Len(combined) - from : appended[i] = from + i
  BY <1>1, <1>2, LinesTyped DEF from
<1>4. /\ more \in Seq(Nat) /\ Len(more) = k
      /\ \A i \in 1 .. k : more[i] = Len(combined) + i
  BY <1>1
<1> HIDE DEF more
<1>5. /\ appended \o more \in Seq(Nat) /\ Len(appended \o more) = Len(appended) + Len(more)
      /\ \A i \in 1 .. Len(appended) + Len(more) :
            (appended \o more)[i] = IF i <= Len(appended) THEN appended[i] ELSE more[i - Len(appended)]
  BY <1>3, <1>4, ConcatProperties
<1>6. from \in Nat /\ from <= Len(combined)
  BY <1>1 DEF from
<1>7. /\ Lines(from, Len(combined) + k) \in Seq(Nat)
      /\ Len(Lines(from, Len(combined) + k)) = (Len(combined) + k) - from
      /\ \A i \in 1 .. (Len(combined) + k) - from : Lines(from, Len(combined) + k)[i] = from + i
  <2>1. Len(combined) + k \in Nat /\ from <= Len(combined) + k
    BY <1>1, <1>6
  <2> QED
    BY <1>6, <2>1, LinesTyped
<1>8. ASSUME NEW i \in 1 .. Len(appended) + Len(more)
      PROVE  (appended \o more)[i] = from + i
  <2>1. CASE i <= Len(appended)
    BY <1>1, <1>3, <1>4, <1>5, <1>6, <2>1
  <2>2. CASE i > Len(appended)
    <3>1. i - Len(appended) \in 1 .. k
      BY <1>1, <1>3, <1>4, <1>6, <2>2
    <3>2. (appended \o more)[i] = Len(combined) + (i - Len(appended))
      BY <1>3, <1>4, <1>5, <1>6, <2>2, <3>1
    <3> QED
      BY <1>1, <1>3, <1>6, <3>2
  <2> QED
    BY <1>1, <1>3, <1>6, <2>1, <2>2
<1>9. Len(appended \o more) = Len(Lines(from, Len(combined) + k))
  BY <1>1, <1>3, <1>4, <1>5, <1>6, <1>7
<1>10. appended \o more = Lines(from, Len(combined) + k)
  <2>1. \A i \in 1 .. Len(appended \o more) :
            (appended \o more)[i] = Lines(from, Len(combined) + k)[i]
    <3>1. Len(appended) + Len(more) = (Len(combined) + k) - from
      BY <1>1, <1>3, <1>4, <1>6
    <3> QED
      BY <1>5, <1>7, <1>8, <3>1
  <2> QED
    BY <1>5, <1>7, <1>9, <2>1, SeqEqual
<1>11. Buffered(k) = appended \o more
  BY DEF Buffered, more
<1>12. Buffered(k) = Lines(Announced + dropped, Len(combined) + k)
  BY <1>10, <1>11 DEF from
<1> QED
  BY <1>1, <1>3, <1>12 DEF from

(* An event with all there is to tell: the lines of the log after those told
   of, of which drop were dropped. *)
LEMMA EmitTells ==
    ASSUME Emitted, NEW drop \in Nat, NEW upto \in Nat, Announced \in Nat,
           Announced + drop <= upto, Len(combined') = upto,
           Len(Lines(Announced + drop, upto)) <= MaxLines,
           emit(Lines(Announced + drop, upto), drop)
    PROVE  AllTold /\ Emitted' /\ AllCounted'
<1> DEFINE lines == Lines(Announced + drop, upto)
           e == [dropped |-> drop, lines |-> lines]
<1>1. /\ lines \in Seq(Nat) /\ Len(lines) = upto - (Announced + drop)
      /\ Len(lines) <= MaxLines
  <2>1. Announced + drop \in Nat
    OBVIOUS
  <2> QED
    BY <2>1, LinesTyped
<1>2. lines = <<>> <=> upto = Announced + drop
  <2> HIDE DEF lines
  <2>1. lines = <<>> => Len(lines) = 0
    BY EmptySeq
  <2>2. Len(lines) = 0 => lines = <<>>
    BY <1>1
  <2> QED
    BY <1>1, <2>1, <2>2
<1>3. /\ appended' = <<>> /\ dropped' = 0
      /\ told' = IF lines = <<>> /\ drop = 0 THEN told ELSE Append(told, e)
  BY DEF emit
<1>4. Announced' = upto
  <2>1. Len(appended') = 0
    BY <1>3
  <2> QED
    BY <1>3, <2>1 DEF Announced
<1> HIDE DEF lines
<1>5. AllCounted'
  <2>1. Lines(upto, upto) = <<>>
    BY DEF Lines
  <2> QED
    BY <1>3, <1>4, <2>1 DEF AllCounted
<1>6. CASE lines = <<>> /\ drop = 0
  <2>1. upto = Announced
    BY <1>2, <1>6
  <2>2. told' = told
    BY <1>3, <1>6
  <2> QED
    BY <1>3, <1>4, <1>5, <2>1, <2>2 DEF AllTold, Emitted
<1>7. CASE ~ (lines = <<>> /\ drop = 0)
  <2>1. Announced < upto /\ drop \in 0 .. upto - Announced
    BY <1>2, <1>7
  <2>2. e = Event(Announced, upto, drop)
    BY <2>1, EventIs DEF lines
  <2>3. e \in {d \in Events : Len(d.lines) <= MaxLines}
    BY <1>1 DEF Events
  <2>4. told' = Append(told, e)
    BY <1>3, <1>7
  <2>5. Emitted'
    <3> HIDE DEF e
    <3> QED
      BY <2>3, <2>4, AppendProperties DEF Emitted
  <2>6. AllTold
    <3> HIDE DEF e
    <3> QED
      BY <1>3, <1>4, <2>1, <2>2, <2>4 DEF AllTold
  <2> QED
    BY <1>5, <2>5, <2>6
<1> QED
  BY <1>6, <1>7

(* The buffer is trimmed to the last of its lines; what it loses is counted. *)
LEMMA TrimmedBuffer ==
    ASSUME LogTyped, AllCounted, NEW k \in Nat
    PROVE  LET drop == DroppedWith(Buffered(k))
               upto == Len(combined) + k
           IN  /\ drop \in Nat /\ upto \in Nat /\ Announced + drop <= upto
               /\ Trimmed(Buffered(k)) = Lines(Announced + drop, upto)
               /\ Len(Trimmed(Buffered(k))) <= MaxLines
<1> DEFINE from == Announced + dropped
           lost == Overflow(Buffered(k))
           upto == Len(combined) + k
<1>1. /\ Buffered(k) = Lines(from, upto) /\ Len(combined) \in Nat /\ from \in Nat
      /\ from <= Len(combined)
  BY BufferIsLines DEF AllCounted
<1>2. dropped \in Nat /\ Announced \in Nat
  BY DEF AllCounted
<1>3. from <= upto /\ upto \in Nat
  BY <1>1
<1> HIDE DEF upto
<1>4. /\ lost \in 0 .. upto - from
      /\ Trimmed(Buffered(k)) = Lines(from + lost, upto)
      /\ Len(Trimmed(Buffered(k))) <= MaxLines
  <2> HIDE DEF from
  <2> QED
    BY <1>1, <1>3, TrimmedLines
<1> HIDE DEF lost
<1>5. /\ dropped + lost \in Nat /\ Announced + (dropped + lost) <= upto
      /\ from + lost = Announced + (dropped + lost)
  BY <1>2, <1>3, <1>4
<1>6. DroppedWith(Buffered(k)) = dropped + lost
  BY DEF DroppedWith, lost
<1> QED
  BY <1>3, <1>4, <1>5, <1>6 DEF upto

(* notify tells of all there is or waits, with a pending emit. *)
LEMMA Notified ==
    ASSUME OutputInv, NEW k \in Nat, Len(combined') = Len(combined) + k, notify(Buffered(k))
    PROVE  /\ AllTold \/ NoneTold
           /\ Emitted' /\ AllCounted' /\ Len(appended') <= MaxLines
           /\ lastEmit' \in Nat \cup {Never} /\ timer' \in Nat \cup {Never}
<1> DEFINE drop == DroppedWith(Buffered(k))
           upto == Len(combined) + k
           lines == Lines(Announced + drop, upto)
<1>1. /\ drop \in Nat /\ upto \in Nat /\ Announced + drop <= upto
      /\ Trimmed(Buffered(k)) = lines /\ Len(lines) <= MaxLines
  BY TrimmedBuffer DEF OutputInv
<1>2. /\ Announced \in Nat /\ Throttle \in Nat /\ now \in Nat
      /\ lastEmit \in Nat \cup {Never} /\ timer \in Nat \cup {Never}
  BY OutputAssumption DEF OutputInv, AllCounted, Clocked
<1> HIDE DEF drop
<1>3. CASE emit(Trimmed(Buffered(k)), DroppedWith(Buffered(k))) /\ UNCHANGED timer
  <2>1. emit(lines, drop) /\ timer' = timer
    BY <1>1, <1>3 DEF drop
  <2>2. AllTold /\ Emitted' /\ AllCounted'
    BY <1>1, <1>2, <2>1, EmitTells DEF OutputInv
  <2>3. lastEmit' = now /\ appended' = <<>>
    BY <2>1 DEF emit
  <2>4. Len(appended') = 0 /\ 0 <= MaxLines
    BY <2>3, OutputAssumption
  <2> QED
    BY <1>2, <2>1, <2>2, <2>3, <2>4
<1>4. CASE /\ ~ (lastEmit = Never \/ now - lastEmit >= Throttle)
           /\ appended' = Trimmed(Buffered(k)) /\ dropped' = DroppedWith(Buffered(k))
           /\ timer' = Delay
           /\ UNCHANGED <<lastEmit, told>>
  <2>1. appended' = lines /\ dropped' = drop /\ timer' = Delay /\ lastEmit' = lastEmit /\ told' = told
    BY <1>1, <1>4 DEF drop
  <2>2. Len(lines) = upto - (Announced + drop)
    <3>1. Announced + drop \in Nat
      BY <1>1, <1>2
    <3> QED
      BY <1>1, <3>1, LinesTyped
  <2>3. Announced' = Announced
    <3>1. Len(appended') = upto - (Announced + drop)
      BY <2>1, <2>2
    <3>2. Announced' = upto - drop - (upto - (Announced + drop))
      BY <2>1, <3>1 DEF Announced
    <3> QED
      BY <1>1, <1>2, <3>2
  <2>4. AllCounted'
    BY <1>1, <1>2, <2>1, <2>3 DEF AllCounted
  <2>5. timer' \in Nat \cup {Never}
    BY <1>2, <1>4, <2>1 DEF Delay
  <2> QED
    BY <1>1, <1>2, <2>1, <2>3, <2>4, <2>5 DEF NoneTold, Emitted, OutputInv
<1> QED
  BY <1>3, <1>4 DEF notify

(* What has to be shown of a step for its variables to keep their types. *)
LEMMA TypedNext ==
    ASSUME LogTyped', AllCounted', Emitted', Clocked', Len(appended') <= MaxLines,
           \A s \in Streams :
              /\ Len(pending'[s]) <= MaxPending /\ Newlines(pending'[s]) = {}
              /\ overflowed'[s] => pending'[s] = <<>>
    PROVE  OutputInv'
<1>1. \A n \in DOMAIN combined' : Len(combined'[n].line.text) <= MaxPending
  <2>1. combined' \in Seq(Entries)
    BY DEF LogTyped
  <2> SUFFICES ASSUME NEW n \in DOMAIN combined'
               PROVE  Len(combined'[n].line.text) <= MaxPending
    OBVIOUS
  <2>2. n \in 1 .. Len(combined')
    BY <2>1, LenProperties
  <2>3. combined'[n] \in Entries
    BY <2>1, <2>2, ElementOfSeq
  <2> QED
    BY <2>3 DEF Entries, BoundedLines
<1>2. \A n \in DOMAIN told' : Len(told'[n].lines) <= MaxLines
  <2> DEFINE S == {e \in Events : Len(e.lines) <= MaxLines}
  <2>1. told' \in Seq(S)
    BY DEF Emitted
  <2>2. \A e \in S : Len(e.lines) <= MaxLines
    OBVIOUS
  <2> HIDE DEF S
  <2>3. \A n \in DOMAIN told' : told'[n] \in S
    <3> SUFFICES ASSUME NEW n \in DOMAIN told'
                 PROVE  told'[n] \in S
      OBVIOUS
    <3>1. n \in 1 .. Len(told')
      BY <2>1, LenProperties
    <3> QED
      BY <2>1, <3>1, ElementOfSeq
  <2> QED
    BY <2>2, <2>3
<1>3. OutputTypeOK'
  BY <1>1, <1>2 DEF OutputTypeOK, AllCounted, Clocked
<1> QED
  BY <1>3 DEF OutputInv

LEMMA ChunkStep ==
    ASSUME OutputInv, NEW stream \in Streams, NEW chunk \in Chunks[stream],
           Chunk(stream, chunk)
    PROVE  /\ OutputInv' /\ (AllTold \/ NoneTold)
           /\ Len(combined') >= Len(combined) /\ finished' = finished
<1> DEFINE bytes == pending[stream] \o Skipped(stream, chunk)
           rest == Unterminated(bytes)
           whole == Whole(bytes)
           long == Len(rest) > MaxPending
           lines == IF long THEN Append(whole, buildBoundedLine(rest)) ELSE whole
           written == [n \in DOMAIN lines |-> [stream |-> stream, line |-> lines[n]]]
<1>1. /\ pending' = [pending EXCEPT ![stream] = IF long THEN <<>> ELSE rest]
      /\ overflowed' = [overflowed EXCEPT ![stream] = long \/ StillOverflowed(stream, chunk)]
      /\ combined' = combined \o written
      /\ notify(Buffered(Len(lines)))
      /\ now' = now /\ finished' = finished
  BY DEF Chunk
<1>2. /\ pending \in [Streams -> Bytes] /\ overflowed \in [Streams -> BOOLEAN]
      /\ combined \in Seq(Entries) /\ Len(combined) \in Nat
  BY LenProperties DEF OutputInv, LogTyped
<1>3. bytes \in Bytes
  <2>1. chunk \in Bytes
    BY OutputAssumption DEF Bytes
  <2> QED
    BY <1>2, <2>1, SkippedTyped, ConcatProperties DEF Bytes
<1> HIDE DEF bytes
<1>4. rest \in Bytes /\ Newlines(rest) = {}
  BY <1>3, LinesAreBytes
<1> HIDE DEF rest
<1>5. whole \in Seq(BoundedLines)
  BY <1>3, WholeTyped
<1>6. buildBoundedLine(rest) \in BoundedLines
  BY <1>4, LineIsBounded
<1> HIDE DEF whole
<1>7. lines \in Seq(BoundedLines) /\ Len(lines) \in Nat /\ DOMAIN lines = 1 .. Len(lines)
  <2>1. lines \in Seq(BoundedLines)
    BY <1>5, <1>6, AppendProperties
  <2> HIDE DEF lines
  <2> QED
    BY <2>1, LenProperties
<1> HIDE DEF lines
<1>8. written \in Seq(Entries) /\ Len(written) = Len(lines)
  <2>1. \A n \in 1 .. Len(lines) : lines[n] \in BoundedLines
    BY <1>7, ElementOfSeq
  <2>2. \A n \in 1 .. Len(lines) : [stream |-> stream, line |-> lines[n]] \in Entries
    BY <2>1 DEF Entries
  <2> QED
    BY <1>7, <2>2
<1> HIDE DEF written
<1>9. combined' \in Seq(Entries) /\ Len(combined') = Len(combined) + Len(lines)
  <2>1. /\ combined \o written \in Seq(Entries)
        /\ Len(combined \o written) = Len(combined) + Len(written)
    BY <1>2, <1>8, ConcatProperties
  <2> QED
    BY <1>1, <1>8, <2>1
<1>10. /\ AllTold \/ NoneTold
       /\ Emitted' /\ AllCounted' /\ Len(appended') <= MaxLines
       /\ lastEmit' \in Nat \cup {Never} /\ timer' \in Nat \cup {Never}
  BY <1>1, <1>7, <1>9, Notified
<1>11. pending' \in [Streams -> Bytes] /\ overflowed' \in [Streams -> BOOLEAN]
  <2>1. <<>> \in Bytes
    BY EmptySeq DEF Bytes
  <2>2. long \/ StillOverflowed(stream, chunk) \in BOOLEAN
    BY DEF StillOverflowed
  <2> QED
    BY <1>1, <1>2, <1>4, <2>1, <2>2
<1>12. \A s \in Streams :
          /\ Len(pending'[s]) <= MaxPending /\ Newlines(pending'[s]) = {}
          /\ overflowed'[s] => pending'[s] = <<>>
  <2>1. \A s \in Streams :
           /\ Len(pending[s]) <= MaxPending /\ Newlines(pending[s]) = {}
           /\ overflowed[s] => pending[s] = <<>>
    BY DEF OutputInv, OutputTypeOK
  <2>2. Len(<<>>) <= MaxPending /\ Newlines(<<>>) = {}
    BY OutputAssumption DEF Newlines
  <2>3. CASE long
    <3>1. /\ pending'[stream] = <<>>
          /\ \A s \in Streams \ {stream} : pending'[s] = pending[s] /\ overflowed'[s] = overflowed[s]
      BY <1>1, <1>2, <2>3
    <3> QED
      BY <2>1, <2>2, <3>1
  <2>4. CASE ~long
    <3>1. /\ pending'[stream] = rest /\ overflowed'[stream] = StillOverflowed(stream, chunk)
          /\ \A s \in Streams \ {stream} : pending'[s] = pending[s] /\ overflowed'[s] = overflowed[s]
      <4>1. (long \/ StillOverflowed(stream, chunk)) = StillOverflowed(stream, chunk)
        BY <2>4 DEF StillOverflowed
      <4> QED
        BY <1>1, <1>2, <2>4, <4>1
    <3>2. Len(rest) <= MaxPending
      <4>1. Len(rest) \in Nat /\ MaxPending \in Nat
        BY <1>4, OutputAssumption, LenProperties DEF Bytes
      <4> QED
        BY <2>4, <4>1
    <3>3. ASSUME StillOverflowed(stream, chunk) PROVE rest = <<>>
      <4>1. pending[stream] = <<>> /\ Skipped(stream, chunk) = <<>>
        BY <2>1, <3>3 DEF StillOverflowed, Skipped
      <4>2. bytes = <<>>
        BY <4>1 DEF bytes
      <4> QED
        BY <4>2, NothingUnterminated DEF rest
    <3> QED
      BY <1>4, <2>1, <3>1, <3>2, <3>3
  <2> QED
    BY <2>3, <2>4
<1>13. OutputInv'
  BY <1>1, <1>9, <1>10, <1>11, <1>12, TypedNext DEF OutputInv, LogTyped, Clocked
<1> QED
  BY <1>1, <1>2, <1>7, <1>9, <1>10, <1>13

LEMMA TimerStep ==
    ASSUME OutputInv, TimerFires
    PROVE  /\ OutputInv' /\ (AllTold \/ NoneTold)
           /\ combined' = combined /\ finished' = finished
<1>1. /\ timer' = Never /\ now' = now /\ finished' = finished
      /\ pending' = pending /\ overflowed' = overflowed /\ combined' = combined
  BY DEF TimerFires, lineVars
<1>2. LogTyped /\ AllCounted /\ Clocked /\ Emitted /\ OutputTypeOK
  BY DEF OutputInv
<1>3. CASE UNCHANGED <<appended, dropped, lastEmit, told>>
  <2>1. Announced' = Announced /\ told' = told
    BY <1>1, <1>3 DEF Announced
  <2>2. OutputInv'
    BY <1>1, <1>2, <1>3, <2>1
    DEF OutputInv, LogTyped, AllCounted, Clocked, Emitted, OutputTypeOK
  <2> QED
    BY <1>1, <2>1, <2>2 DEF NoneTold
<1>4. CASE emit(appended, dropped)
  <2>1. /\ Announced \in Nat /\ dropped \in Nat /\ Announced + dropped <= Len(combined)
        /\ appended = Lines(Announced + dropped, Len(combined))
        /\ Len(appended) <= MaxLines /\ Len(combined) \in Nat
    BY <1>2, LenProperties DEF AllCounted, LogTyped, OutputTypeOK
  <2>2. emit(Lines(Announced + dropped, Len(combined)), dropped)
    BY <1>4, <2>1
  <2>3. Len(Lines(Announced + dropped, Len(combined))) <= MaxLines
    BY <2>1
  <2>4. AllTold /\ Emitted' /\ AllCounted'
    BY <1>1, <1>2, <2>1, <2>2, <2>3, EmitTells
  <2>5. Clocked' /\ Len(appended') <= MaxLines
    BY <1>1, <1>2, <1>4, OutputAssumption DEF emit, Clocked
  <2>6. OutputInv'
    BY <1>1, <1>2, <2>4, <2>5, TypedNext DEF LogTyped, OutputTypeOK
  <2> QED
    BY <1>1, <2>4, <2>6
<1> QED
  BY <1>3, <1>4 DEF TimerFires

LEMMA FlushedTyped ==
    ASSUME LogTyped
    PROVE  Flushed \in Seq(Entries) /\ Len(Flushed) \in Nat
<1>1. ASSUME NEW s \in Streams
      PROVE  Left(s) \in Seq(Entries)
  <2>1. pending[s] \in Bytes
    BY DEF LogTyped
  <2>2. [stream |-> s, line |-> buildBoundedLine(pending[s])] \in Entries
    BY <2>1, LineIsBounded DEF Entries
  <2> QED
    BY <2>2 DEF Left
<1>2. Left("stdout") \in Seq(Entries) /\ Left("stderr") \in Seq(Entries)
  BY <1>1 DEF Streams
<1>3. Flushed \in Seq(Entries)
  BY <1>2, ConcatProperties DEF Flushed
<1> QED
  BY <1>3, LenProperties

LEMMA FlushStep ==
    ASSUME OutputInv, Flush
    PROVE  /\ OutputInv' /\ AllTold
           /\ Len(combined') >= Len(combined) /\ finished' = TRUE
<1> DEFINE k == Len(Flushed)
           buffer == Buffered(k)
<1>1. /\ finished' = TRUE /\ combined' = combined \o Flushed
      /\ pending' = [s \in Streams |-> <<>>] /\ overflowed' = [s \in Streams |-> FALSE]
      /\ timer' = Never /\ now' = now
      /\ \/ buffer = <<>> /\ dropped = 0 /\ UNCHANGED <<appended, dropped, lastEmit, told>>
         \/ emit(Trimmed(buffer), DroppedWith(buffer))
  BY DEF Flush
<1>2. LogTyped /\ AllCounted /\ Clocked /\ Emitted /\ OutputTypeOK
  BY DEF OutputInv
<1>3. /\ combined \in Seq(Entries) /\ Len(combined) \in Nat
      /\ Flushed \in Seq(Entries) /\ k \in Nat
  BY <1>2, FlushedTyped, LenProperties DEF LogTyped
<1>4. combined' \in Seq(Entries) /\ Len(combined') = Len(combined) + k
  <2>1. /\ combined \o Flushed \in Seq(Entries)
        /\ Len(combined \o Flushed) = Len(combined) + Len(Flushed)
    BY <1>3, ConcatProperties
  <2> QED
    BY <1>1, <2>1
<1> HIDE DEF k
<1>5. AllTold /\ Emitted' /\ AllCounted' /\ Clocked' /\ Len(appended') <= MaxLines
  <2>1. CASE buffer = <<>> /\ dropped = 0 /\ UNCHANGED <<appended, dropped, lastEmit, told>>
    <3>1. /\ buffer = Lines(Announced + dropped, Len(combined) + k)
          /\ Announced + dropped \in Nat /\ Announced + dropped <= Len(combined)
          /\ Announced \in Nat
          /\ Len(appended) = Len(combined) - (Announced + dropped)
      BY <1>2, <1>3, BufferIsLines DEF AllCounted
    <3>2. Len(buffer) = (Len(combined) + k) - (Announced + dropped)
      <4> DEFINE from == Announced + dropped
                 upto == Len(combined) + k
      <4>1. from \in Nat /\ upto \in Nat /\ from <= upto
        BY <1>3, <3>1
      <4> HIDE DEF from, upto
      <4>2. Len(Lines(from, upto)) = upto - from
        BY <4>1, LinesTyped
      <4>3. buffer = Lines(from, upto)
        BY <3>1 DEF from, upto
      <4>4. Len(buffer) = upto - from
        BY <4>2, <4>3
      <4> HIDE DEF buffer
      <4> QED
        BY <4>4 DEF from, upto
    <3>3. Len(buffer) = 0
      BY <2>1
    <3>4. k = 0 /\ Announced = Len(combined) /\ Len(appended) = 0
      BY <1>3, <2>1, <3>1, <3>2, <3>3
    <3>5. appended = <<>>
      <4>1. appended = Lines(Announced + dropped, Len(combined))
        BY <1>2 DEF AllCounted
      <4>2. appended \in Seq(Nat)
        BY <1>3, <3>1, <4>1, LinesTyped
      <4> QED
        BY <3>4, <4>2
    <3>6. Announced' = Len(combined')
      BY <1>3, <1>4, <2>1, <3>4 DEF Announced
    <3>7. AllTold
      BY <1>3, <1>4, <2>1, <3>4, <3>5, <3>6 DEF AllTold
    <3>8. AllCounted'
      <4>1. Lines(Len(combined), Len(combined)) = <<>>
        BY <1>3 DEF Lines
      <4> QED
        BY <1>3, <1>4, <2>1, <3>4, <3>5, <3>6, <4>1 DEF AllCounted
    <3>9. Clocked' /\ Emitted' /\ Len(appended') <= MaxLines
      BY <1>1, <1>2, <2>1 DEF Clocked, Emitted, OutputTypeOK
    <3> QED
      BY <3>7, <3>8, <3>9
  <2>2. CASE emit(Trimmed(buffer), DroppedWith(buffer))
    <3> DEFINE drop == DroppedWith(buffer)
               upto == Len(combined) + k
    <3>1. /\ drop \in Nat /\ upto \in Nat /\ Announced + drop <= upto
          /\ Trimmed(buffer) = Lines(Announced + drop, upto)
          /\ Len(Trimmed(buffer)) <= MaxLines
      BY <1>2, <1>3, TrimmedBuffer
    <3> HIDE DEF drop
    <3>2. emit(Lines(Announced + drop, upto), drop)
      BY <2>2, <3>1 DEF drop
    <3>3. AllTold /\ Emitted' /\ AllCounted'
      BY <1>2, <1>4, <3>1, <3>2, EmitTells DEF AllCounted
    <3>4. Clocked' /\ Len(appended') <= MaxLines
      BY <1>1, <1>2, <2>2, OutputAssumption DEF emit, Clocked
    <3> QED
      BY <3>3, <3>4
  <2> QED
    BY <1>1, <2>1, <2>2
<1>6. LogTyped'
  <2>1. <<>> \in Bytes
    BY EmptySeq DEF Bytes
  <2> QED
    BY <1>1, <1>4, <2>1 DEF LogTyped
<1>7. \A s \in Streams :
         /\ Len(pending'[s]) <= MaxPending /\ Newlines(pending'[s]) = {}
         /\ overflowed'[s] => pending'[s] = <<>>
  <2>1. Len(<<>>) <= MaxPending /\ Newlines(<<>>) = {}
    BY OutputAssumption DEF Newlines
  <2> QED
    BY <1>1, <2>1
<1>8. OutputInv'
  BY <1>5, <1>6, <1>7, TypedNext
<1> QED
  BY <1>1, <1>3, <1>4, <1>5, <1>8

(* clear and the clock leave the log and the events alone. *)
LEMMA QuietStep ==
    ASSUME OutputInv, UNCHANGED <<lineVars, appended, dropped, told>>,
           lastEmit' \in {lastEmit, Never}, timer' \in {timer, Never}, now' \in Nat
    PROVE  OutputInv' /\ NoneTold /\ combined' = combined
<1>1. /\ pending' = pending /\ overflowed' = overflowed /\ combined' = combined
      /\ appended' = appended /\ dropped' = dropped /\ told' = told
  BY DEF lineVars
<1>2. Announced' = Announced
  BY <1>1 DEF Announced
<1>3. LogTyped' /\ AllCounted' /\ Emitted'
  BY <1>1, <1>2 DEF OutputInv, LogTyped, AllCounted, Emitted
<1>4. Clocked'
  BY DEF OutputInv, Clocked
<1>5. OutputTypeOK'
  BY <1>1, <1>4 DEF OutputInv, OutputTypeOK, Clocked
<1> QED
  BY <1>1, <1>2, <1>3, <1>4, <1>5 DEF OutputInv, NoneTold

-----------------------------------------------------------------------------
(* The promise *)

(* What every step is: one of the promise, or none of its concern. *)
LEMMA OutputStep ==
    ASSUME OutputInv, [Next]_vars
    PROVE  /\ OutputInv'
           /\ \/ /\ AllTold \/ NoneTold
                 /\ Len(combined') >= Len(combined) /\ finished' = finished
              \/ /\ AllTold
                 /\ Len(combined') >= Len(combined) /\ finished' = TRUE
<1>1. Len(combined) \in Nat /\ now \in Nat
  BY LenProperties DEF OutputInv, LogTyped, Clocked
<1>2. ASSUME NEW s \in Streams, NEW c \in Chunks[s], Chunk(s, c)
      PROVE  /\ OutputInv' /\ (AllTold \/ NoneTold)
             /\ Len(combined') >= Len(combined) /\ finished' = finished
  BY <1>2, ChunkStep
<1>3. CASE TimerFires
  BY <1>1, <1>3, TimerStep
<1>4. CASE Flush
  BY <1>4, FlushStep
<1>5. CASE clear
  BY <1>1, <1>5, QuietStep DEF clear
<1>6. CASE Tock
  <2>1. now' \in Nat
    BY <1>1, <1>6 DEF Tock
  <2> QED
    BY <1>1, <1>6, <2>1, QuietStep DEF Tock, emitVars
<1>7. CASE UNCHANGED vars
  <2>1. /\ UNCHANGED <<lineVars, appended, dropped, told>>
        /\ lastEmit' = lastEmit /\ timer' = timer /\ now' = now /\ finished' = finished
    BY <1>7 DEF vars, emitVars
  <2> QED
    BY <1>1, <2>1, QuietStep
<1> QED
  BY <1>2, <1>3, <1>4, <1>5, <1>6, <1>7 DEF Next

LEMMA OutputStart == Init => OutputInv /\ Promised!OutputInit
<1> SUFFICES ASSUME Init PROVE OutputInv /\ Promised!OutputInit
  OBVIOUS
<1>1. /\ pending = [s \in Streams |-> <<>>] /\ overflowed = [s \in Streams |-> FALSE]
      /\ combined = <<>> /\ appended = <<>> /\ dropped = 0
      /\ lastEmit = Never /\ timer = Never /\ now = 0
      /\ finished = FALSE /\ told = <<>>
  BY DEF Init
<1>2. Len(combined) = 0 /\ Len(appended) = 0
  BY <1>1
<1>3. Announced = 0
  BY <1>1, <1>2 DEF Announced
<1>4. LogTyped
  BY <1>1, EmptySeq DEF LogTyped, Bytes
<1>5. AllCounted
  <2>1. Lines(0, 0) = <<>>
    BY DEF Lines
  <2> QED
    BY <1>1, <1>2, <1>3, <2>1 DEF AllCounted
<1>6. Clocked /\ Emitted
  BY <1>1, EmptySeq DEF Clocked, Emitted
<1>7. OutputTypeOK
  <2>1. Len(<<>>) <= MaxPending /\ Newlines(<<>>) = {} /\ Len(<<>>) <= MaxLines
    BY OutputAssumption DEF Newlines
  <2> QED
    BY <1>1, <2>1 DEF OutputTypeOK
<1>8. Promised!OutputInit
  BY <1>1, <1>2 DEF Promised!OutputInit
<1> QED
  BY <1>4, <1>5, <1>6, <1>7, <1>8 DEF OutputInv

LEMMA PromiseStep ==
    ASSUME OutputInv, [Next]_vars
    PROVE  [Promised!OutputNext]_(Promised!outputVars)
<1>1. Len(combined) \in Nat /\ Len(combined') \in Nat
  BY OutputStep, LenProperties DEF OutputInv, LogTyped
<1>2. ASSUME AllTold
      PROVE  Promised!Tells \/ (Promised!Silent /\ Announced = Len(combined'))
  BY <1>2 DEF AllTold, Announced, Promised!Tells, Promised!Silent, Promised!Event, Event
<1>3. NoneTold => Promised!Silent
  BY DEF NoneTold, Announced, Promised!Silent
<1>4. CASE /\ AllTold \/ NoneTold
           /\ Len(combined') >= Len(combined) /\ finished' = finished
  BY <1>1, <1>2, <1>3, <1>4 DEF Promised!OutputNext, Promised!Logs
<1>5. CASE /\ AllTold
           /\ Len(combined') >= Len(combined) /\ finished' = TRUE
  BY <1>1, <1>2, <1>5 DEF Promised!OutputNext, Promised!Finishes, Announced
<1> QED
  BY <1>4, <1>5, OutputStep

(* Lines wait only as long as the log has them, within the bounds on what may
   wait: an unfinished line, the lines to emit, those of one event. *)
THEOREM OutputInvariance == Spec => [](OutputInv)
<1>1. Init => OutputInv
  BY OutputStart
<1>2. OutputInv /\ [Next]_vars => OutputInv'
  BY OutputStep
<1> QED
  BY <1>1, <1>2, PTL DEF Spec

(* The events tell of every line of the log in its place, shown or counted as
   dropped, none twice: the manager's output (process-output.ts), with its two
   streams, its throttle and its timers, implements OutputPromise. *)
THEOREM OutputPromiseKept == Spec => OutputIsPromised
<1>1. Init => Promised!OutputInit
  BY OutputStart
<1>2. OutputInv /\ [Next]_vars => [Promised!OutputNext]_(Promised!outputVars)
  BY PromiseStep
<1> QED
  BY <1>1, <1>2, OutputInvariance, PTL DEF Spec, OutputIsPromised, Promised!OutputSpec

-----------------------------------------------------------------------------
(* The lines of bytes that go on: a list of lines is continued where the last
   of them ended, and what was unterminated goes on with what follows. *)

LEMMA PrefixOfItself ==
    ASSUME NEW X, NEW p \in Seq(X)
    PROVE  IsPrefix(p, p)
<1>1. Len(p) \in Nat
  BY LenProperties
<1> QED
  BY <1>1 DEF IsPrefix

LEMMA StillPrefix ==
    ASSUME NEW X, NEW p \in Seq(X), NEW l \in Seq(X), NEW x \in Seq(X), IsPrefix(p, l)
    PROVE  IsPrefix(p, l \o x)
<1> DEFINE j == l \o x
           n == Len(p)
<1>1. Len(p) \in Nat /\ Len(l) \in Nat /\ Len(x) \in Nat /\ n \in Nat
  BY LenProperties
<1>2. n <= Len(l) /\ SubSeq(p, 1, n) = SubSeq(l, 1, n)
  BY DEF IsPrefix
<1>3. /\ j \in Seq(X) /\ Len(j) = Len(l) + Len(x)
      /\ \A i \in 1 .. Len(l) + Len(x) : j[i] = IF i <= Len(l) THEN l[i] ELSE x[i - Len(l)]
  BY ConcatProperties
<1> HIDE DEF j, n
<1>4. \A i \in 1 .. n : l[i] \in X /\ j[i] = l[i] /\ j[i] \in X
  BY <1>1, <1>2, <1>3, ElementOfSeq
<1>5. /\ SubSeq(l, 1, n) \in Seq(X) /\ SubSeq(j, 1, n) \in Seq(X)
      /\ Len(SubSeq(l, 1, n)) = n /\ Len(SubSeq(j, 1, n)) = n
      /\ \A i \in 1 .. n : SubSeq(l, 1, n)[i] = l[i] /\ SubSeq(j, 1, n)[i] = j[i]
  <2>1. 1 \in Int /\ n \in Int /\ n - 1 + 1 = n /\ \A i \in 1 .. n : 1 + i - 1 = i
    BY <1>1
  <2>2. /\ SubSeq(l, 1, n) \in Seq(X)
        /\ Len(SubSeq(l, 1, n)) = IF 1 <= n THEN n - 1 + 1 ELSE 0
        /\ \A i \in 1 .. n - 1 + 1 : SubSeq(l, 1, n)[i] = l[1 + i - 1]
    BY <1>4, <2>1, SubSeqProperties
  <2>3. /\ SubSeq(j, 1, n) \in Seq(X)
        /\ Len(SubSeq(j, 1, n)) = IF 1 <= n THEN n - 1 + 1 ELSE 0
        /\ \A i \in 1 .. n - 1 + 1 : SubSeq(j, 1, n)[i] = j[1 + i - 1]
    BY <1>4, <2>1, SubSeqProperties
  <2> QED
    BY <1>1, <2>1, <2>2, <2>3
<1>6. SubSeq(l, 1, n) = SubSeq(j, 1, n)
  BY <1>4, <1>5, SeqEqual
<1> QED
  BY <1>1, <1>2, <1>3, <1>6 DEF IsPrefix, j, n

LEMMA PartOfFirst ==
    ASSUME NEW a \in Bytes, NEW c \in Bytes,
           NEW from \in 1 .. Len(a) + 1, NEW to \in Int, to <= Len(a)
    PROVE  SubSeq(a \o c, from, to) = SubSeq(a, from, to)
<1> DEFINE j == a \o c
<1>1. Len(a) \in Nat /\ Len(c) \in Nat
  BY LenProperties DEF Bytes
<1>2. /\ j \in Bytes /\ Len(j) = Len(a) + Len(c)
      /\ \A i \in 1 .. Len(a) + Len(c) : j[i] = IF i <= Len(a) THEN a[i] ELSE c[i - Len(a)]
  BY ConcatProperties DEF Bytes
<1> HIDE DEF j
<1>3. from \in 1 .. Len(j) + 1 /\ to <= Len(j)
  BY <1>1, <1>2
<1>4. /\ SubSeq(a, from, to) \in Bytes
      /\ Len(SubSeq(a, from, to)) = IF from <= to THEN to - from + 1 ELSE 0
      /\ \A i \in 1 .. to - from + 1 : SubSeq(a, from, to)[i] = a[from + i - 1]
  BY PartIs
<1>5. /\ SubSeq(j, from, to) \in Bytes
      /\ Len(SubSeq(j, from, to)) = IF from <= to THEN to - from + 1 ELSE 0
      /\ \A i \in 1 .. to - from + 1 : SubSeq(j, from, to)[i] = j[from + i - 1]
  BY <1>2, <1>3, PartIs
<1>6. ASSUME NEW i \in 1 .. Len(SubSeq(j, from, to))
      PROVE  SubSeq(j, from, to)[i] = SubSeq(a, from, to)[i]
  <2>1. i \in 1 .. to - from + 1 /\ from + i - 1 \in 1 .. Len(a)
    BY <1>1, <1>5
  <2> QED
    BY <1>1, <1>2, <1>4, <1>5, <2>1
<1>7. SubSeq(j, from, to) = SubSeq(a, from, to)
  BY <1>4, <1>5, <1>6, SeqEqual DEF Bytes
<1> QED
  BY <1>7 DEF j

LEMMA PartOfRest ==
    ASSUME NEW a \in Bytes, NEW c \in Bytes,
           NEW from \in 1 .. Len(c) + 1, NEW to \in Int, to <= Len(c)
    PROVE  SubSeq(a \o c, Len(a) + from, Len(a) + to) = SubSeq(c, from, to)
<1> DEFINE j == a \o c
           f == Len(a) + from
           t == Len(a) + to
<1>1. Len(a) \in Nat /\ Len(c) \in Nat
  BY LenProperties DEF Bytes
<1>2. /\ j \in Bytes /\ Len(j) = Len(a) + Len(c)
      /\ \A i \in 1 .. Len(a) + Len(c) : j[i] = IF i <= Len(a) THEN a[i] ELSE c[i - Len(a)]
  BY ConcatProperties DEF Bytes
<1>3. /\ f \in 1 .. Len(j) + 1 /\ t \in Int /\ t <= Len(j) /\ t - f = to - from
      /\ f = Len(a) + from /\ f \in Int /\ from \in Int /\ (f <= t <=> from <= to)
  BY <1>1, <1>2
<1> HIDE DEF j, f, t
<1>4. /\ SubSeq(c, from, to) \in Bytes
      /\ Len(SubSeq(c, from, to)) = IF from <= to THEN to - from + 1 ELSE 0
      /\ \A i \in 1 .. to - from + 1 : SubSeq(c, from, to)[i] = c[from + i - 1]
  BY PartIs
<1>5. /\ SubSeq(j, f, t) \in Bytes
      /\ Len(SubSeq(j, f, t)) = IF f <= t THEN t - f + 1 ELSE 0
      /\ \A i \in 1 .. t - f + 1 : SubSeq(j, f, t)[i] = j[f + i - 1]
  BY <1>2, <1>3, PartIs
<1>6. /\ Len(SubSeq(j, f, t)) = Len(SubSeq(c, from, to))
      /\ Len(SubSeq(j, f, t)) = IF from <= to THEN to - from + 1 ELSE 0
  BY <1>3, <1>4, <1>5
<1>7. ASSUME NEW i \in 1 .. Len(SubSeq(j, f, t))
      PROVE  SubSeq(j, f, t)[i] = SubSeq(c, from, to)[i]
  <2>1. i \in 1 .. to - from + 1 /\ from + i - 1 \in 1 .. Len(c) /\ i \in Int
    BY <1>1, <1>6
  <2> DEFINE p == f + i - 1
             q == from + i - 1
  <2>2. p = Len(a) + q /\ q \in 1 .. Len(c)
    BY <1>1, <1>3, <2>1
  <2> HIDE DEF p, q
  <2>3. p \in 1 .. Len(a) + Len(c) /\ ~ (p <= Len(a)) /\ p - Len(a) = q
    BY <1>1, <2>2
  <2>4. j[p] = c[q]
    BY <1>2, <2>3
  <2>5. SubSeq(c, from, to)[i] = c[q] /\ SubSeq(j, f, t)[i] = j[p]
    BY <1>3, <1>4, <1>5, <2>1 DEF p, q
  <2> QED
    BY <2>4, <2>5
<1>8. SubSeq(j, f, t) = SubSeq(c, from, to)
  BY <1>4, <1>5, <1>6, <1>7, SeqEqual DEF Bytes
<1> QED
  BY <1>8 DEF j, f, t

LEMMA NewlinesJoined ==
    ASSUME NEW a \in Bytes, NEW c \in Bytes
    PROVE  /\ Continues(Newlines(a \o c), Len(a), Newlines(a), Len(c), Newlines(c))
           /\ a \o c \in Bytes /\ Len(a \o c) = Len(a) + Len(c)
<1> DEFINE j == a \o c
<1>1. /\ Len(a) \in Nat /\ Len(c) \in Nat /\ DOMAIN a = 1 .. Len(a) /\ DOMAIN c = 1 .. Len(c)
  BY LenProperties DEF Bytes
<1>2. /\ j \in Bytes /\ Len(j) = Len(a) + Len(c)
      /\ \A i \in 1 .. Len(a) + Len(c) : j[i] = IF i <= Len(a) THEN a[i] ELSE c[i - Len(a)]
  BY ConcatProperties DEF Bytes
<1> HIDE DEF j
<1>3. DOMAIN j = 1 .. Len(a) + Len(c)
  BY <1>2, LenProperties DEF Bytes
<1>4. Newlines(j) \subseteq 1 .. Len(a) + Len(c)
  BY <1>3 DEF Newlines
<1>5. \A i \in 1 .. Len(a) : i \in Newlines(j) <=> i \in Newlines(a)
  BY <1>1, <1>2, <1>3 DEF Newlines
<1>6. ASSUME NEW i \in 1 .. Len(c)
      PROVE  Len(a) + i \in Newlines(j) <=> i \in Newlines(c)
  <2>1. /\ Len(a) + i \in 1 .. Len(a) + Len(c) /\ ~ (Len(a) + i <= Len(a))
        /\ Len(a) + i - Len(a) = i
    BY <1>1
  <2>2. j[Len(a) + i] = c[i]
    BY <1>2, <2>1
  <2> QED
    BY <1>1, <1>3, <2>1, <2>2 DEF Newlines
<1> QED
  BY <1>2, <1>4, <1>5, <1>6 DEF Continues, j

LEMMA EndsJoined ==
    ASSUME NEW a \in Bytes, NEW c \in Bytes
    PROVE  /\ Cardinality(Newlines(a \o c)) = Cardinality(Newlines(a)) + Cardinality(Newlines(c))
           /\ \A k \in 0 .. Cardinality(Newlines(a)) : LineEnd(a \o c, k) = LineEnd(a, k)
           /\ \A k \in 1 .. Cardinality(Newlines(c)) :
                 LineEnd(a \o c, Cardinality(Newlines(a)) + k) = Len(a) + LineEnd(c, k)
<1> DEFINE m == Len(a)
           n == Len(c)
           S == Newlines(a)
           T == Newlines(c)
           U == Newlines(a \o c)
<1>1. /\ m \in Nat /\ n \in Nat /\ Continues(U, m, S, n, T)
      /\ S \in SUBSET (1 .. m) /\ T \in SUBSET (1 .. n)
  BY NewlinesJoined, NewlinesCounted, LenProperties DEF Bytes
<1>2. /\ \A k \in Nat : LineEnd(a, k) = IF k = 0 THEN 0 ELSE Nth(S, k)
      /\ \A k \in Nat : LineEnd(c, k) = IF k = 0 THEN 0 ELSE Nth(T, k)
      /\ \A k \in Nat : LineEnd(a \o c, k) = IF k = 0 THEN 0 ELSE Nth(U, k)
  BY DEF LineEnd
<1>3. Cardinality(S) \in Nat /\ Cardinality(T) \in Nat
  BY NewlinesCounted
<1> HIDE DEF m, n, S, T, U
<1>4. Cardinality(U) = Cardinality(S) + Cardinality(T)
  BY <1>1, JoinedCount
<1>5. ASSUME NEW k \in 0 .. Cardinality(S)
      PROVE  LineEnd(a \o c, k) = LineEnd(a, k)
  <2>1. CASE k = 0
    BY <1>2, <2>1
  <2>2. CASE k # 0
    <3>1. k \in 1 .. Cardinality(S) /\ k \in Nat
      BY <1>3, <2>2
    <3>2. Nth(U, k) = Nth(S, k)
      BY <1>1, <3>1, JoinedFirst
    <3> QED
      BY <1>2, <2>2, <3>1, <3>2
  <2> QED
    BY <2>1, <2>2
<1>6. ASSUME NEW k \in 1 .. Cardinality(T)
      PROVE  LineEnd(a \o c, Cardinality(S) + k) = m + LineEnd(c, k)
  <2> DEFINE l == Cardinality(S) + k
  <2>1. After(l, Cardinality(S), k) /\ l \in Nat /\ l # 0 /\ k \in Nat /\ k # 0
    BY <1>3 DEF After
  <2> HIDE DEF l
  <2>2. After(Nth(U, l), m, Nth(T, k))
    BY <1>1, <2>1, JoinedThen
  <2>3. LineEnd(a \o c, l) = Nth(U, l) /\ LineEnd(c, k) = Nth(T, k)
    BY <1>2, <2>1
  <2> QED
    BY <2>1, <2>2, <2>3 DEF After
<1> QED
  BY <1>4, <1>5, <1>6 DEF S, T, U, m

(* Where the last line ends. *)
LastEnd(bytes) == Max({0} \cup Newlines(bytes))

LEMMA LastEndIs ==
    ASSUME NEW bytes \in Bytes
    PROVE  /\ LastEnd(bytes) \in 0 .. Len(bytes)
           /\ LastEnd(bytes) \in {0} \cup Newlines(bytes)
           /\ \A i \in Newlines(bytes) : i <= LastEnd(bytes)
           /\ LineEnd(bytes, Cardinality(Newlines(bytes))) = LastEnd(bytes)
<1> DEFINE N == Newlines(bytes)
           M == Cardinality(N)
           T == {0} \cup N
<1>1. N \in SUBSET (1 .. Len(bytes)) /\ Len(bytes) \in Nat /\ M \in Nat /\ IsFiniteSet(N)
  BY NewlinesCounted, LenProperties DEF Bytes
<1>2. T \in SUBSET (0 .. Len(bytes)) /\ T # {}
  BY <1>1
<1>3. /\ LastEnd(bytes) \in T /\ \A i \in T : i <= LastEnd(bytes)
  BY <1>1, <1>2, Greatest DEF LastEnd
<1>4. LastEnd(bytes) \in 0 .. Len(bytes) /\ \A i \in N : i <= LastEnd(bytes)
  BY <1>2, <1>3
<1>5. LineEnd(bytes, M) = LastEnd(bytes)
  <2>1. CASE M = 0
    <3>1. N = {}
      BY <1>1, <2>1, FS_EmptySet
    <3> QED
      BY <1>3, <2>1, <3>1 DEF LineEnd
  <2>2. CASE M # 0
    <3>1. M \in 1 .. M
      BY <1>1, <2>2
    <3> DEFINE e == Nth(N, M)
    <3>2. e \in N /\ e = Nth(N, M)
      BY <1>1, <3>1, NthIs
    <3> HIDE DEF N, e
    <3>3. /\ \A i \in N : Rank(N, i) \in 1 .. M /\ Nth(N, Rank(N, i)) = i
          /\ \A k, l \in 1 .. M : k < l => Nth(N, k) < Nth(N, l)
      BY <1>1, NthInOrder
    <3>4. ASSUME NEW i \in N PROVE i <= e
      <4>1. Rank(N, i) \in 1 .. M /\ Nth(N, Rank(N, i)) = i
        BY <3>3
      <4>2. CASE Rank(N, i) = M
        <5>1. e = i
          BY <3>2, <4>1, <4>2, Zenon
        <5>2. e \in Int
          BY <1>1, <3>2
        <5> QED
          BY <5>1, <5>2
      <4>3. CASE Rank(N, i) < M
        <5>1. Nth(N, Rank(N, i)) < Nth(N, M)
          BY <3>1, <3>3, <4>1, <4>3
        <5>2. i < e
          BY <3>2, <4>1, <5>1
        <5>3. e \in Int /\ i \in Int
          BY <1>1, <3>2, <4>1
        <5> QED
          BY <5>2, <5>3
      <4> QED
        BY <1>1, <4>1, <4>2, <4>3
    <3>5. e = LastEnd(bytes)
      <4>1. e \in 1 .. Len(bytes) /\ e <= LastEnd(bytes)
        BY <1>1, <1>4, <3>2
      <4>2. LastEnd(bytes) <= e
        BY <1>3, <3>4, <4>1
      <4> QED
        BY <1>4, <4>1, <4>2
    <3>6. LineEnd(bytes, M) = e
      BY <2>2, <3>2 DEF LineEnd, N
    <3> QED
      BY <3>5, <3>6
  <2> QED
    BY <2>1, <2>2
<1> QED
  BY <1>3, <1>4, <1>5

LEMMA TerminatedTyped ==
    ASSUME NEW bytes \in Bytes
    PROVE  /\ Terminated(bytes) \in Seq(Bytes)
           /\ Len(Terminated(bytes)) = Cardinality(Newlines(bytes))
<1>1. Cardinality(Newlines(bytes)) \in Nat
  BY NewlinesCounted
<1>2. /\ DOMAIN Terminated(bytes) = 1 .. Cardinality(Newlines(bytes))
      /\ \A n \in DOMAIN Terminated(bytes) : Terminated(bytes)[n] \in Bytes
  BY LinesAreBytes
<1>3. Terminated(bytes) = [n \in 1 .. Cardinality(Newlines(bytes)) |-> Terminated(bytes)[n]]
  BY <1>2 DEF Terminated
<1> QED
  BY <1>1, <1>2, <1>3

LEMMA UnterminatedIs ==
    ASSUME NEW bytes \in Bytes
    PROVE  /\ Unterminated(bytes) = SubSeq(bytes, LastEnd(bytes) + 1, Len(bytes))
           /\ Newlines(bytes) = {} => /\ Terminated(bytes) = <<>>
                                      /\ Unterminated(bytes) = bytes
                                      /\ LastEnd(bytes) = 0
<1>1. Unterminated(bytes) = SubSeq(bytes, LastEnd(bytes) + 1, Len(bytes))
  BY DEF Unterminated, LastEnd
<1>2. ASSUME Newlines(bytes) = {}
      PROVE  /\ Terminated(bytes) = <<>> /\ Unterminated(bytes) = bytes
             /\ LastEnd(bytes) = 0
  <2>1. Cardinality(Newlines(bytes)) = 0
    BY <1>2, FS_EmptySet
  <2>2. Terminated(bytes) = <<>>
    BY <2>1 DEF Terminated
  <2>3. LastEnd(bytes) = 0
    BY <1>2, LastEndIs
  <2>4. SubSeq(bytes, 1, Len(bytes)) = bytes
    BY SubSeqFull DEF Bytes
  <2> QED
    BY <1>1, <2>2, <2>3, <2>4
<1> QED
  BY <1>1, <1>2

(* The list of lines goes on where a line has ended. *)
LEMMA GoesOnAtEnd ==
    ASSUME NEW a \in Bytes, NEW c \in Bytes, LastEnd(a) = Len(a)
    PROVE  /\ Terminated(a \o c) = Terminated(a) \o Terminated(c)
           /\ Unterminated(a \o c) = Unterminated(c)
<1> DEFINE b == a \o c
           m == Len(a)
           M == Cardinality(Newlines(a))
           K == Cardinality(Newlines(c))
<1>1. /\ b \in Bytes /\ Len(b) = m + Len(c) /\ m \in Nat /\ Len(c) \in Nat
      /\ M \in Nat /\ K \in Nat
  BY NewlinesJoined, NewlinesCounted, LenProperties DEF Bytes
<1>2. /\ Cardinality(Newlines(b)) = M + K
      /\ \A k \in 0 .. M : LineEnd(b, k) = LineEnd(a, k)
      /\ \A k \in 1 .. K : LineEnd(b, M + k) = m + LineEnd(c, k)
  BY EndsJoined
<1>3. LineEnd(a, M) = m /\ LineEnd(c, 0) = 0
  BY LastEndIs DEF LineEnd
<1>4. \A k \in 0 .. K : LineEnd(b, M + k) = m + LineEnd(c, k)
  <2> SUFFICES ASSUME NEW k \in 0 .. K
               PROVE  LineEnd(b, M + k) = m + LineEnd(c, k)
    OBVIOUS
  <2>1. CASE k = 0
    <3>1. M + k = M /\ M \in 0 .. M /\ m + 0 = m
      BY <1>1, <2>1
    <3> QED
      BY <1>2, <1>3, <2>1, <3>1
  <2>2. CASE k # 0
    BY <1>1, <1>2, <2>2
  <2> QED
    BY <2>1, <2>2
<1>5. /\ \A k \in 0 .. M : LineEnd(a, k) \in 0 .. m
      /\ \A k \in 0 .. K : LineEnd(c, k) \in 0 .. Len(c)
  BY LineEndTyped
<1>6. /\ Terminated(a) \in Seq(Bytes) /\ Len(Terminated(a)) = M
      /\ Terminated(c) \in Seq(Bytes) /\ Len(Terminated(c)) = K
      /\ Terminated(b) \in Seq(Bytes) /\ Len(Terminated(b)) = M + K
  BY <1>1, <1>2, TerminatedTyped
<1>7. /\ \A k \in 1 .. M :
            Terminated(a)[k] = SubSeq(a, LineEnd(a, k - 1) + 1, LineEnd(a, k) - 1)
      /\ \A k \in 1 .. K :
            Terminated(c)[k] = SubSeq(c, LineEnd(c, k - 1) + 1, LineEnd(c, k) - 1)
      /\ \A k \in 1 .. M + K :
            Terminated(b)[k] = SubSeq(b, LineEnd(b, k - 1) + 1, LineEnd(b, k) - 1)
  <2>1. \A x : \A k \in 1 .. Cardinality(Newlines(x)) :
           Terminated(x)[k] = SubSeq(x, LineEnd(x, k - 1) + 1, LineEnd(x, k) - 1)
    BY DEF Terminated
  <2> QED
    BY <1>2, <2>1
<1> DEFINE J == Terminated(a) \o Terminated(c)
<1>8. /\ J \in Seq(Bytes) /\ Len(J) = M + K
      /\ \A k \in 1 .. M + K :
            J[k] = IF k <= M THEN Terminated(a)[k] ELSE Terminated(c)[k - M]
  <2>1. /\ J \in Seq(Bytes) /\ Len(J) = Len(Terminated(a)) + Len(Terminated(c))
        /\ \A k \in 1 .. Len(Terminated(a)) + Len(Terminated(c)) :
              J[k] = IF k <= Len(Terminated(a)) THEN Terminated(a)[k]
                     ELSE Terminated(c)[k - Len(Terminated(a))]
    BY <1>6, ConcatProperties
  <2>2. Len(Terminated(a)) = M /\ Len(Terminated(c)) = K
    BY <1>6
  <2> HIDE DEF J, M, K
  <2> QED
    BY <2>1, <2>2
<1>11. b = a \o c /\ m = Len(a) /\ LastEnd(a) = m
  OBVIOUS
<1> HIDE DEF b, m, M, K, J
<1>9. ASSUME NEW k \in 1 .. M + K
      PROVE  Terminated(b)[k] = J[k]
  <2>1. CASE k <= M
    <3> DEFINE from == LineEnd(a, k - 1) + 1
               to == LineEnd(a, k) - 1
    <3>1. k \in 1 .. M /\ k - 1 \in 0 .. M /\ k \in 0 .. M
      BY <1>1, <2>1
    <3>2. from \in 1 .. Len(a) + 1 /\ to \in Int /\ to <= Len(a)
      BY <1>1, <1>5, <1>11, <3>1
    <3>3. Terminated(b)[k] = SubSeq(b, from, to) /\ J[k] = SubSeq(a, from, to)
      BY <1>2, <1>7, <1>8, <2>1, <3>1
    <3> HIDE DEF from, to
    <3> QED
      BY <1>11, <3>2, <3>3, PartOfFirst
  <2>2. CASE ~ (k <= M)
    <3> DEFINE l == k - M
               from == LineEnd(c, l - 1) + 1
               to == LineEnd(c, l) - 1
    <3>1. l \in 1 .. K /\ l - 1 \in 0 .. K /\ l \in 0 .. K /\ k = M + l /\ k - 1 = M + (l - 1)
      BY <1>1, <2>2
    <3>2. from \in 1 .. Len(c) + 1 /\ to \in Int /\ to <= Len(c)
      BY <1>1, <1>5, <3>1
    <3>3. LineEnd(b, k - 1) = m + LineEnd(c, l - 1) /\ LineEnd(b, k) = m + LineEnd(c, l)
      BY <1>4, <3>1
    <3>4. LineEnd(b, k - 1) + 1 = Len(a) + from /\ LineEnd(b, k) - 1 = Len(a) + to
      BY <1>1, <1>5, <1>11, <3>1, <3>3
    <3>5. J[k] = SubSeq(c, from, to)
      BY <1>7, <1>8, <2>2, <3>1
    <3>6. Terminated(b)[k] = SubSeq(b, LineEnd(b, k - 1) + 1, LineEnd(b, k) - 1)
      BY <1>7
    <3> HIDE DEF from, to, l
    <3>7. SubSeq(a \o c, Len(a) + from, Len(a) + to) = SubSeq(c, from, to)
      BY <3>2, PartOfRest
    <3> QED
      BY <1>11, <3>4, <3>5, <3>6, <3>7
  <2> QED
    BY <2>1, <2>2
<1>10. Terminated(b) = J
  BY <1>6, <1>8, <1>9, SeqEqual
<1>12. Unterminated(b) = Unterminated(c)
  <2>1. LastEnd(b) = m + LastEnd(c)
    <3>1. K \in 0 .. K
      BY <1>1
    <3>2. LineEnd(b, M + K) = m + LineEnd(c, K)
      BY <1>4, <3>1
    <3>3. LineEnd(b, M + K) = LastEnd(b)
      BY <1>1, <1>2, LastEndIs
    <3>4. LineEnd(c, K) = LastEnd(c)
      BY LastEndIs DEF K
    <3> QED
      BY <3>2, <3>3, <3>4
  <2> DEFINE from == LastEnd(c) + 1
             to == Len(c)
  <2>2. from \in 1 .. Len(c) + 1 /\ to \in Int /\ to <= Len(c)
    BY <1>1, LastEndIs
  <2>3. LastEnd(b) + 1 = Len(a) + from /\ Len(b) = Len(a) + to
    <3>1. LastEnd(c) \in Int
      BY <1>1, LastEndIs
    <3> QED
      BY <1>1, <1>11, <2>1, <3>1
  <2>4. Unterminated(b) = SubSeq(b, LastEnd(b) + 1, Len(b)) /\ Unterminated(c) = SubSeq(c, from, to)
    BY <1>1, UnterminatedIs
  <2> HIDE DEF from, to
  <2>5. SubSeq(a \o c, Len(a) + from, Len(a) + to) = SubSeq(c, from, to)
    BY <2>2, PartOfRest
  <2> QED
    BY <1>11, <2>3, <2>4, <2>5
<1> QED
  BY <1>10, <1>12 DEF b, J

(* Bytes are the lines that ended, and what follows them. *)
LEMMA WhereLinesEnd ==
    ASSUME NEW a \in Bytes
    PROVE  \E h \in Bytes :
              /\ LastEnd(h) = Len(h) /\ a = h \o Unterminated(a)
              /\ Terminated(h) = Terminated(a)
<1> DEFINE last == LastEnd(a)
           h == SubSeq(a, 1, last)
           u == Unterminated(a)
<1>1. /\ last \in 0 .. Len(a) /\ last \in {0} \cup Newlines(a)
      /\ \A i \in Newlines(a) : i <= last
      /\ Len(a) \in Nat /\ DOMAIN a = 1 .. Len(a)
  BY LastEndIs, LenProperties DEF Bytes
<1>2. u = SubSeq(a, last + 1, Len(a)) /\ u \in Bytes /\ Newlines(u) = {}
  BY UnterminatedIs, LinesAreBytes
<1> HIDE DEF last, u
<1>3. h \in Bytes /\ Len(h) = last /\ \A i \in 1 .. last : h[i] = a[i]
  <2>1. /\ 1 \in 1 .. Len(a) + 1 /\ last \in Int /\ last <= Len(a) /\ last - 1 + 1 = last
        /\ \A i \in 1 .. last : 1 + i - 1 = i
    BY <1>1
  <2>2. /\ h \in Bytes
        /\ Len(h) = IF 1 <= last THEN last - 1 + 1 ELSE 0
        /\ \A i \in 1 .. last - 1 + 1 : h[i] = a[1 + i - 1]
    BY <2>1, PartIs
  <2> HIDE DEF h
  <2> QED
    BY <1>1, <2>1, <2>2
<1>4. a = h \o u
  <2>1. 1 \in 1 .. Len(a) + 1 /\ last \in 1 - 1 .. Len(a) /\ Len(a) \in last .. Len(a)
    BY <1>1
  <2>2. h \o SubSeq(a, last + 1, Len(a)) = SubSeq(a, 1, Len(a))
    BY <2>1, ConcatAdjacentSubSeq DEF Bytes
  <2>3. SubSeq(a, 1, Len(a)) = a
    BY SubSeqFull DEF Bytes
  <2> QED
    BY <1>2, <2>2, <2>3
<1> HIDE DEF h
<1>5. LastEnd(h) = last
  <2>1. LastEnd(h) \in 0 .. last /\ \A i \in Newlines(h) : i <= LastEnd(h)
    BY <1>3, LastEndIs
  <2>2. CASE last = 0
    BY <2>1, <2>2
  <2>3. CASE last # 0
    <3>1. last \in 1 .. last /\ a[last] = Newline
      BY <1>1, <2>3 DEF Newlines
    <3>2. DOMAIN h = 1 .. last /\ h[last] = Newline
      BY <1>3, <3>1, LenProperties DEF Bytes
    <3>3. last \in Newlines(h)
      BY <3>1, <3>2 DEF Newlines
    <3>4. last <= LastEnd(h)
      BY <2>1, <3>3
    <3> QED
      BY <1>1, <2>1, <3>4
  <2> QED
    BY <2>2, <2>3
<1>6. Terminated(h \o u) = Terminated(h) \o Terminated(u)
  BY <1>2, <1>3, <1>5, GoesOnAtEnd
<1>7. Terminated(u) = <<>>
  BY <1>2, UnterminatedIs
<1>8. Terminated(h) \in Seq(Bytes)
  BY <1>3, TerminatedTyped
<1>9. Terminated(h) \o <<>> = Terminated(h)
  BY <1>8, ConcatEmptySeq
<1>10. Terminated(h) = Terminated(a)
  BY <1>4, <1>6, <1>7, <1>9
<1> QED
  BY <1>3, <1>4, <1>5, <1>10 DEF u

(* Bytes that follow continue what was unterminated. *)
LEMMA Continued ==
    ASSUME NEW a \in Bytes, NEW c \in Bytes
    PROVE  /\ Terminated(a \o c) = Terminated(a) \o Terminated(Unterminated(a) \o c)
           /\ Unterminated(a \o c) = Unterminated(Unterminated(a) \o c)
           /\ Unterminated(a) \o c \in Bytes
<1> DEFINE u == Unterminated(a)
<1>1. PICK h \in Bytes : /\ LastEnd(h) = Len(h) /\ a = h \o u
                         /\ Terminated(h) = Terminated(a)
  BY WhereLinesEnd
<1>2. u \in Bytes
  BY LinesAreBytes
<1> HIDE DEF u
<1>3. u \o c \in Bytes
  BY <1>2, NewlinesJoined
<1>4. a \o c = h \o (u \o c)
  BY <1>1, <1>2, ConcatAssociative DEF Bytes
<1>5. /\ Terminated(h \o (u \o c)) = Terminated(h) \o Terminated(u \o c)
      /\ Unterminated(h \o (u \o c)) = Unterminated(u \o c)
  BY <1>1, <1>3, GoesOnAtEnd
<1> QED
  BY <1>1, <1>3, <1>4, <1>5 DEF u

(* Two lines that are too long are logged alike when they start alike. *)
LEMMA CutAlike ==
    ASSUME NEW x \in Bytes, NEW y \in Bytes, Len(x) > MaxPending, Len(y) > MaxPending,
           \A i \in 1 .. MaxPending : x[i] = y[i]
    PROVE  buildBoundedLine(x) = buildBoundedLine(y)
<1>1. /\ MaxPending \in Nat /\ MaxPending >= 1 /\ Len(x) \in Nat /\ Len(y) \in Nat
      /\ MaxPending - 1 + 1 = MaxPending /\ \A i \in 1 .. MaxPending : 1 + i - 1 = i
  BY OutputAssumption, LenProperties DEF Bytes
<1> DEFINE Start(z) == SubSeq(z, 1, MaxPending)
<1>2. ASSUME NEW z \in Bytes, Len(z) > MaxPending, Len(z) \in Nat
      PROVE  /\ Start(z) \in Bytes /\ Len(Start(z)) = MaxPending
             /\ \A i \in 1 .. MaxPending : Start(z)[i] = z[i]
             /\ buildBoundedLine(z) = [text |-> Start(z), cut |-> TRUE]
  <2>1. 1 \in 1 .. Len(z) + 1 /\ MaxPending \in Int /\ MaxPending <= Len(z)
    BY <1>1, <1>2
  <2>2. /\ Start(z) \in Bytes
        /\ Len(Start(z)) = IF 1 <= MaxPending THEN MaxPending - 1 + 1 ELSE 0
        /\ \A i \in 1 .. MaxPending - 1 + 1 : Start(z)[i] = z[1 + i - 1]
    BY <2>1, PartIs
  <2>3. buildBoundedLine(z) = [text |-> Start(z), cut |-> TRUE]
    BY <1>1, <1>2 DEF buildBoundedLine
  <2> HIDE DEF Start
  <2> QED
    BY <1>1, <2>2, <2>3
<1> HIDE DEF Start
<1>3. /\ Start(x) \in Bytes /\ Len(Start(x)) = MaxPending
      /\ \A i \in 1 .. MaxPending : Start(x)[i] = x[i]
      /\ buildBoundedLine(x) = [text |-> Start(x), cut |-> TRUE]
  BY <1>1, <1>2
<1>4. /\ Start(y) \in Bytes /\ Len(Start(y)) = MaxPending
      /\ \A i \in 1 .. MaxPending : Start(y)[i] = y[i]
      /\ buildBoundedLine(y) = [text |-> Start(y), cut |-> TRUE]
  BY <1>1, <1>2
<1>5. Start(x) = Start(y)
  BY <1>3, <1>4, SeqEqual DEF Bytes
<1> QED
  BY <1>3, <1>4, <1>5

LEMMA WholeJoined ==
    ASSUME NEW x \in Bytes, NEW a \in Bytes, NEW b \in Bytes,
           Terminated(x) = Terminated(a) \o Terminated(b)
    PROVE  Whole(x) = Whole(a) \o Whole(b)
<1> DEFINE m == Cardinality(Newlines(a))
           n == Cardinality(Newlines(b))
           k == Cardinality(Newlines(x))
           J == Whole(a) \o Whole(b)
<1>1. /\ Whole(a) \in Seq(BoundedLines) /\ Len(Whole(a)) = m
      /\ \A i \in 1 .. m : Whole(a)[i] = buildBoundedLine(WithoutReturn(Terminated(a)[i]))
  BY WholeTyped
<1>2. /\ Whole(b) \in Seq(BoundedLines) /\ Len(Whole(b)) = n
      /\ \A i \in 1 .. n : Whole(b)[i] = buildBoundedLine(WithoutReturn(Terminated(b)[i]))
  BY WholeTyped
<1>3. /\ Whole(x) \in Seq(BoundedLines) /\ Len(Whole(x)) = k
      /\ \A i \in 1 .. k : Whole(x)[i] = buildBoundedLine(WithoutReturn(Terminated(x)[i]))
  BY WholeTyped
<1>4. m \in Nat /\ n \in Nat /\ k \in Nat
  BY NewlinesCounted
<1>5. /\ Terminated(a) \in Seq(Bytes) /\ Len(Terminated(a)) = m
      /\ Terminated(b) \in Seq(Bytes) /\ Len(Terminated(b)) = n
      /\ Terminated(x) \in Seq(Bytes) /\ Len(Terminated(x)) = k
  <2>1. Terminated(a) \in Seq(Bytes) /\ Len(Terminated(a)) = m
    BY TerminatedTyped
  <2>2. Terminated(b) \in Seq(Bytes) /\ Len(Terminated(b)) = n
    BY TerminatedTyped
  <2>3. Terminated(x) \in Seq(Bytes) /\ Len(Terminated(x)) = k
    BY TerminatedTyped
  <2> QED
    BY <2>1, <2>2, <2>3
<1>6. /\ J \in Seq(BoundedLines) /\ Len(J) = Len(Whole(a)) + Len(Whole(b))
      /\ \A i \in 1 .. Len(Whole(a)) + Len(Whole(b)) :
            J[i] = IF i <= Len(Whole(a)) THEN Whole(a)[i] ELSE Whole(b)[i - Len(Whole(a))]
  BY <1>1, <1>2, ConcatProperties
<1>7. /\ Len(Terminated(x)) = Len(Terminated(a)) + Len(Terminated(b))
      /\ \A i \in 1 .. Len(Terminated(a)) + Len(Terminated(b)) :
            Terminated(x)[i] = IF i <= Len(Terminated(a)) THEN Terminated(a)[i]
                               ELSE Terminated(b)[i - Len(Terminated(a))]
  <2> DEFINE T == Terminated(a) \o Terminated(b)
  <2>1. /\ Len(T) = Len(Terminated(a)) + Len(Terminated(b))
        /\ \A i \in 1 .. Len(Terminated(a)) + Len(Terminated(b)) :
              T[i] = IF i <= Len(Terminated(a)) THEN Terminated(a)[i]
                     ELSE Terminated(b)[i - Len(Terminated(a))]
    BY <1>5, ConcatProperties
  <2>2. Terminated(x) = T
    OBVIOUS
  <2> HIDE DEF T
  <2> QED
    BY <2>1, <2>2
<1> HIDE DEF m, n, k, J
<1>8. k = m + n /\ Len(J) = m + n
  BY <1>1, <1>2, <1>5, <1>6, <1>7
<1>9. ASSUME NEW i \in 1 .. k
      PROVE  Whole(x)[i] = J[i]
  <2>1. CASE i <= m
    <3>1. i \in 1 .. m
      BY <1>4, <2>1
    <3>2. Terminated(x)[i] = Terminated(a)[i]
      BY <1>5, <1>7, <1>8, <2>1
    <3>3. J[i] = Whole(a)[i]
      BY <1>1, <1>2, <1>6, <1>8, <2>1
    <3> QED
      BY <1>1, <1>3, <3>1, <3>2, <3>3
  <2>2. CASE ~ (i <= m)
    <3> DEFINE j == i - m
    <3>1. j \in 1 .. n
      BY <1>4, <1>8, <2>2
    <3>2. Terminated(x)[i] = Terminated(b)[j]
      BY <1>5, <1>7, <1>8, <2>2
    <3>3. J[i] = Whole(b)[j]
      BY <1>1, <1>2, <1>6, <1>8, <2>2
    <3> HIDE DEF j
    <3> QED
      BY <1>2, <1>3, <3>1, <3>2, <3>3
  <2> QED
    BY <2>1, <2>2
<1>10. Whole(x) = J
  BY <1>3, <1>6, <1>8, <1>9, SeqEqual
<1> QED
  BY <1>10 DEF J

LEMMA NothingWhole ==
    ASSUME NEW bytes \in Bytes, Newlines(bytes) = {}
    PROVE  Whole(bytes) = <<>>
<1>1. Terminated(bytes) = <<>>
  BY UnterminatedIs
<1> QED
  BY <1>1 DEF Whole

(* What is logged of an unterminated line before it ends. *)
Early(bytes) ==
    IF Len(Unterminated(bytes)) > MaxPending
    THEN <<buildBoundedLine(Unterminated(bytes))>> ELSE <<>>

LEMMA LinesOfTyped ==
    ASSUME NEW bytes \in Bytes
    PROVE  /\ LinesOf(bytes) = Whole(bytes) \o Early(bytes)
           /\ Whole(bytes) \in Seq(BoundedLines) /\ Early(bytes) \in Seq(BoundedLines)
           /\ LinesOf(bytes) \in Seq(BoundedLines)
<1>1. buildBoundedLine(Unterminated(bytes)) \in BoundedLines
  BY LinesAreBytes, LineIsBounded
<1>2. Early(bytes) \in Seq(BoundedLines)
  BY <1>1 DEF Early
<1>3. LinesOf(bytes) = Whole(bytes) \o Early(bytes)
  BY DEF LinesOf, Early
<1>4. Whole(bytes) \in Seq(BoundedLines)
  BY WholeTyped
<1> QED
  BY <1>2, <1>3, <1>4, ConcatProperties

(* Unless the unterminated line has been logged, what follows is logged with
   it. *)
LEMMA LinesGoOn ==
    ASSUME NEW a \in Bytes, NEW c \in Bytes, ~ (Len(Unterminated(a)) > MaxPending)
    PROVE  LinesOf(a \o c) = LinesOf(a) \o LinesOf(Unterminated(a) \o c)
<1> DEFINE u == Unterminated(a)
           x == a \o c
           y == u \o c
<1>1. /\ Terminated(x) = Terminated(a) \o Terminated(y)
      /\ Unterminated(x) = Unterminated(y) /\ y \in Bytes
  BY Continued
<1>2. x \in Bytes
  BY NewlinesJoined
<1>3. Early(a) = <<>> /\ Early(x) = Early(y)
  BY <1>1 DEF Early
<1> HIDE DEF x, y
<1>4. Whole(x) = Whole(a) \o Whole(y)
  BY <1>1, <1>2, WholeJoined
<1>5. /\ LinesOf(a) = Whole(a) \o Early(a) /\ Whole(a) \in Seq(BoundedLines)
      /\ LinesOf(y) = Whole(y) \o Early(y)
      /\ Whole(y) \in Seq(BoundedLines) /\ Early(y) \in Seq(BoundedLines)
      /\ LinesOf(x) = Whole(x) \o Early(x)
  BY <1>1, <1>2, LinesOfTyped
<1>6. LinesOf(a) = Whole(a)
  BY <1>3, <1>5, ConcatEmptySeq
<1>7. (Whole(a) \o Whole(y)) \o Early(y) = Whole(a) \o (Whole(y) \o Early(y))
  <2>1. /\ Whole(a) \in Seq(BoundedLines) /\ Whole(y) \in Seq(BoundedLines)
        /\ Early(y) \in Seq(BoundedLines)
    BY <1>5
  <2> QED
    BY <2>1, ConcatAssociative
<1>8. LinesOf(x) = LinesOf(a) \o LinesOf(y)
  BY <1>3, <1>4, <1>5, <1>6, <1>7
<1> QED
  BY <1>8 DEF x, y

(* What follows the first newline. *)
Past(bytes) ==
    IF Newlines(bytes) = {} THEN <<>>
    ELSE SubSeq(bytes, Min(Newlines(bytes)) + 1, Len(bytes))

(* The first newline ends the line that had none yet. *)
LEMMA FirstLine ==
    ASSUME NEW u \in Bytes, Newlines(u) = {}, NEW c \in Bytes, Newlines(c) # {}
    PROVE  \E w \in Bytes :
              /\ Past(c) \in Bytes /\ u \o c = w \o Past(c)
              /\ LastEnd(w) = Len(w) /\ Len(Terminated(w)) = 1
              /\ Terminated(w)[1] \in Bytes
              /\ Len(Terminated(w)[1]) \in Nat /\ Len(Terminated(w)[1]) >= Len(u)
              /\ \A i \in 1 .. Len(u) : Terminated(w)[1][i] = u[i]
<1> DEFINE i == Min(Newlines(c))
           start == SubSeq(c, 1, i)
           w == u \o start
<1>1. /\ Newlines(c) \in SUBSET Nat /\ Newlines(c) \subseteq 1 .. Len(c)
      /\ Len(c) \in Nat /\ DOMAIN c = 1 .. Len(c)
      /\ Len(u) \in Nat /\ DOMAIN u = 1 .. Len(u)
  BY NewlinesCounted, LenProperties DEF Bytes
<1>2. i \in Newlines(c) /\ \A y \in Newlines(c) : i <= y
  BY <1>1, Least
<1>3. i \in 1 .. Len(c) /\ c[i] = Newline
  BY <1>1, <1>2 DEF Newlines
<1>4. Past(c) = SubSeq(c, i + 1, Len(c))
  BY DEF Past
<1> HIDE DEF i
<1>5. Past(c) \in Bytes
  <2>1. i + 1 \in 1 .. Len(c) + 1 /\ Len(c) \in Int /\ Len(c) <= Len(c)
    BY <1>1, <1>3
  <2> QED
    BY <1>4, <2>1, PartIs
<1>6. start \in Bytes /\ Len(start) = i /\ \A k \in 1 .. i : start[k] = c[k]
  <2>1. /\ 1 \in 1 .. Len(c) + 1 /\ i \in Int /\ i <= Len(c) /\ i - 1 + 1 = i /\ 1 <= i
        /\ \A k \in 1 .. i : 1 + k - 1 = k
    BY <1>1, <1>3
  <2>2. /\ start \in Bytes
        /\ Len(start) = IF 1 <= i THEN i - 1 + 1 ELSE 0
        /\ \A k \in 1 .. i - 1 + 1 : start[k] = c[1 + k - 1]
    BY <2>1, PartIs
  <2> HIDE DEF start
  <2> QED
    BY <2>1, <2>2
<1>7. c = start \o Past(c)
  <2>1. 1 \in 1 .. Len(c) + 1 /\ i \in 1 - 1 .. Len(c) /\ Len(c) \in i .. Len(c)
    BY <1>1, <1>3
  <2>2. start \o SubSeq(c, i + 1, Len(c)) = SubSeq(c, 1, Len(c))
    BY <2>1, ConcatAdjacentSubSeq DEF Bytes
  <2>3. SubSeq(c, 1, Len(c)) = c
    BY SubSeqFull DEF Bytes
  <2> QED
    BY <1>4, <2>2, <2>3
<1> HIDE DEF start
<1>8. u \o c = w \o Past(c)
  <2> DEFINE rest == Past(c)
  <2>1. u \in Bytes /\ start \in Bytes /\ rest \in Bytes
    BY <1>5, <1>6
  <2> HIDE DEF rest
  <2>2. (u \o start) \o rest = u \o (start \o rest)
    BY <2>1, ConcatAssociative DEF Bytes
  <2>3. c = start \o rest
    BY <1>7 DEF rest
  <2> QED
    BY <2>2, <2>3, Zenon DEF rest
<1>9. /\ w \in Bytes /\ Len(w) = Len(u) + i
      /\ \A k \in 1 .. Len(u) + i : w[k] = IF k <= Len(u) THEN u[k] ELSE start[k - Len(u)]
      /\ DOMAIN w = 1 .. Len(u) + i
  <2>1. /\ w \in Bytes /\ Len(w) = Len(u) + Len(start)
        /\ \A k \in 1 .. Len(u) + Len(start) :
              w[k] = IF k <= Len(u) THEN u[k] ELSE start[k - Len(u)]
    BY <1>6, ConcatProperties DEF Bytes
  <2> HIDE DEF w
  <2>2. DOMAIN w = 1 .. Len(w)
    BY <2>1, LenProperties DEF Bytes
  <2> QED
    BY <1>6, <2>1, <2>2
<1> HIDE DEF w
<1> DEFINE last == Len(u) + i
<1>10. Newlines(w) = {last}
  <2>1. last \in Newlines(w)
    <3>1. last \in 1 .. Len(u) + i /\ ~ (last <= Len(u)) /\ last - Len(u) = i /\ i \in 1 .. i
      BY <1>1, <1>3
    <3>2. w[last] = Newline
      BY <1>3, <1>6, <1>9, <3>1
    <3> QED
      BY <1>9, <3>1, <3>2 DEF Newlines
  <2>2. ASSUME NEW k \in Newlines(w)
        PROVE  k = last
    <3>1. k \in 1 .. Len(u) + i /\ w[k] = Newline
      BY <1>9 DEF Newlines
    <3>2. ~ (k <= Len(u))
      <4>1. ASSUME k <= Len(u) PROVE FALSE
        <5>1. k \in 1 .. Len(u) /\ u[k] = Newline
          BY <1>1, <1>9, <3>1, <4>1
        <5> QED
          BY <1>1, <5>1 DEF Newlines
      <4> QED
        BY <4>1
    <3> DEFINE j == k - Len(u)
    <3>3. j \in 1 .. i /\ start[j] = Newline
      BY <1>1, <1>3, <1>9, <3>1, <3>2
    <3> HIDE DEF j
    <3>4. j \in 1 .. Len(c) /\ c[j] = Newline
      BY <1>1, <1>3, <1>6, <3>3
    <3>5. j \in Newlines(c)
      BY <1>1, <3>4 DEF Newlines
    <3>6. i <= j
      BY <1>2, <3>5
    <3> QED
      BY <1>1, <1>3, <3>1, <3>3, <3>6 DEF j
  <2> QED
    BY <2>1, <2>2, Zenon
<1>11. LastEnd(w) = last /\ last = Len(w) /\ last \in Nat /\ last >= Len(u) + 1
  <2>1. LastEnd(w) \in {0, last} /\ last <= LastEnd(w)
    BY <1>9, <1>10, LastEndIs
  <2> QED
    BY <1>1, <1>3, <1>9, <2>1
<1>12. Cardinality(Newlines(w)) = 1
  BY <1>10, FS_Singleton
<1>13. Len(Terminated(w)) = 1
  BY <1>9, <1>12, TerminatedTyped
<1>14. Terminated(w)[1] = SubSeq(w, 1, last - 1)
  <2>1. LineEnd(w, 1) = last
    BY <1>9, <1>11, <1>12, LastEndIs
  <2>2. LineEnd(w, 0) = 0
    BY DEF LineEnd
  <2>3. Terminated(w)[1] = SubSeq(w, LineEnd(w, 1 - 1) + 1, LineEnd(w, 1) - 1)
    <3>1. \A x : \A k \in 1 .. Cardinality(Newlines(x)) :
             Terminated(x)[k] = SubSeq(x, LineEnd(x, k - 1) + 1, LineEnd(x, k) - 1)
      BY DEF Terminated
    <3>2. 1 \in 1 .. Cardinality(Newlines(w))
      BY <1>12
    <3> QED
      BY <3>1, <3>2
  <2>4. 1 - 1 = 0 /\ 0 + 1 = 1
    OBVIOUS
  <2> QED
    BY <2>1, <2>2, <2>3, <2>4
<1> HIDE DEF last
<1>15. /\ Terminated(w)[1] \in Bytes
       /\ Len(Terminated(w)[1]) = last - 1
       /\ \A k \in 1 .. last - 1 : Terminated(w)[1][k] = w[k]
  <2> DEFINE e == last - 1
             line == SubSeq(w, 1, e)
  <2>1. /\ 1 \in 1 .. Len(w) + 1 /\ e \in Int /\ e <= Len(w) /\ e - 1 + 1 = e /\ e \in Nat
        /\ \A k \in 1 .. e : 1 + k - 1 = k
    BY <1>1, <1>11
  <2> HIDE DEF e
  <2>2. /\ line \in Bytes
        /\ Len(line) = IF 1 <= e THEN e - 1 + 1 ELSE 0
        /\ \A k \in 1 .. e - 1 + 1 : line[k] = w[1 + k - 1]
    BY <1>9, <2>1, PartIs
  <2>3. Terminated(w)[1] = line
    BY <1>14 DEF e
  <2> HIDE DEF line
  <2>4. line \in Bytes /\ Len(line) = e /\ \A k \in 1 .. e : line[k] = w[k]
    BY <2>1, <2>2
  <2> QED
    BY <2>3, <2>4 DEF e
<1>16. \A k \in 1 .. Len(u) : Terminated(w)[1][k] = u[k]
  <2> TAKE k \in 1 .. Len(u)
  <2>1. k \in 1 .. last - 1 /\ k \in 1 .. Len(u) + i /\ k <= Len(u)
    BY <1>1, <1>3, <1>11
  <2> QED
    BY <1>9, <1>15, <2>1
<1>17. Len(Terminated(w)[1]) \in Nat /\ Len(Terminated(w)[1]) >= Len(u)
  BY <1>1, <1>11, <1>15
<1> QED
  BY <1>5, <1>8, <1>9, <1>11, <1>13, <1>15, <1>16, <1>17

(* A line logged early stays as it was logged, whatever follows - unless it
   ends with a return right at the limit. *)
LEMMA EarlyIsEnough ==
    ASSUME NEW u \in Bytes, Len(u) > MaxPending,
           NEW line \in Bytes, Len(line) \in Nat, Len(line) >= Len(u),
           \A i \in 1 .. Len(u) : line[i] = u[i],
           ~ (Len(line) = MaxPending + 1 /\ Last(line) = Return)
    PROVE  buildBoundedLine(WithoutReturn(line)) = buildBoundedLine(u)
<1>1. /\ MaxPending \in Nat /\ MaxPending >= 1 /\ Len(u) \in Nat
      /\ Len(line) > MaxPending /\ \A i \in 1 .. MaxPending : i \in 1 .. Len(u)
  BY OutputAssumption, LenProperties DEF Bytes
<1>2. CASE WithoutReturn(line) = line
  <2>1. \A i \in 1 .. MaxPending : line[i] = u[i]
    BY <1>1
  <2>2. buildBoundedLine(line) = buildBoundedLine(u)
    BY <1>1, <2>1, CutAlike
  <2> QED
    BY <1>2, <2>2
<1>3. CASE WithoutReturn(line) # line
  <2>1. line # <<>> /\ Last(line) = Return /\ WithoutReturn(line) = Front(line)
    BY <1>3 DEF WithoutReturn
  <2> DEFINE e == Len(line) - 1
             front == SubSeq(line, 1, e)
  <2>2. /\ 1 \in 1 .. Len(line) + 1 /\ e \in Int /\ e <= Len(line) /\ e - 1 + 1 = e /\ 1 <= e
        /\ e > MaxPending /\ \A i \in 1 .. MaxPending : i \in 1 .. e /\ 1 + i - 1 = i
    <3>1. Len(line) # MaxPending + 1
      BY <2>1
    <3> QED
      BY <1>1, <3>1
  <2>3. WithoutReturn(line) = front
    BY <2>1 DEF Front
  <2> HIDE DEF e
  <2>4. /\ front \in Bytes
        /\ Len(front) = IF 1 <= e THEN e - 1 + 1 ELSE 0
        /\ \A i \in 1 .. e - 1 + 1 : front[i] = line[1 + i - 1]
    BY <2>2, PartIs
  <2> HIDE DEF front
  <2>5. Len(front) > MaxPending /\ \A i \in 1 .. MaxPending : front[i] = u[i]
    BY <1>1, <2>2, <2>4
  <2>6. buildBoundedLine(front) = buildBoundedLine(u)
    BY <2>4, <2>5, CutAlike
  <2> QED
    BY <2>3, <2>6
<1> QED
  BY <1>2, <1>3

LEMMA NoLineEnds ==
    ASSUME NEW a \in Bytes, NEW c \in Bytes, Newlines(c) = {}
    PROVE  /\ Terminated(a \o c) = Terminated(a)
           /\ Unterminated(a \o c) = Unterminated(a) \o c
           /\ Len(Unterminated(a) \o c) = Len(Unterminated(a)) + Len(c)
           /\ \A i \in 1 .. Len(Unterminated(a)) : (Unterminated(a) \o c)[i] = Unterminated(a)[i]
<1> DEFINE u == Unterminated(a)
           y == u \o c
<1>1. /\ Terminated(a \o c) = Terminated(a) \o Terminated(y)
      /\ Unterminated(a \o c) = Unterminated(y) /\ y \in Bytes
  BY Continued
<1>2. u \in Bytes /\ Newlines(u) = {} /\ Len(u) \in Nat /\ Len(c) \in Nat
  BY LinesAreBytes, LenProperties DEF Bytes
<1> HIDE DEF u
<1>3. /\ Len(y) = Len(u) + Len(c) /\ Newlines(y) \subseteq 1 .. Len(u) + Len(c)
      /\ \A i \in 1 .. Len(u) : i \notin Newlines(y)
      /\ \A i \in 1 .. Len(c) : Len(u) + i \notin Newlines(y)
  BY <1>2, NewlinesJoined DEF Continues
<1>4. /\ \A i \in 1 .. Len(u) + Len(c) : y[i] = IF i <= Len(u) THEN u[i] ELSE c[i - Len(u)]
  BY <1>2, ConcatProperties DEF Bytes
<1> HIDE DEF y
<1>5. Newlines(y) = {}
  <2> SUFFICES ASSUME NEW i \in Newlines(y) PROVE FALSE
    OBVIOUS
  <2>1. i \in 1 .. Len(u) + Len(c) /\ ~ (i \in 1 .. Len(u))
    BY <1>3
  <2> DEFINE j == i - Len(u)
  <2>2. j \in 1 .. Len(c) /\ i = Len(u) + j
    BY <1>2, <2>1
  <2> HIDE DEF j
  <2> QED
    BY <1>3, <2>2
<1>6. Terminated(y) = <<>> /\ Unterminated(y) = y
  BY <1>1, <1>5, UnterminatedIs
<1>7. Terminated(a) \o <<>> = Terminated(a)
  BY TerminatedTyped, ConcatEmptySeq
<1>8. \A i \in 1 .. Len(u) : y[i] = u[i]
  BY <1>2, <1>4
<1>9. Terminated(a \o c) = Terminated(a) /\ Unterminated(a \o c) = y
  BY <1>1, <1>6, <1>7
<1> QED
  BY <1>3, <1>8, <1>9 DEF u, y

(* The newlines of what follows end the lines that they would end alone, but
   for the first, which ends the unterminated line. *)
LEMMA LinesEnd ==
    ASSUME NEW a \in Bytes, NEW c \in Bytes, Newlines(c) # {}
    PROVE  \E w \in Bytes :
              /\ Past(c) \in Bytes
              /\ Terminated(a \o c) = Terminated(a) \o (Terminated(w) \o Terminated(Past(c)))
              /\ Unterminated(a \o c) = Unterminated(Past(c))
              /\ Len(Terminated(w)) = 1 /\ Terminated(w)[1] \in Bytes
              /\ Len(Terminated(w)[1]) \in Nat
              /\ Len(Terminated(w)[1]) >= Len(Unterminated(a))
              /\ \A i \in 1 .. Len(Unterminated(a)) : Terminated(w)[1][i] = Unterminated(a)[i]
              /\ Unterminated(a) \o c \in Bytes
              /\ Terminated(a \o c) = Terminated(a) \o Terminated(Unterminated(a) \o c)
              /\ Terminated(Unterminated(a) \o c) = Terminated(w) \o Terminated(Past(c))
<1> DEFINE u == Unterminated(a)
           y == u \o c
           d == Past(c)
<1>1. /\ Terminated(a \o c) = Terminated(a) \o Terminated(y)
      /\ Unterminated(a \o c) = Unterminated(y) /\ y \in Bytes
  BY Continued
<1>2. u \in Bytes /\ Newlines(u) = {}
  BY LinesAreBytes
<1> HIDE DEF u
<1>3. PICK w \in Bytes :
         /\ d \in Bytes /\ y = w \o d
         /\ LastEnd(w) = Len(w) /\ Len(Terminated(w)) = 1
         /\ Terminated(w)[1] \in Bytes
         /\ Len(Terminated(w)[1]) \in Nat /\ Len(Terminated(w)[1]) >= Len(u)
         /\ \A i \in 1 .. Len(u) : Terminated(w)[1][i] = u[i]
  BY <1>2, FirstLine
<1> HIDE DEF y, d
<1>4. /\ Terminated(w \o d) = Terminated(w) \o Terminated(d)
      /\ Unterminated(w \o d) = Unterminated(d)
  BY <1>3, GoesOnAtEnd
<1>5. /\ Terminated(y) = Terminated(w) \o Terminated(d)
      /\ Unterminated(y) = Unterminated(d)
  BY <1>3, <1>4
<1>6. /\ Terminated(a \o c) = Terminated(a) \o (Terminated(w) \o Terminated(d))
      /\ Unterminated(a \o c) = Unterminated(d)
  BY <1>1, <1>5
<1> QED
  BY <1>1, <1>3, <1>5, <1>6 DEF u, y, d

LEMMA EdgeAt ==
    ASSUME NEW a \in Bytes, NEW b \in Bytes, NEW x,
           Terminated(x) = Terminated(a) \o Terminated(b)
    PROVE  ReturnAtTheEdge(a) \/ ReturnAtTheEdge(b) => ReturnAtTheEdge(x)
<1> DEFINE A == Terminated(a)
           B == Terminated(b)
           AtEdge(line) == Len(line) = MaxPending + 1 /\ Last(line) = Return
<1>1. /\ A \in Seq(Bytes) /\ Len(A) \in Nat /\ DOMAIN A = 1 .. Len(A)
      /\ B \in Seq(Bytes) /\ Len(B) \in Nat /\ DOMAIN B = 1 .. Len(B)
  BY TerminatedTyped, LenProperties
<1>2. \A y : ReturnAtTheEdge(y) <=> \E n \in DOMAIN Terminated(y) : AtEdge(Terminated(y)[n])
  BY DEF ReturnAtTheEdge
<1> HIDE DEF A, B, AtEdge
<1>3. /\ A \o B \in Seq(Bytes) /\ Len(A \o B) = Len(A) + Len(B)
      /\ \A i \in 1 .. Len(A) + Len(B) : (A \o B)[i] = IF i <= Len(A) THEN A[i] ELSE B[i - Len(A)]
  BY <1>1, ConcatProperties
<1>4. DOMAIN (A \o B) = 1 .. Len(A) + Len(B)
  BY <1>3, LenProperties
<1>5. ASSUME NEW n \in 1 .. Len(A)
      PROVE  n \in DOMAIN (A \o B) /\ (A \o B)[n] = A[n]
  BY <1>1, <1>3, <1>4
<1>6. ASSUME NEW n \in 1 .. Len(B)
      PROVE  Len(A) + n \in DOMAIN (A \o B) /\ (A \o B)[Len(A) + n] = B[n]
  <2>1. Len(A) + n \in 1 .. Len(A) + Len(B) /\ ~ (Len(A) + n <= Len(A)) /\ Len(A) + n - Len(A) = n
    BY <1>1
  <2> QED
    BY <1>3, <1>4, <2>1
<1>7. Terminated(x) = A \o B
  BY DEF A, B
<1>8. ASSUME ReturnAtTheEdge(a) PROVE ReturnAtTheEdge(x)
  <2>1. PICK n \in DOMAIN A : AtEdge(A[n])
    BY <1>2, <1>8 DEF A
  <2>2. n \in DOMAIN (A \o B) /\ AtEdge((A \o B)[n])
    BY <1>1, <1>5, <2>1
  <2> QED
    BY <1>2, <1>7, <2>2
<1>9. ASSUME ReturnAtTheEdge(b) PROVE ReturnAtTheEdge(x)
  <2>1. PICK n \in DOMAIN B : AtEdge(B[n])
    BY <1>2, <1>9 DEF B
  <2>2. Len(A) + n \in DOMAIN (A \o B) /\ AtEdge((A \o B)[Len(A) + n])
    BY <1>1, <1>6, <2>1
  <2> QED
    BY <1>2, <1>7, <2>2
<1> QED
  BY <1>8, <1>9

LEMMA EdgeStays ==
    ASSUME NEW a \in Bytes, NEW c \in Bytes, ReturnAtTheEdge(a)
    PROVE  ReturnAtTheEdge(a \o c)
<1> DEFINE y == Unterminated(a) \o c
           x == a \o c
<1>1. Terminated(x) = Terminated(a) \o Terminated(y) /\ y \in Bytes
  BY Continued
<1> HIDE DEF x, y
<1>2. ReturnAtTheEdge(x)
  BY <1>1, EdgeAt
<1> QED
  BY <1>2 DEF x

(* The line that has been logged cut is skipped, and the rest logged. *)
LEMMA LinesGoOnCut ==
    ASSUME NEW a \in Bytes, NEW c \in Bytes, Len(Unterminated(a)) > MaxPending,
           ~ ReturnAtTheEdge(a \o c)
    PROVE  LinesOf(a \o c) = LinesOf(a) \o LinesOf(Past(c)) /\ Past(c) \in Bytes
<1> DEFINE u == Unterminated(a)
           x == a \o c
           y == u \o c
           d == Past(c)
<1>0. /\ u \in Bytes /\ Len(u) \in Nat /\ Len(c) \in Nat /\ MaxPending \in Nat
      /\ x \in Bytes /\ Len(u) > MaxPending /\ Early(a) = <<buildBoundedLine(u)>>
  BY LinesAreBytes, LenProperties, NewlinesJoined, OutputAssumption DEF Bytes, Early
<1>1. /\ LinesOf(a) = Whole(a) \o Early(a) /\ Whole(a) \in Seq(BoundedLines)
      /\ Early(a) \in Seq(BoundedLines)
      /\ LinesOf(x) = Whole(x) \o Early(x)
  BY <1>0, LinesOfTyped
<1>2. CASE Newlines(c) = {}
  <2>1. /\ Terminated(x) = Terminated(a) /\ Unterminated(x) = y
        /\ Len(y) = Len(u) + Len(c) /\ y \in Bytes
        /\ \A i \in 1 .. Len(u) : y[i] = u[i]
    BY <1>2, NoLineEnds, Continued
  <2> HIDE DEF x, y, u
  <2>2. Len(y) > MaxPending /\ \A i \in 1 .. MaxPending : y[i] = u[i]
    BY <1>0, <2>1
  <2>3. buildBoundedLine(y) = buildBoundedLine(u)
    BY <1>0, <2>1, <2>2, CutAlike
  <2>4. Early(x) = Early(a)
    BY <1>0, <2>1, <2>2, <2>3 DEF Early
  <2>5. Whole(x) = Whole(a)
    BY <2>1 DEF Whole
  <2>6. d = <<>>
    BY <1>2 DEF Past
  <2>7. <<>> \in Bytes /\ Newlines(<<>>) = {} /\ Len(<<>>) = 0
    BY EmptySeq DEF Bytes, Newlines
  <2>8. LinesOf(<<>>) = <<>>
    <3>1. Whole(<<>>) = <<>>
      BY <2>7, NothingWhole
    <3>2. Early(<<>>) = <<>>
      BY <1>0, <2>7, NothingUnterminated DEF Early
    <3> QED
      BY <2>7, <3>1, <3>2, LinesOfTyped, ConcatEmptySeq
  <2>9. LinesOf(a) \o <<>> = LinesOf(a)
    BY LinesOfTyped, ConcatEmptySeq
  <2> HIDE DEF d
  <2>10. LinesOf(x) = LinesOf(a) \o LinesOf(d) /\ d \in Bytes
    BY <1>1, <2>4, <2>5, <2>6, <2>7, <2>8, <2>9
  <2> QED
    BY <2>10 DEF d, x
<1>3. CASE Newlines(c) # {}
  <2>1. PICK w \in Bytes :
           /\ d \in Bytes
           /\ Unterminated(x) = Unterminated(d)
           /\ Len(Terminated(w)) = 1 /\ Terminated(w)[1] \in Bytes
           /\ Len(Terminated(w)[1]) \in Nat
           /\ Len(Terminated(w)[1]) >= Len(u)
           /\ \A i \in 1 .. Len(u) : Terminated(w)[1][i] = u[i]
           /\ y \in Bytes
           /\ Terminated(x) = Terminated(a) \o Terminated(y)
           /\ Terminated(y) = Terminated(w) \o Terminated(d)
    BY <1>3, LinesEnd
  <2> HIDE DEF d, x, y, u
  <2>2. ~ ReturnAtTheEdge(w)
    <3>1. ~ ReturnAtTheEdge(x)
      BY DEF x
    <3>2. ~ ReturnAtTheEdge(y)
      BY <2>1, <3>1, EdgeAt
    <3> QED
      BY <2>1, <3>2, EdgeAt
  <2> DEFINE line == Terminated(w)[1]
  <2>3. ~ (Len(line) = MaxPending + 1 /\ Last(line) = Return)
    <3>1. 1 \in DOMAIN Terminated(w)
      <4> DEFINE T == Terminated(w)
      <4>1. T \in Seq(Bytes) /\ Len(T) = 1
        BY <2>1, TerminatedTyped
      <4> HIDE DEF T
      <4>2. 1 \in DOMAIN T
        BY <4>1, LenProperties
      <4> QED
        BY <4>2 DEF T
    <3> QED
      BY <2>2, <3>1 DEF ReturnAtTheEdge
  <2>4. line \in Bytes /\ Len(line) \in Nat /\ Len(line) >= Len(u) /\ \A i \in 1 .. Len(u) : line[i] = u[i]
    BY <2>1
  <2> HIDE DEF line
  <2>5. buildBoundedLine(WithoutReturn(line)) = buildBoundedLine(u)
    BY <1>0, <2>3, <2>4, EarlyIsEnough
  <2>6. Whole(w) = Early(a)
    <3>1. Cardinality(Newlines(w)) = 1
      BY <2>1, TerminatedTyped
    <3>2. /\ Whole(w) \in Seq(BoundedLines) /\ Len(Whole(w)) = 1
          /\ Whole(w)[1] = buildBoundedLine(WithoutReturn(line))
      <4>1. /\ Whole(w) \in Seq(BoundedLines) /\ Len(Whole(w)) = Cardinality(Newlines(w))
            /\ \A n \in 1 .. Cardinality(Newlines(w)) :
                  Whole(w)[n] = buildBoundedLine(WithoutReturn(Terminated(w)[n]))
        BY WholeTyped
      <4>2. 1 \in 1 .. Cardinality(Newlines(w))
        BY <3>1
      <4> QED
        BY <3>1, <4>1, <4>2 DEF line
    <3>3. Len(Early(a)) = 1 /\ Early(a)[1] = buildBoundedLine(u)
      BY <1>0
    <3>4. \A i \in 1 .. 1 : Whole(w)[i] = Early(a)[i]
      BY <2>5, <3>2, <3>3
    <3> QED
      BY <1>1, <3>2, <3>3, <3>4, SeqEqual
  <2>7. Whole(y) = Whole(w) \o Whole(d)
    BY <2>1, WholeJoined
  <2>8. Whole(x) = Whole(a) \o Whole(y)
    <3>1. x \in Bytes /\ y \in Bytes /\ Terminated(x) = Terminated(a) \o Terminated(y)
      BY <1>0, <2>1
    <3> QED
      BY <3>1, WholeJoined
  <2>9. Early(x) = Early(d)
    BY <2>1 DEF Early
  <2> DEFINE A == Whole(a)
             E == Early(a)
             W == Whole(d)
             R == Early(d)
  <2>10. LinesOf(d) = W \o R /\ W \in Seq(BoundedLines) /\ R \in Seq(BoundedLines)
    BY <2>1, LinesOfTyped
  <2>11. LinesOf(x) = (A \o (E \o W)) \o R /\ LinesOf(a) = A \o E
    BY <1>1, <2>6, <2>7, <2>8, <2>9
  <2>12. A \in Seq(BoundedLines) /\ E \in Seq(BoundedLines)
    BY <1>1
  <2> HIDE DEF A, E, W, R
  <2>13. A \o (E \o W) = (A \o E) \o W /\ A \o E \in Seq(BoundedLines)
    <3>1. E \in Seq(BoundedLines) /\ W \in Seq(BoundedLines)
      BY <2>10, <2>12
    <3>2. A \o E \in Seq(BoundedLines)
      BY <2>12, <3>1, ConcatProperties
    <3> QED
      BY <2>12, <3>1, <3>2, ConcatAssociative
  <2>14. ((A \o E) \o W) \o R = (A \o E) \o (W \o R)
    BY <2>10, <2>13, ConcatAssociative
  <2>15. LinesOf(x) = LinesOf(a) \o LinesOf(d)
    BY <2>10, <2>11, <2>13, <2>14
  <2> QED
    BY <2>1, <2>15 DEF d, x
<1> QED
  BY <1>2, <1>3

-----------------------------------------------------------------------------
(* The lines of one stream *)

OfStream(log, s) == {n \in DOMAIN log : log[n].stream = s}

TheLines(own) == [n \in DOMAIN own |-> own[n].line]

Own(log, s) == TheLines(Picked(log, OfStream(log, s)))

LEMMA TheLinesJoined ==
    ASSUME NEW a \in Seq(Entries), NEW b \in Seq(Entries)
    PROVE  /\ TheLines(a \o b) = TheLines(a) \o TheLines(b)
           /\ TheLines(a) \in Seq(BoundedLines)
<1>0. /\ Len(a) \in Nat /\ DOMAIN a = 1 .. Len(a) /\ Len(b) \in Nat /\ DOMAIN b = 1 .. Len(b)
  BY LenProperties
<1> DEFINE j == a \o b
           J == TheLines(a) \o TheLines(b)
<1>1. ASSUME NEW x \in Seq(Entries)
      PROVE  /\ TheLines(x) \in Seq(BoundedLines) /\ Len(TheLines(x)) = Len(x)
             /\ \A n \in 1 .. Len(x) : TheLines(x)[n] = x[n].line
  <2>1. Len(x) \in Nat /\ DOMAIN x = 1 .. Len(x)
    BY LenProperties
  <2>2. \A n \in 1 .. Len(x) : x[n].line \in BoundedLines
    <3>1. \A n \in 1 .. Len(x) : x[n] \in Entries
      BY ElementOfSeq
    <3>2. \A e \in Entries : e.line \in BoundedLines
      BY DEF Entries
    <3> QED
      BY <3>1, <3>2
  <2>3. TheLines(x) = [n \in 1 .. Len(x) |-> x[n].line]
    BY <2>1 DEF TheLines
  <2> QED
    BY <2>1, <2>2, <2>3
<1>2. /\ j \in Seq(Entries) /\ Len(j) = Len(a) + Len(b)
      /\ \A n \in 1 .. Len(a) + Len(b) : j[n] = IF n <= Len(a) THEN a[n] ELSE b[n - Len(a)]
  BY ConcatProperties
<1> HIDE DEF j
<1>3. /\ TheLines(j) \in Seq(BoundedLines) /\ Len(TheLines(j)) = Len(a) + Len(b)
      /\ \A n \in 1 .. Len(a) + Len(b) : TheLines(j)[n] = j[n].line
  BY <1>1, <1>2
<1>4. /\ TheLines(a) \in Seq(BoundedLines) /\ Len(TheLines(a)) = Len(a)
      /\ \A n \in 1 .. Len(a) : TheLines(a)[n] = a[n].line
  BY <1>1
<1>5. /\ TheLines(b) \in Seq(BoundedLines) /\ Len(TheLines(b)) = Len(b)
      /\ \A n \in 1 .. Len(b) : TheLines(b)[n] = b[n].line
  BY <1>1
<1>6. /\ J \in Seq(BoundedLines) /\ Len(J) = Len(TheLines(a)) + Len(TheLines(b))
      /\ \A n \in 1 .. Len(TheLines(a)) + Len(TheLines(b)) :
            J[n] = IF n <= Len(TheLines(a)) THEN TheLines(a)[n]
                   ELSE TheLines(b)[n - Len(TheLines(a))]
  <2>1. TheLines(a) \in Seq(BoundedLines) /\ TheLines(b) \in Seq(BoundedLines)
    BY <1>4, <1>5
  <2> QED
    BY <2>1, ConcatProperties
<1> HIDE DEF J
<1>7. ASSUME NEW n \in 1 .. Len(a) + Len(b)
      PROVE  TheLines(j)[n] = J[n]
  <2>1. CASE n <= Len(a)
    <3>1. n \in 1 .. Len(a)
      BY <1>0, <2>1
    <3>2. J[n] = TheLines(a)[n] /\ j[n] = a[n]
      BY <1>2, <1>4, <1>5, <1>6, <2>1
    <3> QED
      BY <1>3, <1>4, <3>1, <3>2
  <2>2. CASE ~ (n <= Len(a))
    <3> DEFINE i == n - Len(a)
    <3>1. i \in 1 .. Len(b)
      BY <1>0, <2>2
    <3>2. J[n] = TheLines(b)[i] /\ j[n] = b[i]
      BY <1>2, <1>4, <1>5, <1>6, <2>2
    <3> HIDE DEF i
    <3> QED
      BY <1>3, <1>5, <3>1, <3>2
  <2> QED
    BY <2>1, <2>2
<1>8. Len(J) = Len(a) + Len(b)
  BY <1>4, <1>5, <1>6
<1>9. TheLines(j) = J
  BY <1>3, <1>6, <1>7, <1>8, SeqEqual
<1> QED
  BY <1>4, <1>9 DEF j, J

LEMMA OwnJoined ==
    ASSUME NEW a \in Seq(Entries), NEW b \in Seq(Entries), NEW s
    PROVE  /\ Own(a \o b, s) = Own(a, s) \o Own(b, s)
           /\ Own(a, s) \in Seq(BoundedLines) /\ Own(b, s) \in Seq(BoundedLines)
<1> DEFINE j == a \o b
           S == OfStream(a, s)
           T == OfStream(b, s)
           U == OfStream(j, s)
<1>1. /\ Len(a) \in Nat /\ DOMAIN a = 1 .. Len(a) /\ Len(b) \in Nat /\ DOMAIN b = 1 .. Len(b)
      /\ S \in SUBSET DOMAIN a /\ T \in SUBSET DOMAIN b
  BY LenProperties DEF OfStream
<1>2. /\ j \in Seq(Entries) /\ Len(j) = Len(a) + Len(b)
      /\ \A n \in 1 .. Len(a) + Len(b) : j[n] = IF n <= Len(a) THEN a[n] ELSE b[n - Len(a)]
  BY ConcatProperties
<1> HIDE DEF j
<1>3. DOMAIN j = 1 .. Len(a) + Len(b)
  BY <1>2, LenProperties
<1>4. Continues(U, Len(a), S, Len(b), T)
  <2>1. U \subseteq 1 .. Len(a) + Len(b)
    BY <1>3 DEF OfStream
  <2>2. \A n \in 1 .. Len(a) : n \in U <=> n \in S
    BY <1>1, <1>2, <1>3 DEF OfStream
  <2>3. ASSUME NEW n \in 1 .. Len(b)
        PROVE  Len(a) + n \in U <=> n \in T
    <3>1. /\ Len(a) + n \in 1 .. Len(a) + Len(b) /\ ~ (Len(a) + n <= Len(a))
          /\ Len(a) + n - Len(a) = n
      BY <1>1
    <3>2. j[Len(a) + n] = b[n]
      BY <1>2, <3>1
    <3> QED
      BY <1>1, <1>3, <3>1, <3>2 DEF OfStream
  <2> QED
    BY <2>1, <2>2, <2>3 DEF Continues
<1> HIDE DEF S, T, U
<1>5. Picked(a \o b, U) = Picked(a, S) \o Picked(b, T)
  <2>1. Joins(U, a, S, b, T)
    BY <1>1, <1>4 DEF Joins
  <2> QED
    BY <2>1, PickedJoined
<1>6. Picked(a, S) \in Seq(Entries) /\ Picked(b, T) \in Seq(Entries)
  BY <1>1, PickedIs
<1>7. /\ TheLines(Picked(a, S) \o Picked(b, T)) = TheLines(Picked(a, S)) \o TheLines(Picked(b, T))
      /\ TheLines(Picked(a, S)) \in Seq(BoundedLines)
      /\ TheLines(Picked(b, T)) \in Seq(BoundedLines)
  BY <1>6, TheLinesJoined
<1> QED
  BY <1>5, <1>7 DEF Own, S, T, U, j

(* What one stream writes is its own, and nobody else's. *)
LEMMA OwnWritten ==
    ASSUME NEW lines \in Seq(BoundedLines), NEW stream \in Streams, NEW s,
           NEW more, more = [n \in DOMAIN lines |-> [stream |-> stream, line |-> lines[n]]]
    PROVE  /\ more \in Seq(Entries) /\ Len(more) = Len(lines)
           /\ Own(more, s) = IF s = stream THEN lines ELSE <<>>
<1>1. Len(lines) \in Nat /\ DOMAIN lines = 1 .. Len(lines)
  BY LenProperties
<1>2. \A n \in 1 .. Len(lines) : [stream |-> stream, line |-> lines[n]] \in Entries
  BY ElementOfSeq DEF Entries
<1>3. more \in Seq(Entries) /\ Len(more) = Len(lines) /\ DOMAIN more = 1 .. Len(lines)
  BY <1>1, <1>2
<1>4. \A n \in 1 .. Len(lines) : more[n].stream = stream /\ more[n].line = lines[n]
  BY <1>1
<1>5. CASE s = stream
  <2>1. OfStream(more, s) = DOMAIN more
    BY <1>3, <1>4, <1>5 DEF OfStream
  <2>2. Picked(more, DOMAIN more) = more
    BY <1>3, PickedAll
  <2>3. TheLines(more) = [n \in 1 .. Len(lines) |-> more[n].line]
    BY <1>3 DEF TheLines
  <2>4. TheLines(more) \in Seq(BoundedLines) /\ Len(TheLines(more)) = Len(lines)
    <3>1. \A n \in 1 .. Len(lines) : more[n].line \in BoundedLines
      BY <1>4, ElementOfSeq
    <3> QED
      BY <1>1, <2>3, <3>1
  <2>5. \A n \in 1 .. Len(lines) : TheLines(more)[n] = lines[n]
    BY <1>4, <2>3
  <2>6. TheLines(more) = lines
    BY <2>4, <2>5, SeqEqual
  <2> QED
    BY <1>3, <1>5, <2>1, <2>2, <2>6 DEF Own
<1>6. CASE s # stream
  <2>1. OfStream(more, s) = {}
    BY <1>3, <1>4, <1>6 DEF OfStream
  <2>2. TheLines(<<>>) = <<>>
    BY DEF TheLines
  <2> QED
    BY <1>3, <1>6, <2>1, <2>2, PickedNone DEF Own
<1> QED
  BY <1>5, <1>6

LEMMA OwnIsLogged ==
    \A s : Logged(s) = Own(combined, s) /\ Logged(s)' = Own(combined', s)
BY DEF Logged, Own, TheLines, OfStream

-----------------------------------------------------------------------------
(* How the stream was cut does not show *)

(* What waits of a stream that is still read is what its bytes have not
   ended yet, unless that has been logged already. *)
Caught(s) ==
    /\ overflowed[s] <=> Len(Unterminated(received[s])) > MaxPending
    /\ pending[s] = IF overflowed[s] THEN <<>> ELSE Unterminated(received[s])

LoggedInWhole(s) ==
    \/ ReturnAtTheEdge(received[s])
    \/ ~finished /\ Logged(s) = LinesOf(received[s])
    \/ finished /\ IsPrefix(LinesOf(received[s]) \o LastLine(received[s]), Logged(s))

ReadInWhole ==
    /\ received \in [Streams -> Bytes] /\ finished \in BOOLEAN
    /\ \A s \in Streams : (~finished => Caught(s)) /\ LoggedInWhole(s)

LEMMA LastLineTyped ==
    ASSUME NEW bytes \in Bytes
    PROVE  /\ LastLine(bytes) \in Seq(BoundedLines)
           /\ LinesOf(bytes) \o LastLine(bytes) \in Seq(BoundedLines)
<1>1. buildBoundedLine(Unterminated(bytes)) \in BoundedLines
  BY LinesAreBytes, LineIsBounded
<1>2. LastLine(bytes) \in Seq(BoundedLines)
  BY <1>1 DEF LastLine
<1> QED
  BY <1>2, LinesOfTyped, ConcatProperties

LEMMA ChunkLogs ==
    ASSUME OutputInv, NEW stream \in Streams, NEW chunk \in Chunks[stream],
           Chunk(stream, chunk)
    PROVE  LET bytes == pending[stream] \o Skipped(stream, chunk)
           IN  /\ chunk \in Bytes /\ bytes \in Bytes
               /\ combined \in Seq(Entries)
               /\ \A s \in Streams :
                     /\ Own(combined, s) \in Seq(BoundedLines)
                     /\ Own(combined', s) =
                           Own(combined, s) \o (IF s = stream THEN LinesOf(bytes) ELSE <<>>)
<1> DEFINE bytes == pending[stream] \o Skipped(stream, chunk)
           rest == Unterminated(bytes)
           whole == Whole(bytes)
           long == Len(rest) > MaxPending
           lines == IF long THEN Append(whole, buildBoundedLine(rest)) ELSE whole
           more == [n \in DOMAIN lines |-> [stream |-> stream, line |-> lines[n]]]
<1>1. combined' = combined \o more
  BY DEF Chunk
<1>2. combined \in Seq(Entries) /\ pending \in [Streams -> Bytes]
  BY DEF OutputInv, LogTyped
<1>3. chunk \in Bytes
  BY OutputAssumption DEF Bytes
<1>4. bytes \in Bytes
  BY <1>2, <1>3, SkippedTyped, ConcatProperties DEF Bytes
<1> HIDE DEF bytes
<1>5. /\ LinesOf(bytes) = whole \o Early(bytes) /\ whole \in Seq(BoundedLines)
      /\ LinesOf(bytes) \in Seq(BoundedLines) /\ buildBoundedLine(rest) \in BoundedLines
  BY <1>4, LinesOfTyped, LinesAreBytes, LineIsBounded
<1> HIDE DEF whole
<1>6. lines = LinesOf(bytes)
  <2>1. CASE long
    <3>1. Early(bytes) = <<buildBoundedLine(rest)>>
      BY <2>1 DEF Early
    <3>2. Append(whole, buildBoundedLine(rest)) = whole \o <<buildBoundedLine(rest)>>
      BY <1>5, AppendIsConcat
    <3> QED
      BY <1>5, <2>1, <3>1, <3>2
  <2>2. CASE ~long
    <3>1. Early(bytes) = <<>>
      BY <2>2 DEF Early
    <3>2. whole \o <<>> = whole
      BY <1>5, ConcatEmptySeq
    <3> QED
      BY <1>5, <2>2, <3>1, <3>2
  <2> QED
    BY <2>1, <2>2
<1> HIDE DEF lines
<1>7. lines \in Seq(BoundedLines)
  BY <1>5, <1>6
<1>8. more = [n \in DOMAIN lines |-> [stream |-> stream, line |-> lines[n]]]
  OBVIOUS
<1> HIDE DEF more
<1>9. ASSUME NEW s \in Streams
      PROVE  /\ Own(combined, s) \in Seq(BoundedLines)
             /\ Own(combined', s) =
                   Own(combined, s) \o (IF s = stream THEN LinesOf(bytes) ELSE <<>>)
  <2>1. /\ more \in Seq(Entries)
        /\ Own(more, s) = IF s = stream THEN lines ELSE <<>>
    BY <1>7, <1>8, OwnWritten
  <2>2. /\ Own(combined \o more, s) = Own(combined, s) \o Own(more, s)
        /\ Own(combined, s) \in Seq(BoundedLines)
    BY <1>2, <2>1, OwnJoined
  <2> QED
    BY <1>1, <1>6, <2>1, <2>2
<1> QED
  BY <1>2, <1>3, <1>4, <1>9 DEF bytes

(* Once the record has finished, the lines that are still logged come after
   those that matter. *)
LEMMA MoreLines ==
    ASSUME NEW s, LoggedInWhole(s), finished, finished', received'[s] = received[s],
           received[s] \in Bytes,
           NEW own \in Seq(BoundedLines), NEW more \in Seq(BoundedLines),
           Own(combined, s) = own, Own(combined', s) = own \o more
    PROVE  LoggedInWhole(s)'
<1>1. Logged(s) = own /\ Logged(s)' = own \o more
  BY OwnIsLogged
<1>2. CASE ReturnAtTheEdge(received[s])
  BY <1>2 DEF LoggedInWhole
<1>3. CASE IsPrefix(LinesOf(received[s]) \o LastLine(received[s]), Logged(s))
  <2> DEFINE p == LinesOf(received[s]) \o LastLine(received[s])
  <2>1. p \in Seq(BoundedLines) /\ IsPrefix(p, own)
    BY <1>1, <1>3, LastLineTyped
  <2> HIDE DEF p
  <2>2. IsPrefix(p, own \o more)
    BY <2>1, StillPrefix
  <2>3. IsPrefix(LinesOf(received'[s]) \o LastLine(received'[s]), Logged(s)')
    BY <1>1, <2>2 DEF p
  <2> QED
    BY <2>3 DEF LoggedInWhole
<1> QED
  BY <1>2, <1>3 DEF LoggedInWhole

LEMMA ChunkReads ==
    ASSUME OutputInv, ReadInWhole, NEW stream \in Streams, NEW chunk \in Chunks[stream],
           Chunk(stream, chunk)
    PROVE  ReadInWhole'
<1> DEFINE bytes == pending[stream] \o Skipped(stream, chunk)
           rest == Unterminated(bytes)
           long == Len(rest) > MaxPending
           a == received[stream]
           u == Unterminated(a)
<1>1. /\ pending' = [pending EXCEPT ![stream] = IF long THEN <<>> ELSE rest]
      /\ overflowed' = [overflowed EXCEPT ![stream] = long \/ StillOverflowed(stream, chunk)]
      /\ received' = IF finished THEN received ELSE [received EXCEPT ![stream] = @ \o chunk]
      /\ finished' = finished
  BY DEF Chunk
<1>2. /\ received \in [Streams -> Bytes] /\ finished \in BOOLEAN
      /\ \A s \in Streams : (~finished => Caught(s)) /\ LoggedInWhole(s)
  BY DEF ReadInWhole
<1>3. /\ pending \in [Streams -> Bytes] /\ overflowed \in [Streams -> BOOLEAN]
  BY DEF OutputInv, LogTyped
<1>4. /\ chunk \in Bytes /\ bytes \in Bytes
      /\ \A s \in Streams :
            /\ Own(combined, s) \in Seq(BoundedLines)
            /\ Own(combined', s) =
                  Own(combined, s) \o (IF s = stream THEN LinesOf(bytes) ELSE <<>>)
  BY ChunkLogs
<1>5. <<>> \in Seq(BoundedLines) /\ LinesOf(bytes) \in Seq(BoundedLines) /\ a \in Bytes
  BY <1>2, <1>4, EmptySeq, LinesOfTyped
<1>6. ASSUME finished
      PROVE  ReadInWhole'
  <2>1. received' = received /\ finished'
    BY <1>1, <1>6
  <2>2. ASSUME NEW s \in Streams
        PROVE  LoggedInWhole(s)'
    <3> DEFINE own == Own(combined, s)
               more == IF s = stream THEN LinesOf(bytes) ELSE <<>>
    <3>1. own \in Seq(BoundedLines) /\ more \in Seq(BoundedLines) /\ Own(combined', s) = own \o more
      BY <1>4, <1>5
    <3>2. own = Own(combined, s) /\ received'[s] = received[s] /\ received[s] \in Bytes /\ LoggedInWhole(s)
      BY <1>2, <2>1
    <3> HIDE DEF own, more
    <3> QED
      BY <1>6, <2>1, <3>1, <3>2, MoreLines
  <2> QED
    BY <1>2, <2>1, <2>2 DEF ReadInWhole
<1>7. ASSUME ~finished
      PROVE  ReadInWhole'
  <2>1. /\ received' = [received EXCEPT ![stream] = @ \o chunk] /\ ~finished'
        /\ received'[stream] = a \o chunk /\ a \o chunk \in Bytes
        /\ received' \in [Streams -> Bytes]
    <3>1. a \o chunk \in Bytes
      BY <1>4, <1>5, NewlinesJoined
    <3> QED
      BY <1>1, <1>2, <1>7, <3>1
  <2>2. ASSUME NEW s \in Streams, s # stream
        PROVE  Caught(s)' /\ LoggedInWhole(s)'
    <3>1. /\ received'[s] = received[s] /\ pending'[s] = pending[s] /\ overflowed'[s] = overflowed[s]
      BY <1>1, <1>2, <1>3, <2>1, <2>2
    <3>2. Own(combined', s) = Own(combined, s)
      <4>1. Own(combined, s) \o <<>> = Own(combined, s)
        BY <1>4, ConcatEmptySeq
      <4> QED
        BY <1>4, <2>2, <4>1
    <3>3. Logged(s)' = Logged(s)
      BY <3>2, OwnIsLogged
    <3>4. Caught(s) /\ LoggedInWhole(s)
      BY <1>2, <1>7
    <3>5. Caught(s)'
      BY <3>1, <3>4 DEF Caught
    <3>6. LoggedInWhole(s)'
      BY <1>7, <2>1, <3>1, <3>3, <3>4 DEF LoggedInWhole
    <3> QED
      BY <3>5, <3>6
  <2>3. /\ overflowed[stream] <=> Len(u) > MaxPending
        /\ pending[stream] = IF overflowed[stream] THEN <<>> ELSE u
    BY <1>2, <1>7 DEF Caught
  <2>4. /\ pending'[stream] = IF long THEN <<>> ELSE rest
        /\ overflowed'[stream] = (long \/ StillOverflowed(stream, chunk))
    BY <1>1, <1>3
  <2>5. /\ ReturnAtTheEdge(a) => ReturnAtTheEdge(a \o chunk)
        /\ ~ ReturnAtTheEdge(a) => Own(combined, stream) = LinesOf(a)
    <3>1. Logged(stream) = Own(combined, stream)
      BY OwnIsLogged
    <3> QED
      BY <1>2, <1>4, <1>5, <1>7, <3>1, EdgeStays DEF LoggedInWhole
  <2>6. Logged(stream)' = Own(combined, stream) \o LinesOf(bytes)
    BY <1>4, OwnIsLogged
  <2>7. ASSUME ~ ReturnAtTheEdge(a \o chunk) => LinesOf(a \o chunk) = LinesOf(a) \o LinesOf(bytes)
        PROVE  LoggedInWhole(stream)'
    <3>1. ReturnAtTheEdge(a \o chunk) \/ Logged(stream)' = LinesOf(a \o chunk)
      BY <2>5, <2>6, <2>7
    <3> QED
      BY <2>1, <3>1 DEF LoggedInWhole
  <2>8. /\ MaxPending \in Nat /\ Len(chunk) \in Nat /\ Len(u) \in Nat
    BY <1>4, <1>5, OutputAssumption, LinesAreBytes, LenProperties DEF Bytes
  <2>9. ASSUME ~overflowed[stream]
        PROVE  Caught(stream)' /\ LoggedInWhole(stream)'
    <3>1. bytes = u \o chunk /\ ~ StillOverflowed(stream, chunk) /\ ~ (Len(u) > MaxPending)
      BY <2>3, <2>9 DEF Skipped, StillOverflowed
    <3>2. Unterminated(a \o chunk) = rest
      BY <1>4, <1>5, <3>1, Continued
    <3>3. LinesOf(a \o chunk) = LinesOf(a) \o LinesOf(bytes)
      BY <1>4, <1>5, <3>1, LinesGoOn
    <3>4. overflowed'[stream] = long /\ pending'[stream] = IF long THEN <<>> ELSE rest
      BY <2>4, <3>1
    <3>5. Caught(stream)'
      BY <2>1, <3>2, <3>4 DEF Caught
    <3> QED
      BY <2>7, <3>3, <3>5
  <2>10. ASSUME overflowed[stream]
         PROVE  Caught(stream)' /\ LoggedInWhole(stream)'
    <3>1. pending[stream] = <<>> /\ Len(u) > MaxPending /\ Skipped(stream, chunk) = Past(chunk)
      BY <2>3, <2>10 DEF Skipped, Past
    <3>2. Past(chunk) \in Bytes
      BY <3>1, <1>4, SkippedTyped
    <3>3. bytes = Past(chunk)
      BY <3>1, <3>2, ConcatEmptySeq DEF Bytes
    <3>4. ~ ReturnAtTheEdge(a \o chunk) => LinesOf(a \o chunk) = LinesOf(a) \o LinesOf(bytes)
      BY <1>4, <1>5, <3>1, <3>3, LinesGoOnCut
    <3>5. Caught(stream)'
      <4>1. CASE Newlines(chunk) = {}
        <5>1. bytes = <<>> /\ StillOverflowed(stream, chunk)
          BY <2>10, <3>3, <4>1 DEF Past, StillOverflowed
        <5>2. rest = <<>> /\ ~long
          BY <2>8, <5>1, NothingUnterminated
        <5>3. /\ Unterminated(a \o chunk) = u \o chunk
              /\ Len(u \o chunk) = Len(u) + Len(chunk)
          BY <1>4, <1>5, <4>1, NoLineEnds
        <5>4. Len(Unterminated(a \o chunk)) > MaxPending
          BY <2>8, <3>1, <5>3
        <5>5. overflowed'[stream] = TRUE /\ pending'[stream] = <<>>
          BY <2>4, <5>1, <5>2
        <5> QED
          BY <2>1, <5>4, <5>5 DEF Caught
      <4>2. CASE Newlines(chunk) # {}
        <5>1. ~ StillOverflowed(stream, chunk)
          BY <4>2 DEF StillOverflowed
        <5>2. Unterminated(a \o chunk) = rest
          <6>1. Unterminated(a \o chunk) = Unterminated(Past(chunk))
            BY <1>4, <1>5, <4>2, LinesEnd
          <6> QED
            BY <3>3, <6>1, Zenon
        <5>3. overflowed'[stream] = long /\ pending'[stream] = IF long THEN <<>> ELSE rest
          BY <2>4, <5>1
        <5> QED
          BY <2>1, <5>2, <5>3 DEF Caught
      <4> QED
        BY <4>1, <4>2
    <3> QED
      BY <2>7, <3>4, <3>5
  <2>11. Caught(stream)' /\ LoggedInWhole(stream)'
    BY <1>3, <2>9, <2>10
  <2>12. \A s \in Streams : Caught(s)' /\ LoggedInWhole(s)'
    BY <2>2, <2>11
  <2> QED
    BY <1>1, <1>2, <2>1, <2>12 DEF ReadInWhole
<1> QED
  BY <1>6, <1>7

LEMMA FlushReads ==
    ASSUME OutputInv, ReadInWhole, Flush
    PROVE  ReadInWhole'
<1>1. /\ finished' = TRUE /\ combined' = combined \o Flushed /\ received' = received
  BY DEF Flush
<1>2. /\ received \in [Streams -> Bytes] /\ finished \in BOOLEAN
      /\ \A s \in Streams : (~finished => Caught(s)) /\ LoggedInWhole(s)
  BY DEF ReadInWhole
<1>3. pending \in [Streams -> Bytes] /\ combined \in Seq(Entries) /\ Flushed \in Seq(Entries)
  BY FlushedTyped DEF OutputInv, LogTyped
<1> DEFINE LastOf(s) == IF pending[s] = <<>> THEN <<>> ELSE <<buildBoundedLine(pending[s])>>
<1>4. ASSUME NEW s \in Streams
      PROVE  /\ LastOf(s) \in Seq(BoundedLines)
             /\ Left(s) = [n \in DOMAIN LastOf(s) |-> [stream |-> s, line |-> LastOf(s)[n]]]
  <2>1. buildBoundedLine(pending[s]) \in BoundedLines
    BY <1>3, LineIsBounded
  <2>2. CASE pending[s] = <<>>
    BY <2>2 DEF Left
  <2>3. CASE pending[s] # <<>>
    <3> DEFINE line == buildBoundedLine(pending[s])
    <3>1. LastOf(s) = <<line>> /\ Left(s) = <<[stream |-> s, line |-> line]>>
      BY <2>3 DEF Left
    <3> HIDE DEF line, LastOf
    <3>2. line \in BoundedLines
      BY <2>1 DEF line
    <3> QED
      BY <3>1, <3>2
  <2> QED
    BY <2>2, <2>3
<1> HIDE DEF LastOf
<1>5. ASSUME NEW s \in Streams
      PROVE  /\ Own(combined, s) \in Seq(BoundedLines)
             /\ LastOf(s) \in Seq(BoundedLines)
             /\ Own(combined', s) = Own(combined, s) \o LastOf(s)
  <2>1. "stdout" \in Streams /\ "stderr" \in Streams /\ s \in {"stdout", "stderr"}
    BY DEF Streams
  <2> DEFINE OwnLast(t) == IF s = t THEN LastOf(t) ELSE <<>>
  <2>2. ASSUME NEW t \in Streams
        PROVE  Left(t) \in Seq(Entries) /\ Own(Left(t), s) = OwnLast(t)
    BY <1>4, OwnWritten
  <2>3. Own(Left("stdout") \o Left("stderr"), s) = Own(Left("stdout"), s) \o Own(Left("stderr"), s)
    BY <2>1, <2>2, OwnJoined
  <2>4. LastOf(s) \in Seq(BoundedLines)
    BY <1>4
  <2>5. Own(Flushed, s) = LastOf(s)
    <3>1. LastOf(s) \o <<>> = LastOf(s) /\ <<>> \o LastOf(s) = LastOf(s)
      BY <2>4, ConcatEmptySeq
    <3>2. Own(Flushed, s) = OwnLast("stdout") \o OwnLast("stderr")
      BY <2>1, <2>2, <2>3 DEF Flushed
    <3>3. CASE s = "stdout"
      BY <3>1, <3>2, <3>3
    <3>4. CASE s = "stderr"
      BY <3>1, <3>2, <3>4
    <3> QED
      BY <2>1, <3>3, <3>4
  <2>6. /\ Own(combined \o Flushed, s) = Own(combined, s) \o Own(Flushed, s)
        /\ Own(combined, s) \in Seq(BoundedLines)
    BY <1>3, OwnJoined
  <2> QED
    BY <1>1, <2>4, <2>5, <2>6
<1>6. ASSUME NEW s \in Streams
      PROVE  LoggedInWhole(s)'
  <2>1. received'[s] = received[s] /\ received[s] \in Bytes /\ finished'
    BY <1>1, <1>2
  <2>2. CASE finished
    <3> DEFINE own == Own(combined, s)
               more == LastOf(s)
    <3>1. /\ own \in Seq(BoundedLines) /\ more \in Seq(BoundedLines)
          /\ Own(combined, s) = own /\ Own(combined', s) = own \o more
      BY <1>5
    <3> HIDE DEF own, more
    <3> QED
      BY <1>2, <2>1, <2>2, <3>1, MoreLines
  <2>3. CASE ~finished
    <3> DEFINE a == received[s]
               u == Unterminated(a)
    <3>1. /\ overflowed[s] <=> Len(u) > MaxPending
          /\ pending[s] = IF overflowed[s] THEN <<>> ELSE u
      BY <1>2, <2>3 DEF Caught
    <3>2. ReturnAtTheEdge(a) \/ Own(combined, s) = LinesOf(a)
      BY <1>2, <2>3, OwnIsLogged DEF LoggedInWhole
    <3>3. LastLine(a) = LastOf(s)
      <4>1. u \in Bytes /\ Len(u) \in Nat /\ MaxPending \in Nat /\ (u = <<>> <=> Len(u) = 0)
        BY <2>1, OutputAssumption, LinesAreBytes, LenProperties, EmptySeq DEF Bytes
      <4>2. CASE Len(u) > MaxPending
        <5>1. LastLine(a) = <<>>
          BY <4>1, <4>2 DEF LastLine
        <5> QED
          BY <3>1, <4>2, <5>1 DEF LastOf
      <4>3. CASE ~ (Len(u) > MaxPending)
        <5>1. pending[s] = u
          BY <3>1, <4>3
        <5>2. Len(u) \in 1 .. MaxPending <=> u # <<>>
          BY <4>1, <4>3
        <5> QED
          BY <5>1, <5>2 DEF LastLine, LastOf
      <4> QED
        BY <4>2, <4>3
    <3>4. Logged(s)' = Own(combined, s) \o LastOf(s)
      BY <1>5, OwnIsLogged
    <3>5. IsPrefix(LinesOf(a) \o LastLine(a), LinesOf(a) \o LastLine(a))
      BY <2>1, LastLineTyped, PrefixOfItself
    <3>6. \/ ReturnAtTheEdge(a)
          \/ IsPrefix(LinesOf(a) \o LastLine(a), Logged(s)')
      BY <3>2, <3>3, <3>4, <3>5
    <3> QED
      BY <2>1, <3>6 DEF LoggedInWhole
  <2> QED
    BY <2>2, <2>3
<1> QED
  BY <1>1, <1>2, <1>6 DEF ReadInWhole

LEMMA OthersRead ==
    ASSUME ReadInWhole, UNCHANGED <<lineVars, finished, received>>
    PROVE  ReadInWhole'
<1>1. /\ pending' = pending /\ overflowed' = overflowed /\ combined' = combined
      /\ finished' = finished /\ received' = received
  BY DEF lineVars
<1>2. \A s \in Streams : Logged(s)' = Logged(s)
  BY <1>1, OwnIsLogged
<1> QED
  BY <1>1, <1>2 DEF ReadInWhole, Caught, LoggedInWhole

LEMMA StartReads == Init => ReadInWhole
<1> SUFFICES ASSUME Init PROVE ReadInWhole
  OBVIOUS
<1>1. /\ pending = [s \in Streams |-> <<>>] /\ overflowed = [s \in Streams |-> FALSE]
      /\ combined = <<>> /\ received = [s \in Streams |-> <<>>] /\ finished = FALSE
  BY DEF Init
<1>2. <<>> \in Bytes /\ Newlines(<<>>) = {} /\ Len(<<>>) = 0 /\ MaxPending \in Nat
  BY OutputAssumption, EmptySeq DEF Bytes, Newlines
<1>3. LinesOf(<<>>) = <<>>
  <2>1. Whole(<<>>) = <<>>
    BY <1>2, NothingWhole
  <2>2. Early(<<>>) = <<>>
    BY <1>2, NothingUnterminated DEF Early
  <2> QED
    BY <1>2, <2>1, <2>2, LinesOfTyped, ConcatEmptySeq
<1>4. ASSUME NEW s \in Streams
      PROVE  Caught(s) /\ LoggedInWhole(s)
  <2>1. Caught(s)
    <3>1. Unterminated(received[s]) = <<>> /\ ~ (Len(Unterminated(received[s])) > MaxPending)
      BY <1>1, <1>2, NothingUnterminated
    <3>2. pending[s] = <<>> /\ overflowed[s] = FALSE
      BY <1>1
    <3>3. overflowed[s] <=> Len(Unterminated(received[s])) > MaxPending
      BY <3>1, <3>2
    <3>4. pending[s] = IF overflowed[s] THEN <<>> ELSE Unterminated(received[s])
      BY <3>1, <3>2
    <3> QED
      BY <3>3, <3>4 DEF Caught
  <2>2. Own(<<>>, s) = <<>>
    <3>1. OfStream(<<>>, s) = {}
      BY DEF OfStream
    <3>2. TheLines(<<>>) = <<>>
      BY DEF TheLines
    <3> QED
      BY <3>1, <3>2, PickedNone DEF Own
  <2>3. Logged(s) = LinesOf(received[s])
    BY <1>1, <1>3, <2>2, OwnIsLogged
  <2> QED
    BY <1>1, <2>1, <2>3 DEF LoggedInWhole
<1>5. received \in [Streams -> Bytes]
  BY <1>1, <1>2
<1> QED
  BY <1>1, <1>4, <1>5 DEF ReadInWhole

LEMMA StepReads ==
    ASSUME OutputInv, ReadInWhole, [Next]_vars
    PROVE  ReadInWhole'
<1>1. ASSUME NEW s \in Streams, NEW c \in Chunks[s], Chunk(s, c)
      PROVE  ReadInWhole'
  BY <1>1, ChunkReads
<1>2. CASE TimerFires
  BY <1>2, OthersRead DEF TimerFires
<1>3. CASE Flush
  BY <1>3, FlushReads
<1>4. CASE clear
  BY <1>4, OthersRead DEF clear
<1>5. CASE Tock
  BY <1>5, OthersRead DEF Tock
<1>6. CASE UNCHANGED vars
  BY <1>6, OthersRead DEF vars
<1> QED
  BY <1>1, <1>2, <1>3, <1>4, <1>5, <1>6 DEF Next

(* However the output was cut into chunks, the log has the lines of the whole
   stream, the too long ones cut once (extractCompleteLines,
   process-output.ts) - for every bound on a line and all chunks. *)
THEOREM CutsAreInvisible == Spec => []ChunkingIsInvisible
<1>1. Init => ReadInWhole
  BY StartReads
<1>2. OutputInv /\ ReadInWhole /\ [Next]_vars => ReadInWhole'
  BY StepReads
<1>3. ReadInWhole => ChunkingIsInvisible
  BY DEF ReadInWhole, LoggedInWhole, ChunkingIsInvisible
<1> QED
  BY <1>1, <1>2, <1>3, OutputInvariance, PTL DEF Spec

-----------------------------------------------------------------------------
(* The log files: the cap holds for every cap, marker, size of entries and
   number of failures. The store compares its own count with the cap, so the
   argument is about the count: it is too low only by bytes the store never
   got to count (CountIsSafe). What a file has lost is marked, whatever fails:
   a file has lost nothing while it is empty, and is only made to lose
   something by the calls that put the marker first. *)

(* An absent file is empty, and nothing of it is uncounted. *)
Sized ==
    /\ fileSize \in [Names -> Nat] /\ fileBytes \in [Names -> Nat]
    /\ spill \in [Names -> Nat]
    /\ present \subseteq Names
    /\ \A f \in Names \ present : fileSize[f] = 0 /\ spill[f] = 0

SInv == Sized /\ CountIsSafe /\ CapIsKept

(* What a call does to the sizes of one file, the others being left alone. *)
Resized(f, size, count, uncounted) ==
    /\ fileSize' = [fileSize EXCEPT ![f] = size]
    /\ fileBytes' = [fileBytes EXCEPT ![f] = count]
    /\ spill' = [spill EXCEPT ![f] = uncounted]
    /\ present' = present \cup {f}

(* A file that keeps the bounds when the others do. *)
LEMMA ResizedInv ==
    ASSUME SInv, NEW f \in Names, NEW size \in Nat, NEW count \in Nat,
           NEW uncounted \in Nat, Resized(f, size, count, uncounted),
           size <= count + uncounted,
           size <= Cap + uncounted \/ size <= MarkerSize + Largest + uncounted
    PROVE  SInv'
<1>1. /\ fileSize'[f] = size /\ fileBytes'[f] = count /\ spill'[f] = uncounted
      /\ \A g \in Names \ {f} : /\ fileSize'[g] = fileSize[g]
                                /\ fileBytes'[g] = fileBytes[g]
                                /\ spill'[g] = spill[g]
  BY DEF SInv, Sized, Resized
<1>2. Sized'
  BY <1>1 DEF SInv, Sized, Resized
<1>3. CountIsSafe'
  BY <1>1 DEF SInv, CountIsSafe
<1>4. CapIsKept'
  BY <1>1 DEF SInv, CapIsKept
<1> QED
  BY <1>2, <1>3, <1>4 DEF SInv

(* What is in a file before its entry, and how far it is counted. *)
LEMMA Bases ==
    ASSUME SInv, NEW f \in Names, NEW size \in Sizes
    PROVE  /\ BaseSize(f, size) \in Nat /\ BaseBytes(f, size) \in Nat
           /\ BaseSpill(f, size) \in Nat /\ size \in Nat /\ size <= Largest
           /\ BaseSize(f, size) <= BaseBytes(f, size) + BaseSpill(f, size)
           /\ \/ BaseSize(f, size) + size <= Cap + BaseSpill(f, size)
              \/ BaseSize(f, size) + size <= MarkerSize + Largest + BaseSpill(f, size)
<1>1. /\ fileSize[f] \in Nat /\ fileBytes[f] \in Nat /\ spill[f] \in Nat
      /\ fileSize[f] <= fileBytes[f] + spill[f]
      /\ size \in Nat /\ size <= Largest /\ MarkerSize \in Nat /\ Cap \in Nat
      /\ Largest \in Nat
  BY StoreAssumption DEF SInv, Sized, CountIsSafe
<1>2. CASE Full(f, size)
  BY <1>1, <1>2 DEF BaseSize, BaseBytes, BaseSpill
<1>3. CASE ~Full(f, size)
  BY <1>1, <1>3 DEF BaseSize, BaseBytes, BaseSpill, Full
<1> QED
  BY <1>2, <1>3

(* An append keeps the bounds, whether it succeeds or fails, and wherever. *)
LEMMA AppendInv ==
    ASSUME SInv, NEW f \in Names, NEW size \in Sizes, AppendEntry(f, size)
    PROVE  SInv'
<1> DEFINE base == BaseSize(f, size)
           count == BaseBytes(f, size)
           uncounted == BaseSpill(f, size)
<1>1. /\ base \in Nat /\ count \in Nat /\ uncounted \in Nat
      /\ size \in Nat /\ size <= Largest /\ base <= count + uncounted
      /\ \/ base + size <= Cap + uncounted
         \/ base + size <= MarkerSize + Largest + uncounted
  BY Bases
<1>2. /\ fileSize[f] \in Nat /\ fileBytes[f] \in Nat /\ spill[f] \in Nat
      /\ MarkerSize \in Nat /\ Cap \in Nat /\ Largest \in Nat
      /\ fileBytes \in [Names -> Nat]
  BY StoreAssumption DEF SInv, Sized
<1> HIDE DEF base, count, uncounted
<1>3. CASE appendCapped(f, size)
  <2>1. Resized(f, base + size, count + size, uncounted)
    BY <1>3 DEF appendCapped, Resized, base, count, uncounted
  <2>2. base + size \in Nat /\ count + size \in Nat
    BY <1>1
  <2>3. /\ base + size <= (count + size) + uncounted
        /\ \/ base + size <= Cap + uncounted
           \/ base + size <= MarkerSize + Largest + uncounted
    BY <1>1
  <2> QED
    BY <1>1, <2>1, <2>2, <2>3, ResizedInv
<1>4. CASE AppendFails(f, size)
  BY <1>4 DEF AppendFails, SInv, Sized, CountIsSafe, CapIsKept
<1>5. CASE MarkerFails(f, size)
  <2>1. PICK part \in 0 .. MarkerSize - 1 :
            /\ Full(f, size) /\ Reachable(f, size)
            /\ fileSize' = [fileSize EXCEPT ![f] = part]
            /\ spill' = [spill EXCEPT ![f] = part]
            /\ UNCHANGED <<present, fileBytes>>
    BY <1>5 DEF MarkerFails
  <2>2. part \in Nat
    BY <1>2, <2>1
  <2>3. f \in present
    BY <2>1 DEF Reachable
  <2>4. Resized(f, part, fileBytes[f], part)
    <3>1. present' = present \cup {f}
      BY <2>1, <2>3
    <3>2. fileBytes' = [fileBytes EXCEPT ![f] = fileBytes[f]]
      BY <1>2, <2>1
    <3> QED
      BY <2>1, <3>1, <3>2 DEF Resized
  <2>5. part <= fileBytes[f] + part /\ part <= Cap + part
    BY <1>2, <2>2
  <2>6. fileBytes[f] \in Nat
    BY <1>2
  <2> QED
    BY <2>2, <2>4, <2>5, <2>6, ResizedInv
<1>6. CASE EntryFails(f, size)
  <2>1. PICK part \in 0 .. size - 1 :
            Resized(f, base + part, count, uncounted + part)
    BY <1>6 DEF EntryFails, Resized, base, count, uncounted
  <2>2. part \in Nat /\ part <= size
    BY <1>1
  <2>3. base + part \in Nat /\ uncounted + part \in Nat
    BY <1>1, <2>2
  <2>4. /\ base + part <= count + (uncounted + part)
        /\ \/ base + part <= Cap + (uncounted + part)
           \/ base + part <= MarkerSize + Largest + (uncounted + part)
    BY <1>1, <1>2, <2>2
  <2> QED
    BY <1>1, <2>1, <2>3, <2>4, ResizedInv
<1> QED
  BY <1>3, <1>4, <1>5, <1>6 DEF AppendEntry

(* New logs are counted as large as they are. *)
LEMMA CreateInv ==
    ASSUME SInv, NEW made \in 0 .. Len(Files), createLogs(made)
    PROVE  SInv'
<1>1. /\ UNCHANGED <<fileSize, spill>> /\ present \subseteq present'
      /\ present' \subseteq Names
      /\ fileBytes' = fileBytes \/ fileBytes' = [f \in Names |-> fileSize[f]]
  BY DEF createLogs, Counted, Names, SInv, Sized, Range
<1>2. Sized'
  BY <1>1 DEF SInv, Sized
<1>3. CountIsSafe' /\ CapIsKept'
  BY <1>1 DEF SInv, Sized, CountIsSafe, CapIsKept
<1> QED
  BY <1>2, <1>3 DEF SInv

(* Removing logs leaves counts too high, never too low. *)
LEMMA RemoveInv ==
    ASSUME SInv, NEW done \in 0 .. Len(Files), removeLogs(done)
    PROVE  SInv'
<1>1. PICK gone :
          /\ present' = present \ gone
          /\ fileSize' = [f \in Names |-> IF f \in gone THEN 0 ELSE fileSize[f]]
          /\ spill' = [f \in Names |-> IF f \notin present' THEN 0 ELSE spill[f]]
          /\ UNCHANGED fileBytes
  BY DEF removeLogs, Removed
<1>2. Sized'
  BY <1>1 DEF SInv, Sized
<1>3. CountIsSafe' /\ CapIsKept'
  BY <1>1, StoreAssumption DEF SInv, Sized, CountIsSafe, CapIsKept
<1> QED
  BY <1>2, <1>3 DEF SInv

(* After a cleanup nothing is counted, and what it left is uncounted. *)
LEMMA CleanupInv ==
    ASSUME SInv, NEW gone \in SUBSET Names, NEW left \in BOOLEAN, cleanup(gone, left)
    PROVE  SInv'
<1>1. /\ present' = present \ gone
      /\ fileSize' = [f \in Names |-> IF f \in gone THEN 0 ELSE fileSize[f]]
      /\ spill' = [f \in Names |-> IF f \in gone THEN 0 ELSE fileSize[f]]
      /\ fileBytes' = [f \in Names |-> 0]
  BY DEF cleanup, Removed
<1>2. Sized'
  BY <1>1 DEF SInv, Sized
<1>3. CountIsSafe' /\ CapIsKept'
  BY <1>1, StoreAssumption DEF SInv, Sized, CountIsSafe, CapIsKept
<1> QED
  BY <1>2, <1>3 DEF SInv

(* Initially nothing is counted, and what an earlier process left fits. *)
LEMMA InitInv == StoreInit => SInv
<1> SUFFICES ASSUME StoreInit PROVE SInv
  OBVIOUS
<1>1. {0} \cup {size \in Sizes : size <= Cap} \subseteq Nat
  <2>1. ASSUME NEW size \in Sizes PROVE size \in Nat
    BY StoreAssumption
  <2> QED
    BY <2>1
<1>2. /\ fileSize \in [Names -> Nat]
      /\ fileBytes = [f \in Names |-> 0] /\ spill = fileSize
      /\ present = {f \in Names : fileSize[f] > 0}
  <2>1. fileSize \in [Names -> {0} \cup {size \in Sizes : size <= Cap}]
    BY DEF StoreInit
  <2>2. fileSize \in [Names -> Nat]
    BY <1>1, <2>1
  <2> QED
    BY <2>2 DEF StoreInit
<1>3. Sized
  BY <1>2 DEF Sized
<1>4. CountIsSafe /\ CapIsKept
  <2>1. \A f \in Names : /\ fileSize[f] \in Nat /\ fileBytes[f] = 0
                         /\ spill[f] = fileSize[f]
    BY <1>2
  <2> QED
    BY <2>1, StoreAssumption DEF CountIsSafe, CapIsKept
<1> QED
  BY <1>3, <1>4 DEF SInv

(* The count is safe and the cap is kept in every reachable state. *)
THEOREM StoreInvariance == StoreSpec => []SInv
<1>1. StoreInit => SInv
  BY InitInv
<1>2. SInv /\ [StoreNext]_storeVars => SInv'
  <2> SUFFICES ASSUME SInv, [StoreNext]_storeVars PROVE SInv'
    OBVIOUS
  <2>1. CASE UNCHANGED storeVars
    BY <2>1 DEF storeVars, SInv, Sized, CountIsSafe, CapIsKept
  <2>2. CASE StoreNext
    BY <2>2, CreateInv, AppendInv, RemoveInv, CleanupInv DEF StoreNext
  <2> QED
    BY <2>1, <2>2
<1> QED
  BY <1>1, <1>2, PTL DEF StoreSpec

(* A log file exceeds the cap, or one entry after the marker, by no more than
   the bytes the store never got to count. *)
THEOREM CapKept == StoreSpec => []CapIsKept
<1>1. SInv => CapIsKept
  BY DEF SInv
<1> QED
  BY <1>1, StoreInvariance, PTL

-----------------------------------------------------------------------------
(* What a file holds. Entries are numbered in the order of the calls, so that
   what holds of a file whose last entry could be the last-th is kept by the
   next one. That an empty file has lost nothing is what makes the first entry
   without a marker right. *)
Pieces == [what : Int, whole : BOOLEAN]

Recent(pieces, got, last) ==
    /\ pieces \in Seq(Pieces) /\ got \subseteq 0 .. last
    /\ \A n, m \in Kept(pieces) : n < m => pieces[n].what < pieces[m].what
    /\ Held(pieces) \subseteq got
    /\ \A old \in Held(pieces), e \in got : old < e => e \in Held(pieces)

Marked(pieces, got) ==
    /\ pieces = <<>> => got = {}
    /\ pieces # <<>> /\ Held(pieces) # got => pieces[1].what = Marker

HInv ==
    /\ entries \in Nat
    /\ disk \in [Names -> Seq(Pieces)] /\ succeeded \in [Names -> SUBSET Nat]
    /\ \A f \in Names : /\ Recent(disk[f], succeeded[f], entries)
                        /\ f \notin torn => Marked(disk[f], succeeded[f])

LEMMA PieceIsPiece ==
    ASSUME NEW what \in Int, NEW whole \in BOOLEAN
    PROVE  /\ Piece(what, whole) \in Pieces
           /\ Piece(what, whole).what = what /\ Piece(what, whole).whole = whole
  BY DEF Piece, Pieces

(* Later numbers change nothing. *)
LEMMA RecentLater ==
    ASSUME NEW pieces, NEW got, NEW last \in Nat,
           Recent(pieces, got, last)
    PROVE  Recent(pieces, got, last + 1)
<1>1. got \subseteq 0 .. last + 1
  BY DEF Recent
<1> QED
  BY <1>1 DEF Recent

(* What one more piece adds to what is held. *)
LEMMA HeldAppend ==
    ASSUME NEW pieces \in Seq(Pieces), NEW piece \in Pieces
    PROVE  /\ Append(pieces, piece) \in Seq(Pieces)
           /\ Append(pieces, piece) # <<>>
           /\ DOMAIN Append(pieces, piece) = 1 .. Len(pieces) + 1
           /\ DOMAIN pieces = 1 .. Len(pieces) /\ Len(pieces) \in Nat
           /\ \A n \in 1 .. Len(pieces) : Append(pieces, piece)[n] = pieces[n]
           /\ Append(pieces, piece)[Len(pieces) + 1] = piece
           /\ pieces = <<>> => Len(pieces) = 0
           /\ pieces # <<>> => 1 \in DOMAIN pieces
  BY AppendProperties, EmptySeq, SMTT(30)

(* A whole entry, the latest, is held on top of what was. *)
LEMMA EntryHeld ==
    ASSUME NEW pieces, NEW got, NEW last \in Nat,
           Recent(pieces, got, last)
    PROVE  LET more == Append(pieces, Piece(last + 1, TRUE))
           IN  /\ Recent(more, got \cup {last + 1}, last + 1)
               /\ Marked(pieces, got) => Marked(more, got \cup {last + 1})
<1> DEFINE entry == Piece(last + 1, TRUE)
           more == Append(pieces, entry)
<1>1. /\ entry \in Pieces /\ entry.what = last + 1 /\ entry.whole = TRUE
  <2>1. last + 1 \in Int
    OBVIOUS
  <2> QED
    BY <2>1, PieceIsPiece
<1>2. pieces \in Seq(Pieces) /\ got \subseteq 0 .. last
  BY DEF Recent
<1> HIDE DEF entry
<1>3. /\ more \in Seq(Pieces) /\ more # <<>>
      /\ DOMAIN more = 1 .. Len(pieces) + 1 /\ DOMAIN pieces = 1 .. Len(pieces)
      /\ Len(pieces) \in Nat
      /\ \A n \in 1 .. Len(pieces) : more[n] = pieces[n]
      /\ more[Len(pieces) + 1] = entry
      /\ pieces = <<>> => Len(pieces) = 0
      /\ pieces # <<>> => 1 \in DOMAIN pieces
  BY <1>1, <1>2, HeldAppend
<1> HIDE DEF more
<1>4. last + 1 # Marker
  BY DEF Marker
<1>5. Kept(more) = Kept(pieces) \cup {Len(pieces) + 1}
  BY <1>1, <1>3, <1>4 DEF Kept
<1>6. Held(more) = Held(pieces) \cup {last + 1}
  <2>1. \A n \in Kept(pieces) : more[n] = pieces[n]
    BY <1>3 DEF Kept
  <2> QED
    BY <1>1, <1>3, <1>5, <2>1 DEF Held
<1>7. \A n \in Kept(pieces) : n \in 1 .. Len(pieces) /\ pieces[n].what \in 0 .. last
  <2>1. ASSUME NEW n \in Kept(pieces) PROVE pieces[n].what \in Held(pieces)
    BY DEF Held
  <2>2. Held(pieces) \subseteq 0 .. last
    BY <1>2 DEF Recent
  <2>3. Kept(pieces) \subseteq 1 .. Len(pieces)
    BY <1>3 DEF Kept
  <2> QED
    BY <2>1, <2>2, <2>3
<1>8. \A n, m \in Kept(more) : n < m => more[n].what < more[m].what
  BY <1>1, <1>3, <1>5, <1>7 DEF Recent
<1>9. got \cup {last + 1} \subseteq 0 .. last + 1
  BY <1>2
<1>10. \A old \in Held(more), e \in got \cup {last + 1} : old < e => e \in Held(more)
  <2> SUFFICES ASSUME NEW old \in Held(more), NEW e \in got, old < e
               PROVE  e \in Held(more)
    BY <1>6
  <2>1. e \in 0 .. last /\ old # last + 1
    BY <1>2
  <2>2. old \in Held(pieces)
    BY <1>6, <2>1
  <2> QED
    BY <1>6, <2>2 DEF Recent
<1>11. Marked(pieces, got) /\ Held(more) # got \cup {last + 1} =>
          more[1].what = Marker
  <2> SUFFICES ASSUME Marked(pieces, got), Held(more) # got \cup {last + 1}
               PROVE  more[1].what = Marker
    OBVIOUS
  <2>1. Held(pieces) # got
    BY <1>6
  <2>2. pieces # <<>>
    <3>1. SUFFICES ASSUME pieces = <<>> PROVE FALSE
      OBVIOUS
    <3>2. got = {} /\ Held(pieces) \subseteq got
      BY <3>1 DEF Recent, Marked
    <3> QED
      BY <2>1, <3>2
  <2>3. pieces[1].what = Marker
    BY <2>1, <2>2 DEF Marked
  <2> QED
    BY <1>3, <2>2, <2>3
<1>12. Held(more) \subseteq got \cup {last + 1}
  BY <1>6 DEF Recent
<1>13. Recent(more, got \cup {last + 1}, last + 1)
  BY <1>3, <1>8, <1>9, <1>10, <1>12 DEF Recent
<1>14. Marked(pieces, got) => Marked(more, got \cup {last + 1})
  BY <1>3, <1>11 DEF Marked
<1> QED
  BY <1>13, <1>14 DEF more, entry

(* What a failing write leaves of an entry is not held. *)
LEMMA PartNotHeld ==
    ASSUME NEW pieces, NEW got, NEW last \in Nat,
           Recent(pieces, got, last), NEW bytes \in Nat
    PROVE  LET more == pieces \o Part(last + 1, bytes)
           IN  /\ Recent(more, got, last + 1)
               /\ Marked(pieces, got) => Marked(more, got)
<1> DEFINE part == Piece(last + 1, FALSE)
           more == Append(pieces, part)
<1>1. pieces \in Seq(Pieces) /\ got \subseteq 0 .. last
  BY DEF Recent
<1>2. CASE bytes = 0
  <2>1. pieces \o Part(last + 1, bytes) = pieces
    BY <1>1, <1>2, ConcatEmptySeq DEF Part
  <2> QED
    BY <2>1, RecentLater
<1>3. CASE bytes # 0
  <2>1. part \in Pieces /\ part.whole = FALSE
    <3>1. last + 1 \in Int
      OBVIOUS
    <3> QED
      BY <3>1, PieceIsPiece
  <2> HIDE DEF part
  <2>2. pieces \o Part(last + 1, bytes) = more
    <3>1. Part(last + 1, bytes) = <<part>>
      BY <1>3 DEF Part, part
    <3> QED
      BY <1>1, <2>1, <3>1, AppendIsConcat
  <2>3. /\ more \in Seq(Pieces) /\ more # <<>>
        /\ DOMAIN more = 1 .. Len(pieces) + 1 /\ DOMAIN pieces = 1 .. Len(pieces)
        /\ Len(pieces) \in Nat
        /\ \A n \in 1 .. Len(pieces) : more[n] = pieces[n]
        /\ more[Len(pieces) + 1] = part
        /\ pieces # <<>> => 1 \in DOMAIN pieces
    BY <1>1, <2>1, HeldAppend
  <2> HIDE DEF more
  <2>4. Kept(more) = Kept(pieces) /\ \A n \in Kept(pieces) : more[n] = pieces[n]
    BY <2>1, <2>3 DEF Kept
  <2>5. Held(more) = Held(pieces)
    BY <2>4 DEF Held
  <2>6. got \subseteq 0 .. last + 1
    BY <1>1
  <2>7. Recent(more, got, last + 1)
    BY <2>3, <2>4, <2>5, <2>6 DEF Recent
  <2>8. Marked(pieces, got) => Marked(more, got)
    <3> SUFFICES ASSUME Marked(pieces, got), Held(more) # got
                 PROVE  more[1].what = Marker
      BY <2>3 DEF Marked
    <3>1. pieces # <<>>
      <4>1. SUFFICES ASSUME pieces = <<>> PROVE FALSE
        OBVIOUS
      <4>2. got = {} /\ Held(pieces) \subseteq got
        BY <4>1 DEF Recent, Marked
      <4> QED
        BY <2>5, <4>2
    <3> QED
      BY <2>3, <2>5, <3>1 DEF Marked
  <2> QED
    BY <2>2, <2>7, <2>8
<1> QED
  BY <1>2, <1>3

(* A file emptied down to its marker, whole or torn, and one that is new. *)
LEMMA BegunAnew ==
    ASSUME NEW last \in Nat, NEW got \in SUBSET (0 .. last)
    PROVE  /\ Recent(<<Piece(Marker, TRUE)>>, got, last)
           /\ Marked(<<Piece(Marker, TRUE)>>, got)
           /\ \A bytes \in Nat : Recent(Part(Marker, bytes), got, last)
           /\ Recent(<<>>, {}, last) /\ Marked(<<>>, {})
           /\ Recent(<<Piece(0, TRUE)>>, {0}, last) /\ Marked(<<Piece(0, TRUE)>>, {0})
<1>1. /\ \A whole \in BOOLEAN : /\ Piece(Marker, whole) \in Pieces
                               /\ Piece(Marker, whole).what = Marker
      /\ Piece(0, TRUE) \in Pieces /\ Piece(0, TRUE).what = 0 /\ Piece(0, TRUE).whole
      /\ Marker \in Int /\ Marker # 0
  <2>1. Marker \in Int /\ Marker # 0
    BY DEF Marker
  <2>2. 0 \in Int /\ TRUE \in BOOLEAN
    OBVIOUS
  <2>3. /\ Piece(0, TRUE) \in Pieces /\ Piece(0, TRUE).what = 0
        /\ Piece(0, TRUE).whole = TRUE
    BY <2>2, PieceIsPiece
  <2>4. ASSUME NEW whole \in BOOLEAN
        PROVE  Piece(Marker, whole) \in Pieces /\ Piece(Marker, whole).what = Marker
    BY <2>1, PieceIsPiece
  <2> QED
    BY <2>1, <2>3, <2>4
<1>2. \A p \in Pieces : /\ <<p>> \in Seq(Pieces) /\ <<p>> # <<>>
                       /\ DOMAIN <<p>> = {1} /\ <<p>>[1] = p
  OBVIOUS
<1>3. <<>> \in Seq(Pieces) /\ DOMAIN <<>> = {}
  OBVIOUS
<1>4. Kept(<<>>) = {} /\ Held(<<>>) = {}
  BY <1>3 DEF Kept, Held
<1>5. \A whole \in BOOLEAN : /\ Kept(<<Piece(Marker, whole)>>) = {}
                           /\ Held(<<Piece(Marker, whole)>>) = {}
  BY <1>1, <1>2 DEF Kept, Held
<1>6. Kept(<<Piece(0, TRUE)>>) = {1} /\ Held(<<Piece(0, TRUE)>>) = {0}
  <2> DEFINE piece == Piece(0, TRUE)
  <2>0. /\ DOMAIN <<piece>> = {1} /\ <<piece>>[1] = piece
        /\ piece.what = 0 /\ piece.whole /\ piece.what # Marker
    BY <1>1, <1>2
  <2> HIDE DEF piece
  <2>1. Kept(<<piece>>) = {1}
    BY <2>0 DEF Kept
  <2>2. <<piece>>[1].what = 0
    BY <2>0
  <2>3. Kept(<<piece>>) = {1} /\ Held(<<piece>>) = {0}
    BY <2>1, <2>2, Zenon DEF Held
  <2> QED
    BY <2>3 DEF piece
<1>7. /\ Recent(<<Piece(Marker, TRUE)>>, got, last)
      /\ Marked(<<Piece(Marker, TRUE)>>, got)
  BY <1>1, <1>2, <1>5 DEF Recent, Marked
<1>8. \A bytes \in Nat : Recent(Part(Marker, bytes), got, last)
  BY <1>1, <1>2, <1>3, <1>4, <1>5 DEF Recent, Part
<1>9. Recent(<<>>, {}, last) /\ Marked(<<>>, {})
  BY <1>3, <1>4 DEF Recent, Marked
<1>10. Recent(<<Piece(0, TRUE)>>, {0}, last) /\ Marked(<<Piece(0, TRUE)>>, {0})
  <2>1. 0 \in 0 .. last
    OBVIOUS
  <2>2. \A n, m \in {1} : ~(n < m)
    OBVIOUS
  <2>3. \A old, e \in {0} : ~(old < e)
    OBVIOUS
  <2>4. <<Piece(0, TRUE)>> \in Seq(Pieces) /\ <<Piece(0, TRUE)>> # <<>>
    BY <1>1, <1>2
  <2> QED
    BY <1>6, <2>1, <2>2, <2>3, <2>4 DEF Recent, Marked
<1> QED
  BY <1>7, <1>8, <1>9, <1>10

(* What an entry does to one file, the others being left alone. *)
LEMMA RewrittenInv ==
    ASSUME HInv, entries' = entries + 1, NEW f \in Names, NEW pieces, NEW got,
           disk' = [disk EXCEPT ![f] = pieces],
           succeeded' = [succeeded EXCEPT ![f] = got],
           torn' \ {f} = torn \ {f},
           Recent(pieces, got, entries + 1),
           f \notin torn' => Marked(pieces, got)
    PROVE  HInv'
<1>1. pieces \in Seq(Pieces) /\ got \in SUBSET Nat
  <2>1. got \subseteq 0 .. entries + 1 /\ entries \in Nat
    BY DEF Recent, HInv
  <2> QED
    BY <2>1 DEF Recent
<1>2. /\ disk' \in [Names -> Seq(Pieces)] /\ succeeded' \in [Names -> SUBSET Nat]
      /\ entries' \in Nat
  BY <1>1 DEF HInv
<1>3. ASSUME NEW g \in Names
      PROVE  /\ Recent(disk'[g], succeeded'[g], entries')
             /\ g \notin torn' => Marked(disk'[g], succeeded'[g])
  <2>1. CASE g = f
    <3>1. disk'[g] = pieces /\ succeeded'[g] = got
      BY <2>1 DEF HInv
    <3> QED
      BY <2>1, <3>1
  <2>2. CASE g # f
    <3>1. /\ disk'[g] = disk[g] /\ succeeded'[g] = succeeded[g]
          /\ g \in torn' <=> g \in torn
      BY <2>2 DEF HInv
    <3>2. /\ Recent(disk[g], succeeded[g], entries) /\ entries \in Nat
          /\ g \notin torn => Marked(disk[g], succeeded[g])
      BY DEF HInv
    <3>3. Recent(disk[g], succeeded[g], entries + 1)
      BY <3>2, RecentLater
    <3> QED
      BY <3>1, <3>2, <3>3
  <2> QED
    BY <2>1, <2>2
<1> QED
  BY <1>2, <1>3 DEF HInv

LEMMA AppendHolds ==
    ASSUME HInv, NEW f \in Names, NEW size \in Sizes, AppendEntry(f, size)
    PROVE  HInv'
<1>1. /\ entries \in Nat /\ entries' = entries + 1
      /\ disk \in [Names -> Seq(Pieces)] /\ succeeded \in [Names -> SUBSET Nat]
      /\ \A g \in Names : /\ Recent(disk[g], succeeded[g], entries)
                          /\ g \notin torn => Marked(disk[g], succeeded[g])
  BY DEF HInv, AppendEntry
<1>2. succeeded[f] \in SUBSET (0 .. entries)
  BY <1>1 DEF Recent
<1>3. /\ Recent(Base(f, size), succeeded[f], entries)
      /\ f \notin BaseTorn(f, size) => Marked(Base(f, size), succeeded[f])
  <2>1. CASE Full(f, size)
    <3>1. Base(f, size) = <<Piece(Marker, TRUE)>>
      BY <2>1 DEF Base
    <3> QED
      BY <1>1, <1>2, <3>1, BegunAnew
  <2>2. CASE ~Full(f, size)
    BY <1>1, <2>2 DEF BaseTorn, Base
  <2> QED
    BY <2>1, <2>2
<1>4. BaseTorn(f, size) \ {f} = torn \ {f}
  BY DEF BaseTorn
<1>6. CASE appendCapped(f, size)
  <2>1. /\ disk' = [disk EXCEPT ![f] = Append(Base(f, size), Piece(entries + 1, TRUE))]
        /\ succeeded' = [succeeded EXCEPT ![f] = succeeded[f] \cup {entries + 1}]
        /\ torn' = BaseTorn(f, size)
    BY <1>6 DEF appendCapped
  <2>2. /\ Recent(Append(Base(f, size), Piece(entries + 1, TRUE)),
                  succeeded[f] \cup {entries + 1}, entries + 1)
        /\ f \notin torn' => Marked(Append(Base(f, size), Piece(entries + 1, TRUE)),
                                   succeeded[f] \cup {entries + 1})
    BY <1>1, <1>3, <2>1, EntryHeld
  <2> QED
    BY <1>1, <1>4, <2>1, <2>2, RewrittenInv
<1>7. CASE AppendFails(f, size)
  <2>1. UNCHANGED <<disk, torn, succeeded>>
    BY <1>7 DEF AppendFails
  <2>2. disk' = [disk EXCEPT ![f] = disk[f]] /\ succeeded' = [succeeded EXCEPT ![f] = succeeded[f]]
    BY <1>1, <2>1
  <2>3. /\ Recent(disk[f], succeeded[f], entries + 1)
        /\ f \notin torn' => Marked(disk[f], succeeded[f])
    BY <1>1, <2>1, RecentLater
  <2> QED
    BY <1>1, <2>1, <2>2, <2>3, RewrittenInv
<1>8. CASE MarkerFails(f, size)
  <2>1. PICK part \in 0 .. MarkerSize - 1 :
            /\ disk' = [disk EXCEPT ![f] = Part(Marker, part)]
            /\ torn' = torn \cup {f} /\ UNCHANGED succeeded
    BY <1>8 DEF MarkerFails
  <2>2. part \in Nat /\ f \in torn' /\ torn' \ {f} = torn \ {f}
    BY <2>1, StoreAssumption
  <2>3. Recent(Part(Marker, part), succeeded[f], entries)
    BY <1>1, <1>2, <2>2, BegunAnew
  <2>4. Recent(Part(Marker, part), succeeded[f], entries + 1)
    BY <1>1, <2>3, RecentLater
  <2>5. succeeded' = [succeeded EXCEPT ![f] = succeeded[f]]
    BY <1>1, <2>1
  <2> QED
    BY <1>1, <2>1, <2>2, <2>4, <2>5, RewrittenInv
<1>9. CASE EntryFails(f, size)
  <2>1. PICK part \in 0 .. size - 1 :
            /\ disk' = [disk EXCEPT ![f] = Base(f, size) \o Part(entries + 1, part)]
            /\ torn' = BaseTorn(f, size) /\ UNCHANGED succeeded
    BY <1>9 DEF EntryFails
  <2>2. part \in Nat
    BY <2>1, StoreAssumption
  <2>3. /\ Recent(Base(f, size) \o Part(entries + 1, part), succeeded[f], entries + 1)
        /\ f \notin torn' =>
              Marked(Base(f, size) \o Part(entries + 1, part), succeeded[f])
    BY <1>1, <1>3, <2>1, <2>2, PartNotHeld
  <2>4. succeeded' = [succeeded EXCEPT ![f] = succeeded[f]]
    BY <1>1, <2>1
  <2> QED
    BY <1>1, <1>4, <2>1, <2>3, <2>4, RewrittenInv
<1> QED
  BY <1>6, <1>7, <1>8, <1>9 DEF AppendEntry

(* A file that is removed has got nothing. *)
LEMMA RemovedHolds ==
    ASSUME HInv, NEW gone, Removed(gone), UNCHANGED entries
    PROVE  HInv'
<1>1. /\ entries \in Nat /\ torn' = torn \ gone
      /\ disk' = [f \in Names |-> IF f \in gone THEN <<>> ELSE disk[f]]
      /\ succeeded' = [f \in Names |-> IF f \in gone THEN {} ELSE succeeded[f]]
      /\ disk \in [Names -> Seq(Pieces)] /\ succeeded \in [Names -> SUBSET Nat]
      /\ \A g \in Names : /\ Recent(disk[g], succeeded[g], entries)
                          /\ g \notin torn => Marked(disk[g], succeeded[g])
  BY DEF HInv, Removed
<1>2. Recent(<<>>, {}, entries) /\ Marked(<<>>, {})
  BY <1>1, BegunAnew
<1>3. ASSUME NEW g \in Names
      PROVE  /\ Recent(disk'[g], succeeded'[g], entries')
             /\ g \notin torn' => Marked(disk'[g], succeeded'[g])
  BY <1>1, <1>2
<1>4. disk' \in [Names -> Seq(Pieces)] /\ succeeded' \in [Names -> SUBSET Nat]
  BY <1>1, EmptySeq
<1> QED
  BY <1>1, <1>3, <1>4 DEF HInv

LEMMA InitHolds == StoreInit => HInv
<1> SUFFICES ASSUME StoreInit PROVE HInv
  OBVIOUS
<1>1. /\ disk = [f \in Names |-> IF fileSize[f] = 0 THEN <<>> ELSE <<Piece(0, TRUE)>>]
      /\ \A f \in Names : f \in present <=> fileSize[f] # 0
      /\ succeeded = [f \in Names |-> IF f \in present THEN {0} ELSE {}]
      /\ entries = 0 /\ torn = {}
  <2>1. /\ fileSize \in [Names -> Nat] /\ present = {f \in Names : fileSize[f] > 0}
    BY InitInv DEF SInv, Sized, StoreInit
  <2>2. ASSUME NEW f \in Names PROVE f \in present <=> fileSize[f] # 0
    BY <2>1
  <2> QED
    BY <2>2 DEF StoreInit
<1>2. /\ Recent(<<>>, {}, 0) /\ Recent(<<Piece(0, TRUE)>>, {0}, 0)
      /\ Marked(<<>>, {}) /\ Marked(<<Piece(0, TRUE)>>, {0})
      /\ 0 \in Nat
  BY BegunAnew
<1>3. ASSUME NEW g \in Names
      PROVE  Recent(disk[g], succeeded[g], entries) /\ Marked(disk[g], succeeded[g])
  BY <1>1, <1>2
<1>4. disk \in [Names -> Seq(Pieces)] /\ succeeded \in [Names -> SUBSET Nat]
  <2>1. <<>> \in Seq(Pieces) /\ <<Piece(0, TRUE)>> \in Seq(Pieces)
    BY <1>2 DEF Recent
  <2>2. {0} \in SUBSET Nat /\ {} \in SUBSET Nat
    OBVIOUS
  <2> QED
    BY <1>1, <2>1, <2>2
<1> QED
  BY <1>1, <1>2, <1>3, <1>4 DEF HInv

(* A log file holds the most recent entries it got, in order, and begins
   with the marker when it holds anything and older ones are gone, unless
   writing the marker failed. *)
THEOREM LossMarked == StoreSpec => []LossIsMarked
<1>1. StoreInit => HInv
  BY InitHolds
<1>2. HInv /\ [StoreNext]_storeVars => HInv'
  <2> SUFFICES ASSUME HInv, [StoreNext]_storeVars PROVE HInv'
    OBVIOUS
  <2>1. CASE UNCHANGED storeVars
    BY <2>1 DEF storeVars, HInv
  <2>2. ASSUME NEW made \in 0 .. Len(Files), createLogs(made) PROVE HInv'
    BY <2>2 DEF createLogs, HInv
  <2>3. ASSUME NEW done \in 0 .. Len(Files), removeLogs(done) PROVE HInv'
    <3>1. PICK gone : Removed(gone) /\ UNCHANGED entries
      BY <2>3 DEF removeLogs
    <3> QED
      BY <3>1, RemovedHolds
  <2>4. ASSUME NEW gone \in SUBSET Names, NEW left \in BOOLEAN, cleanup(gone, left)
        PROVE  HInv'
    BY <2>4, RemovedHolds DEF cleanup
  <2> QED
    BY <2>1, <2>2, <2>3, <2>4, AppendHolds DEF StoreNext
<1>3. HInv => LossIsMarked
  BY DEF HInv, Recent, Marked, LossIsMarked
<1> QED
  BY <1>1, <1>2, <1>3, PTL DEF StoreSpec

-----------------------------------------------------------------------------
(* The log is read back. The end of some bytes *)

Ends(t, s) ==
    /\ Len(t) <= Len(s)
    /\ \A i \in 1 .. Len(t) : t[i] = s[Len(s) - Len(t) + i]

LEMMA StartIs ==
    ASSUME NEW s \in Bytes, NEW n \in 0 .. Len(s)
    PROVE  /\ SubSeq(s, 1, n) \in Bytes /\ Len(SubSeq(s, 1, n)) = n
           /\ \A i \in 1 .. n : SubSeq(s, 1, n)[i] = s[i]
<1>1. Len(s) \in Nat
  BY LenProperties DEF Bytes
<1>2. 1 \in 1 .. Len(s) + 1 /\ n \in Int /\ n <= Len(s)
  BY <1>1
<1>3. /\ SubSeq(s, 1, n) \in Bytes
      /\ Len(SubSeq(s, 1, n)) = IF 1 <= n THEN n - 1 + 1 ELSE 0
      /\ \A i \in 1 .. n - 1 + 1 : SubSeq(s, 1, n)[i] = s[1 + i - 1]
  BY <1>2, PartIs
<1>4. n \in Nat /\ n - 1 + 1 = n /\ \A i \in 1 .. n : 1 + i - 1 = i
  BY <1>1
<1>5. Len(SubSeq(s, 1, n)) = n
  BY <1>3, <1>4
<1> QED
  BY <1>3, <1>4, <1>5

LEMMA ReversedIs ==
    ASSUME NEW s \in Bytes
    PROVE  /\ Reverse(s) \in Bytes /\ Len(Reverse(s)) = Len(s)
           /\ \A i \in 1 .. Len(s) : Reverse(s)[i] = s[Len(s) - i + 1]
<1>1. Len(s) \in Nat
  BY LenProperties DEF Bytes
<1>2. \A i \in 1 .. Len(s) : Len(s) - i + 1 \in 1 .. Len(s) /\ s[Len(s) - i + 1] \in STRING
  BY <1>1, ElementOfSeq DEF Bytes
<1>3. Reverse(s) = [i \in 1 .. Len(s) |-> s[Len(s) - i + 1]]
  BY DEF Reverse
<1> DEFINE r == [i \in 1 .. Len(s) |-> s[Len(s) - i + 1]]
<1>4. r \in Seq(STRING) /\ Len(r) = Len(s)
  BY <1>1, <1>2
<1> QED
  BY <1>3, <1>4 DEF Bytes

LEMMA EndIsSuffix ==
    ASSUME NEW t \in Bytes, NEW s \in Bytes, Ends(t, s)
    PROVE  IsSuffix(t, s)
<1> DEFINE n == Len(t)
           x == Reverse(t)
           y == Reverse(s)
<1>1. n \in Nat /\ Len(s) \in Nat /\ n <= Len(s)
  BY LenProperties DEF Bytes, Ends
<1>2. /\ x \in Bytes /\ y \in Bytes /\ Len(x) = n /\ Len(y) = Len(s)
      /\ \A i \in 1 .. n : x[i] = t[n - i + 1]
      /\ \A i \in 1 .. Len(s) : y[i] = s[Len(s) - i + 1]
  BY ReversedIs
<1>3. \A i \in 1 .. n : t[i] = s[Len(s) - n + i]
  BY DEF Ends
<1> HIDE DEF n, x, y
<1>4. ASSUME NEW i \in 1 .. n
      PROVE  x[i] = y[i]
  <2>1. n - i + 1 \in 1 .. n /\ Len(s) - n + (n - i + 1) = Len(s) - i + 1 /\ i \in 1 .. Len(s)
    BY <1>1
  <2>2. t[n - i + 1] = s[Len(s) - n + (n - i + 1)]
    BY <1>3, <2>1
  <2> QED
    BY <1>2, <2>1, <2>2
<1>5. /\ SubSeq(x, 1, n) \in Bytes /\ SubSeq(y, 1, n) \in Bytes
      /\ Len(SubSeq(x, 1, n)) = n /\ Len(SubSeq(y, 1, n)) = n
      /\ \A i \in 1 .. n : SubSeq(x, 1, n)[i] = x[i] /\ SubSeq(y, 1, n)[i] = y[i]
  <2>1. n \in 0 .. Len(x) /\ n \in 0 .. Len(y)
    BY <1>1, <1>2
  <2> QED
    BY <1>2, <2>1, StartIs
<1>6. SubSeq(x, 1, n) = SubSeq(y, 1, n)
  BY <1>4, <1>5, SeqEqual DEF Bytes
<1>7. IsPrefix(x, y)
  BY <1>1, <1>2, <1>6 DEF IsPrefix
<1> QED
  BY <1>7 DEF IsSuffix, x, y

LEMMA EndsOfEnds ==
    ASSUME NEW r \in Bytes, NEW t \in Bytes, NEW s \in Bytes, Ends(r, t), Ends(t, s)
    PROVE  Ends(r, s)
<1>1. Len(r) \in Nat /\ Len(t) \in Nat /\ Len(s) \in Nat
  BY LenProperties DEF Bytes
<1>2. ASSUME NEW i \in 1 .. Len(r) PROVE r[i] = s[Len(s) - Len(r) + i]
  <2>1. /\ Len(t) - Len(r) + i \in 1 .. Len(t)
        /\ Len(s) - Len(t) + (Len(t) - Len(r) + i) = Len(s) - Len(r) + i
    BY <1>1 DEF Ends
  <2>2. /\ r[i] = t[Len(t) - Len(r) + i]
        /\ t[Len(t) - Len(r) + i] = s[Len(s) - Len(t) + (Len(t) - Len(r) + i)]
    BY <2>1 DEF Ends
  <2> QED
    BY <2>1, <2>2
<1> QED
  BY <1>1, <1>2 DEF Ends

(* What follows a place. *)
LEMMA RestEnds ==
    ASSUME NEW s \in Bytes, NEW k \in 0 .. Len(s)
    PROVE  LET t == SubSeq(s, k + 1, Len(s))
           IN  /\ t \in Bytes /\ Len(t) = Len(s) - k /\ Ends(t, s)
               /\ \A i \in 1 .. Len(s) - k : t[i] = s[k + i]
<1> DEFINE t == SubSeq(s, k + 1, Len(s))
<1>1. Len(s) \in Nat
  BY LenProperties DEF Bytes
<1>2. /\ k + 1 \in 1 .. Len(s) + 1 /\ Len(s) \in Int
      /\ Len(s) - (k + 1) + 1 = Len(s) - k /\ \A i \in Nat : k + 1 + i - 1 = k + i
  BY <1>1
<1>3. /\ t \in Bytes /\ Len(t) = IF k + 1 <= Len(s) THEN Len(s) - (k + 1) + 1 ELSE 0
      /\ \A i \in 1 .. Len(s) - (k + 1) + 1 : t[i] = s[k + 1 + i - 1]
  BY <1>2, PartIs
<1> HIDE DEF t
<1>4. Len(t) = Len(s) - k /\ \A i \in 1 .. Len(s) - k : t[i] = s[k + i]
  <2>1. \A i \in 1 .. Len(s) - k : i \in 1 .. Len(s) - (k + 1) + 1 /\ i \in Nat
    BY <1>1
  <2>2. Len(t) = Len(s) - k
    BY <1>1, <1>3
  <2> QED
    BY <1>2, <1>3, <2>1, <2>2
<1>5. Ends(t, s)
  <2>1. Len(s) - Len(t) = k
    BY <1>1, <1>4
  <2> QED
    BY <1>1, <1>4, <2>1 DEF Ends
<1> QED
  BY <1>3, <1>4, <1>5 DEF t

LEMMA ReturnEnds ==
    ASSUME NEW t \in Bytes, NEW s \in Bytes, Ends(t, s)
    PROVE  Ends(WithoutReturn(t), WithoutReturn(s)) /\ WithoutReturn(t) \in Bytes
<1>1. /\ Len(t) \in Nat /\ Len(s) \in Nat
      /\ WithoutReturn(t) \in Bytes /\ WithoutReturn(s) \in Bytes
  BY LenProperties, WithoutReturnTyped DEF Bytes
<1>2. CASE t = <<>>
  <2>1. WithoutReturn(t) = <<>> /\ Len(<<>>) = 0 /\ Len(WithoutReturn(s)) \in Nat
    BY <1>1, <1>2, LenProperties DEF WithoutReturn, Bytes
  <2> QED
    BY <1>1, <2>1 DEF Ends
<1>3. CASE t # <<>>
  <2>1. Len(t) >= 1
    BY <1>3, EmptySeq DEF Bytes
  <2>2. s # <<>> /\ Last(t) = Last(s) /\ Len(t) <= Len(s)
    <3>1. Len(t) <= Len(s) /\ t[Len(t)] = s[Len(s) - Len(t) + Len(t)]
      BY <1>1, <2>1 DEF Ends
    <3>2. Len(s) - Len(t) + Len(t) = Len(s)
      BY <1>1
    <3>3. s # <<>>
      BY <1>1, <2>1, <3>1
    <3> QED
      BY <3>1, <3>2, <3>3 DEF Last
  <2>3. CASE Last(t) # Return
    BY <1>1, <2>2, <2>3 DEF WithoutReturn
  <2>4. CASE Last(t) = Return
    <3>1. WithoutReturn(t) = SubSeq(t, 1, Len(t) - 1) /\ WithoutReturn(s) = SubSeq(s, 1, Len(s) - 1)
      BY <1>3, <2>2, <2>4 DEF WithoutReturn, Front
    <3>2. \A u \in {t, s} :
             /\ Len(SubSeq(u, 1, Len(u) - 1)) = Len(u) - 1
             /\ \A i \in 1 .. Len(u) - 1 : SubSeq(u, 1, Len(u) - 1)[i] = u[i]
      <4> SUFFICES ASSUME NEW u \in {t, s}
                   PROVE  /\ Len(SubSeq(u, 1, Len(u) - 1)) = Len(u) - 1
                          /\ \A i \in 1 .. Len(u) - 1 : SubSeq(u, 1, Len(u) - 1)[i] = u[i]
        OBVIOUS
      <4>1. u \in Bytes /\ Len(u) - 1 \in 0 .. Len(u)
        BY <1>1, <2>1, <2>2
      <4> QED
        BY <4>1, StartIs
    <3>3. /\ Len(WithoutReturn(t)) = Len(t) - 1 /\ Len(WithoutReturn(s)) = Len(s) - 1
          /\ \A i \in 1 .. Len(t) - 1 : WithoutReturn(t)[i] = t[i]
          /\ \A i \in 1 .. Len(s) - 1 : WithoutReturn(s)[i] = s[i]
      BY <3>1, <3>2
    <3>4. ASSUME NEW i \in 1 .. Len(t) - 1
          PROVE  WithoutReturn(t)[i] = WithoutReturn(s)[(Len(s) - 1) - (Len(t) - 1) + i]
      <4>1. /\ (Len(s) - 1) - (Len(t) - 1) + i = Len(s) - Len(t) + i
            /\ Len(s) - Len(t) + i \in 1 .. Len(s) - 1 /\ i \in 1 .. Len(t)
        BY <1>1, <2>2
      <4>2. t[i] = s[Len(s) - Len(t) + i]
        BY <4>1 DEF Ends
      <4> QED
        BY <3>3, <4>1, <4>2
    <3> QED
      BY <1>1, <2>2, <3>3, <3>4 DEF Ends
  <2> QED
    BY <2>3, <2>4
<1> QED
  BY <1>1, <1>2, <1>3

-----------------------------------------------------------------------------
(* Whole characters *)

LEMMA NextPlace ==
    ASSUME NEW from \in Nat, NEW to \in Int, NEW i \in 1 .. to - from + 1, NEW k \in Int,
           k = from + i - 1, i # to - from + 1
    PROVE  i < to - from + 1 /\ i + 1 \in 1 .. to - from + 1 /\ from + (i + 1) - 1 = k + 1
OBVIOUS

(* What ends before a newline or where the bytes end is whole if they are. *)
LEMMA SoundPart ==
    ASSUME NEW s \in Bytes, Sound(s), NEW from \in 1 .. Len(s) + 1,
           NEW to \in Int, to <= Len(s), to = Len(s) \/ s[to + 1] = Newline
    PROVE  Sound(SubSeq(s, from, to))
<1> DEFINE t == SubSeq(s, from, to)
<1>1. Len(s) \in Nat /\ DOMAIN s = 1 .. Len(s)
  BY LenProperties DEF Bytes
<1>2. /\ t \in Bytes /\ Len(t) = IF from <= to THEN to - from + 1 ELSE 0
      /\ \A i \in 1 .. to - from + 1 : t[i] = s[from + i - 1]
  BY PartIs
<1>3. DOMAIN t = 1 .. Len(t)
  BY <1>2, LenProperties DEF Bytes
<1>5. from \in Nat /\ from >= 1 /\ to \in Int /\ Len(s) \in Nat /\ to <= Len(s)
  <2>1. Len(s) \in Nat
    BY <1>1
  <2> QED
    BY <2>1
<1> HIDE DEF t
<1>4. ASSUME NEW i \in DOMAIN t
      PROVE  /\ t[i] # Replacement
             /\ t[i] = Lead => i < Len(t) /\ t[i + 1] = Trail
  <2>1. /\ i \in 1 .. to - from + 1 /\ Len(t) = to - from + 1 /\ from <= to
        /\ from + i - 1 \in 1 .. Len(s)
    <3>1. i \in 1 .. Len(t) /\ Len(t) = IF from <= to THEN to - from + 1 ELSE 0
      BY <1>2, <1>3
    <3> QED
      BY <1>5, <3>1
  <2>2. PICK k \in 1 .. Len(s) : k = from + i - 1
    BY <2>1
  <2>3. /\ t[i] = s[k] /\ s[k] # Replacement
        /\ s[k] = Lead => k < Len(s) /\ s[k + 1] = Trail
    BY <1>1, <1>2, <2>1, <2>2 DEF Sound
  <2>4. CASE i = Len(t)
    <3>1. k = to
      <4>1. i \in Int /\ k \in Int /\ i = to - from + 1
        BY <2>1, <2>2, <2>4
      <4> QED
        BY <1>5, <2>2, <4>1
    <3>2. s[k] # Lead
      <4>1. CASE to = Len(s)
        BY <1>1, <2>3, <3>1, <4>1
      <4>2. CASE s[to + 1] = Newline
        <5>1. s[k + 1] = Newline
          BY <3>1, <4>2
        <5>2. Newline # Trail
          BY DEF Newline, Trail
        <5> QED
          BY <2>3, <5>1, <5>2
      <4> QED
        BY <4>1, <4>2
    <3> QED
      BY <2>3, <3>2
  <2>5. CASE i # Len(t)
    <3>1. i < Len(t) /\ i + 1 \in 1 .. to - from + 1 /\ from + (i + 1) - 1 = k + 1
      <4>1. k \in Int /\ from \in Nat /\ i # to - from + 1
        BY <1>5, <2>1, <2>5
      <4>2. i < to - from + 1 /\ i + 1 \in 1 .. to - from + 1 /\ from + (i + 1) - 1 = k + 1
        BY <2>1, <2>2, <4>1, NextPlace
      <4> QED
        BY <2>1, <4>2
    <3>2. t[i + 1] = s[k + 1]
      BY <1>2, <3>1
    <3> QED
      BY <2>3, <3>1, <3>2
  <2> QED
    BY <2>4, <2>5
<1> QED
  BY <1>4 DEF Sound, t

LEMMA SoundWithoutReturn ==
    ASSUME NEW line \in Bytes, Sound(line)
    PROVE  Sound(WithoutReturn(line)) /\ WithoutReturn(line) \in Bytes
           /\ Len(WithoutReturn(line)) \in Nat /\ Len(WithoutReturn(line)) <= Len(line)
<1>1. Len(line) \in Nat /\ DOMAIN line = 1 .. Len(line) /\ WithoutReturn(line) \in Bytes
  BY LenProperties, WithoutReturnTyped DEF Bytes
<1>2. CASE line # <<>> /\ Last(line) = Return
  <2> DEFINE t == SubSeq(line, 1, Len(line) - 1)
  <2>1. WithoutReturn(line) = t /\ line[Len(line)] = Return /\ Len(line) >= 1
    BY <1>1, <1>2, EmptySeq DEF WithoutReturn, Front, Last, Bytes
  <2>2. Len(line) - 1 \in 0 .. Len(line)
    BY <1>1, <2>1
  <2>3. t \in Bytes /\ Len(t) = Len(line) - 1 /\ \A i \in 1 .. Len(line) - 1 : t[i] = line[i]
    BY <2>2, StartIs
  <2>4. DOMAIN t = 1 .. Len(t)
    BY <2>3, LenProperties DEF Bytes
  <2> HIDE DEF t
  <2>5. Len(t) = Len(line) - 1 /\ \A i \in 1 .. Len(line) - 1 : t[i] = line[i]
    BY <2>3
  <2>6. ASSUME NEW i \in DOMAIN t
        PROVE  t[i] # Replacement /\ (t[i] = Lead => i < Len(t) /\ t[i + 1] = Trail)
    <3>1. /\ i \in 1 .. Len(line) - 1 /\ i \in DOMAIN line /\ i + 1 \in 1 .. Len(line)
      BY <1>1, <2>1, <2>4, <2>5
    <3>2. /\ t[i] = line[i] /\ line[i] # Replacement
          /\ line[i] = Lead => line[i + 1] = Trail
      BY <2>5, <3>1 DEF Sound
    <3>3. CASE i = Len(line) - 1
      <4>1. i + 1 = Len(line)
        BY <1>1, <3>3
      <4> QED
        BY <2>1, <3>2, <4>1 DEF Return, Trail
    <3>4. CASE i # Len(line) - 1
      <4>1. i < Len(t) /\ i + 1 \in 1 .. Len(line) - 1
        BY <1>1, <2>5, <3>1, <3>4
      <4> QED
        BY <2>5, <3>2, <4>1
    <3> QED
      BY <3>3, <3>4
  <2>7. Len(line) - 1 \in Nat /\ Len(line) - 1 <= Len(line)
    BY <1>1, <2>1
  <2> QED
    BY <2>1, <2>3, <2>5, <2>6, <2>7 DEF Sound
<1>3. CASE ~(line # <<>> /\ Last(line) = Return)
  BY <1>1, <1>3 DEF WithoutReturn
<1> QED
  BY <1>2, <1>3

(* What begins with a whole character. *)
LEMMA AlignedIs ==
    ASSUME NEW s \in Bytes, Sound(s)
    PROVE  /\ alignUtf8Start(s) \in Bytes /\ Sound(alignUtf8Start(s))
           /\ Ends(alignUtf8Start(s), s)
           /\ Len(alignUtf8Start(s)) \in Nat /\ Len(alignUtf8Start(s)) <= Len(s)
           /\ alignUtf8Start(s) # <<>> => Head(alignUtf8Start(s)) # Trail
<1> DEFINE T == {i \in 1 .. Len(s) + 1 : i <= Len(s) => s[i] # Trail}
           j == Min(T)
<1>1. Len(s) \in Nat
  BY LenProperties DEF Bytes
<1>2. T \in SUBSET Nat /\ Len(s) + 1 \in T
  BY <1>1
<1>3. j \in T
  <2> HIDE DEF T
  <2> QED
    BY <1>2, Least
<1> DEFINE a == SubSeq(s, j, Len(s))
<1>4. alignUtf8Start(s) = a
  BY DEF alignUtf8Start
<1>5. j \in 1 .. Len(s) + 1 /\ (j <= Len(s) => s[j] # Trail)
  BY <1>3
<1> HIDE DEF j
<1>6. PICK k \in 0 .. Len(s) : j = k + 1
  <2>1. j - 1 \in 0 .. Len(s) /\ j = (j - 1) + 1
    BY <1>1, <1>5
  <2> QED
    BY <2>1
<1>7. a = SubSeq(s, k + 1, Len(s))
  BY <1>6
<1> HIDE DEF a
<1>8. /\ a \in Bytes /\ Len(a) = Len(s) - k /\ Ends(a, s)
      /\ \A i \in 1 .. Len(s) - k : a[i] = s[k + i]
  BY <1>7, RestEnds
<1>9. Sound(a)
  <2>1. Len(s) \in Int /\ Len(s) <= Len(s)
    BY <1>1
  <2> QED
    BY <1>5, <2>1, SoundPart DEF a
<1>10. ASSUME a # <<>> PROVE Head(a) # Trail
  <2>1. Len(a) >= 1
    BY <1>8, <1>10, EmptySeq DEF Bytes
  <2>2. Head(a) = a[1]
    BY <1>8, <1>10 DEF Bytes
  <2>3. 1 \in 1 .. Len(s) - k /\ j <= Len(s)
    BY <1>1, <1>6, <1>8, <2>1
  <2>4. a[1] = s[k + 1]
    BY <1>8, <2>3
  <2> QED
    BY <1>5, <1>6, <2>2, <2>3, <2>4
<1> QED
  BY <1>1, <1>4, <1>8, <1>9, <1>10

LEMMA WeightIs ==
    ASSUME NEW s \in Bytes, Sound(s)
    PROVE  Weight(s) = Len(s) /\ Len(s) \in Nat
<1>1. {i \in DOMAIN s : s[i] = Replacement} = {}
  BY DEF Sound
<1>2. Len(s) \in Nat
  BY LenProperties DEF Bytes
<1>3. Cardinality({i \in DOMAIN s : s[i] = Replacement}) = 0
  BY <1>1, FS_EmptySet
<1> QED
  BY <1>2, <1>3 DEF Weight

(* What fits is decoded as it is. *)
LEMMA DecodesWhole ==
    ASSUME NEW s \in Bytes, Sound(s), NEW limit \in Int, Len(s) <= limit
    PROVE  decodeUtf8Bounded(s, limit) = s
<1> DEFINE text == IF s # <<>> /\ Last(s) = Lead THEN Append(Front(s), Replacement) ELSE s
           T == {n \in 0 .. Len(s) :
                    n = 0 \/ (Weight(SubSeq(s, 1, n)) <= limit /\ (n > 0 => s[n] # Lead))}
<1>1. Len(s) \in Nat /\ DOMAIN s = 1 .. Len(s) /\ (s # <<>> => Len(s) >= 1)
  BY LenProperties, EmptySeq DEF Bytes
<1>2. Len(s) >= 1 => s[Len(s)] # Lead
  BY <1>1 DEF Sound
<1>3. text = s
  BY <1>1, <1>2 DEF Last
<1>4. SubSeq(s, 1, Len(s)) = s
  <2>1. Len(s) \in 0 .. Len(s)
    BY <1>1
  <2>2. /\ SubSeq(s, 1, Len(s)) \in Bytes /\ Len(SubSeq(s, 1, Len(s))) = Len(s)
        /\ \A i \in 1 .. Len(s) : SubSeq(s, 1, Len(s))[i] = s[i]
    BY <2>1, StartIs
  <2> QED
    BY <2>2, SeqEqual DEF Bytes
<1>5. Len(s) \in T
  <2>1. Weight(SubSeq(s, 1, Len(s))) <= limit
    BY <1>4, WeightIs
  <2> QED
    BY <1>1, <1>2, <2>1
<1>6. T \in SUBSET (0 .. Len(s))
  OBVIOUS
<1>7. Max(T) = Len(s)
  <2> HIDE DEF T
  <2>1. Max(T) \in T /\ \A y \in T : y <= Max(T)
    BY <1>1, <1>5, <1>6, Greatest
  <2>2. Max(T) \in 0 .. Len(s) /\ Len(s) <= Max(T)
    BY <1>5, <1>6, <2>1
  <2> QED
    BY <1>1, <2>2
<1>8. decodeUtf8Bounded(s, limit) = SubSeq(s, 1, Max(T))
  BY <1>3 DEF decodeUtf8Bounded
<1> QED
  BY <1>4, <1>7, <1>8

-----------------------------------------------------------------------------
(* The budget *)

(* What is left after a line is left by the line. *)
LEMMA RemainingIs ==
    ASSUME NEW raw, Len(raw) \in Nat
    PROVE  /\ DOMAIN Remaining(raw) = 0 .. Len(raw)
           /\ Remaining(raw)[0] = MaxRead
           /\ \A n \in 1 .. Len(raw) :
                 Remaining(raw)[n] =
                    Remaining(raw)[n - 1]
                        - Weight(decodeUtf8Bounded(raw[n], Remaining(raw)[n - 1]))
<1> DEFINE N == Len(raw)
           Spent(n, b) == b - Weight(decodeUtf8Bounded(raw[n], b))
           Step(f, n) == IF n = 0 THEN MaxRead ELSE Spent(n, f[n - 1])
           Counts_(f, k) == f = [n \in 0 .. k |-> Step(f, n)]
<1>1. Remaining(raw) = CHOOSE f : Counts_(f, N)
  BY DEF Remaining
<1> HIDE DEF Spent
<1>2. \E f : Counts_(f, N)
  <2> DEFINE T == {k \in 0 .. N : ~ \E f : Counts_(f, k)}
  <2> SUFFICES ASSUME ~ \E f : Counts_(f, N) PROVE FALSE
    OBVIOUS
  <2>1. T # {}
    <3>1. N \in 0 .. N
      OBVIOUS
    <3> HIDE DEF Counts_, N
    <3> QED
      BY <3>1
  <2>2. T \in SUBSET Nat
    OBVIOUS
  <2> HIDE DEF Counts_
  <2>3. PICK k \in T : \A j \in T : k <= j
    <3> HIDE DEF T
    <3> QED
      BY <2>1, <2>2, Smallest
  <2>4. k \in 0 .. N /\ ~ \E f : Counts_(f, k)
    OBVIOUS
  <2>5. k # 0
    <3>1. Counts_([n \in 0 .. 0 |-> MaxRead], 0)
      BY DEF Counts_
    <3> QED
      BY <2>4, <3>1
  <2>6. PICK f : Counts_(f, k - 1)
    <3>1. k - 1 \in 0 .. N /\ ~ (k <= k - 1)
      BY <2>4, <2>5
    <3>2. k - 1 \notin T
      BY <2>3, <3>1
    <3> QED
      BY <3>1, <3>2
  <2> DEFINE g == [n \in 0 .. k |-> IF n <= k - 1 THEN f[n] ELSE Spent(k, f[k - 1])]
  <2>7. \A n \in 0 .. k - 1 : f[n] = Step(f, n)
    BY <2>6 DEF Counts_
  <2>8. ASSUME NEW n \in 0 .. k PROVE g[n] = Step(g, n)
    <3>1. CASE n = 0
      <4>1. g[n] = f[0] /\ 0 \in 0 .. k - 1
        BY <2>4, <2>5, <3>1
      <4> QED
        BY <2>7, <3>1, <4>1
    <3>2. CASE n # 0
      <4>1. n - 1 \in 0 .. k /\ n - 1 <= k - 1
        BY <2>4, <3>2
      <4>2. g[n - 1] = f[n - 1]
        BY <4>1
      <4>3. CASE n <= k - 1
        <5>1. n \in 0 .. k - 1 /\ g[n] = f[n]
          BY <2>4, <4>3
        <5> QED
          BY <2>7, <3>2, <4>2, <5>1
      <4>4. CASE ~ (n <= k - 1)
        <5>1. n = k
          BY <2>4, <4>4
        <5>2. g[n] = Spent(k, f[k - 1])
          BY <4>4
        <5> QED
          BY <3>2, <4>2, <5>1, <5>2
      <4> QED
        BY <4>3, <4>4
    <3> QED
      BY <3>1, <3>2
  <2>9. Counts_(g, k)
    <3>1. g = [n \in 0 .. k |-> g[n]]
      OBVIOUS
    <3> HIDE DEF g, Step
    <3>2. g = [n \in 0 .. k |-> Step(g, n)]
      BY <2>8, <3>1
    <3> QED
      BY <3>2 DEF Counts_
  <2> QED
    BY <2>4, <2>9
<1>3. Counts_(Remaining(raw), N)
  <2> HIDE DEF Counts_
  <2> QED
    BY <1>1, <1>2
<1> DEFINE r == Remaining(raw)
<1>4. DOMAIN r = 0 .. N /\ \A n \in 0 .. N : r[n] = Step(r, n)
  <2> HIDE DEF r, Step, N
  <2> QED
    BY <1>3 DEF Counts_, r
<1>5. r[0] = MaxRead
  BY <1>4
<1>6. \A n \in 1 .. N : r[n] = Spent(n, r[n - 1])
  <2>1. \A n \in 1 .. N : n \in 0 .. N /\ n # 0
    OBVIOUS
  <2> QED
    BY <1>4, <2>1
<1> QED
  BY <1>4, <1>5, <1>6 DEF Spent

(* Lines that come before a place each, one after the other, and no more than
   the budget in all, are decoded as they are. *)
LEMMA DecodesAll ==
    ASSUME NEW raw \in Seq(Bytes), \A n \in 1 .. Len(raw) : Sound(raw[n]),
           NEW reach \in [0 .. Len(raw) -> Nat], reach[0] <= MaxRead,
           \A n \in 1 .. Len(raw) : Len(raw[n]) <= reach[n - 1] - reach[n],
           \A n \in 1 .. Len(raw) : n > 1 => reach[n - 1] > 0,
           NEW cut
    PROVE  Decoded(raw, cut) =
              [n \in 1 .. Len(raw) |-> [text |-> raw[Len(raw) + 1 - n],
                                       cut |-> Len(raw) + 1 - n \in cut]]
<1> DEFINE N == Len(raw)
           left == Remaining(raw)
<1>1. N \in Nat /\ DOMAIN raw = 1 .. N /\ \A n \in 1 .. N : raw[n] \in Bytes
  BY LenProperties, ElementOfSeq
<1>2. /\ left[0] = MaxRead
      /\ \A n \in 1 .. N : left[n] = left[n - 1] - Weight(decodeUtf8Bounded(raw[n], left[n - 1]))
  BY <1>1, RemainingIs
<1>0. MaxRead \in Nat /\ MaxRead > 0
  BY TailAssumption
<1> HIDE DEF left, N
<1>3. ASSUME NEW n \in 1 .. N, left[n - 1] \in Int, left[n - 1] >= reach[n - 1]
      PROVE  /\ decodeUtf8Bounded(raw[n], left[n - 1]) = raw[n]
             /\ left[n] \in Int /\ left[n] >= reach[n]
  <2>1. /\ raw[n] \in Bytes /\ Sound(raw[n]) /\ Len(raw[n]) \in Nat
        /\ Len(raw[n]) <= reach[n - 1] - reach[n]
    BY <1>1, LenProperties DEF Bytes, N
  <2>2. reach[n - 1] \in Nat /\ reach[n] \in Nat
    <3>1. n - 1 \in 0 .. N /\ n \in 0 .. N
      BY <1>1
    <3> QED
      BY <3>1 DEF N
  <2>3. Len(raw[n]) <= left[n - 1]
    BY <1>3, <2>1, <2>2
  <2>4. decodeUtf8Bounded(raw[n], left[n - 1]) = raw[n]
    BY <1>3, <2>1, <2>3, DecodesWhole
  <2>5. left[n] = left[n - 1] - Len(raw[n])
    BY <1>2, <2>1, <2>4, WeightIs
  <2> QED
    BY <1>3, <2>1, <2>2, <2>4, <2>5
<1>4. \A n \in 0 .. N : left[n] \in Int /\ left[n] >= reach[n]
  <2> DEFINE T == {k \in 0 .. N : ~ (left[k] \in Int /\ left[k] >= reach[k])}
  <2> SUFFICES ASSUME T # {} PROVE FALSE
    OBVIOUS
  <2>1. T \in SUBSET Nat
    BY <1>1
  <2>2. PICK k \in T : \A j \in T : k <= j
    <3> HIDE DEF T
    <3> QED
      BY <2>1, Smallest
  <2>3. k \in 0 .. N /\ ~ (left[k] \in Int /\ left[k] >= reach[k])
    OBVIOUS
  <2>4. k # 0
    <3>1. left[0] \in Int /\ left[0] >= reach[0]
      <4>1. 0 \in 0 .. Len(raw)
        BY <1>1 DEF N
      <4>2. reach[0] \in Nat
        BY <4>1
      <4> QED
        BY <1>0, <1>2, <4>2
    <3> QED
      BY <2>3, <3>1
  <2>5. k - 1 \in 0 .. N /\ ~ (k <= k - 1) /\ k \in 1 .. N
    BY <1>1, <2>3, <2>4
  <2>6. k - 1 \notin T
    BY <2>2, <2>5
  <2>7. left[k - 1] \in Int /\ left[k - 1] >= reach[k - 1]
    BY <2>5, <2>6
  <2> QED
    BY <1>3, <2>3, <2>5, <2>7
<1>5. \A n \in 1 .. N : left[n - 1] > 0 /\ decodeUtf8Bounded(raw[n], left[n - 1]) = raw[n]
  <2> TAKE n \in 1 .. N
  <2>1. n - 1 \in 0 .. N
    BY <1>1
  <2>2. left[n - 1] \in Int /\ left[n - 1] >= reach[n - 1]
    BY <1>4, <2>1
  <2>3. left[n - 1] > 0
    <3>1. CASE n = 1
      BY <1>0, <1>2, <3>1
    <3>2. CASE n # 1
      <4>1. n > 1 /\ reach[n - 1] \in Nat /\ reach[n - 1] > 0
        BY <1>1, <2>1, <3>2 DEF N
      <4> QED
        BY <2>2, <4>1
    <3> QED
      BY <3>1, <3>2
  <2> QED
    BY <1>3, <2>2, <2>3
<1>6. Cardinality({n \in DOMAIN raw : left[n - 1] > 0}) = N
  <2>1. {n \in DOMAIN raw : left[n - 1] > 0} = 1 .. N
    BY <1>1, <1>5
  <2>2. Cardinality(1 .. N) = N
    BY <1>1, FS_Interval
  <2> QED
    BY <2>1, <2>2
<1>7. Decoded(raw, cut) =
         [n \in 1 .. N |-> [text |-> decodeUtf8Bounded(raw[N + 1 - n], left[(N + 1 - n) - 1]),
                           cut |-> N + 1 - n \in cut]]
  <2> DEFINE taken == Cardinality({n \in DOMAIN raw : Remaining(raw)[n - 1] > 0})
  <2>1. Decoded(raw, cut) =
           [n \in 1 .. taken |->
               [text |-> decodeUtf8Bounded(raw[taken + 1 - n], left[(taken + 1 - n) - 1]),
                cut |-> taken + 1 - n \in cut]]
    BY DEF Decoded, left
  <2>2. taken = N
    BY <1>6 DEF left
  <2> HIDE DEF taken
  <2> QED
    BY <2>1, <2>2
<1>8. \A n \in 1 .. N : decodeUtf8Bounded(raw[N + 1 - n], left[(N + 1 - n) - 1]) = raw[N + 1 - n]
  <2> TAKE n \in 1 .. N
  <2> DEFINE m == N + 1 - n
  <2>1. m \in 1 .. N
    BY <1>1
  <2> HIDE DEF m
  <2>2. decodeUtf8Bounded(raw[m], left[m - 1]) = raw[m]
    BY <1>5, <2>1
  <2> QED
    BY <2>2 DEF m
<1>9. Decoded(raw, cut) =
         [n \in 1 .. N |-> [text |-> raw[N + 1 - n], cut |-> N + 1 - n \in cut]]
  BY <1>7, <1>8
<1> QED
  BY <1>9 DEF N

-----------------------------------------------------------------------------
(* How far back is read *)

LEMMA Largest3 ==
    ASSUME NEW a \in Int, NEW b \in Int, NEW c \in Int
    PROVE  /\ Max({a, b, c}) \in {a, b, c}
           /\ a <= Max({a, b, c}) /\ b <= Max({a, b, c}) /\ c <= Max({a, b, c})
<1>1. \E m \in {a, b, c} : \A y \in {a, b, c} : m >= y
  OBVIOUS
<1>2. Max({a, b, c}) \in {a, b, c} /\ \A y \in {a, b, c} : Max({a, b, c}) >= y
  BY <1>1 DEF Max
<1> QED
  BY <1>2

LEMMA AtLeastOnce ==
    ASSUME NEW n \in Nat \ {0}, NEW c \in Nat \ {0}
    PROVE  n * c \in Int /\ n * c >= n
<1>1. n * (c - 1) >= 0 /\ n * c = n * (c - 1) + n
  OBVIOUS
<1> QED
  BY <1>1

(* As far as it takes, and no farther than the budget. *)
LEMMA ReadFromIs ==
    ASSUME NEW file \in Bytes, file # <<>>, NEW lines \in Int
    PROVE  /\ ReadFrom(file, lines) \in 0 .. Len(file) - 1
           /\ Len(file) - ReadFrom(file, lines) <= MaxRead
           /\ Enough(file, ReadFrom(file, lines), lines)
<1> DEFINE L == Len(file)
           chunk(n) == Max({0, L - n * ChunkSize, L - MaxRead})
           T == {from \in {chunk(n) : n \in DOMAIN file} : Enough(file, from, lines)}
<1>1. L \in Nat \ {0} /\ DOMAIN file = 1 .. L
  BY LenProperties, EmptySeq DEF Bytes
<1>2. MaxRead \in Nat \ {0} /\ ChunkSize \in Nat \ {0}
  BY TailAssumption
<1>3. ReadFrom(file, lines) = Max(T)
  BY DEF ReadFrom
<1> HIDE DEF L
<1>4. ASSUME NEW n \in 1 .. L
      PROVE  /\ chunk(n) \in 0 .. L - 1 /\ L - MaxRead <= chunk(n)
             /\ n = L => chunk(n) \in {0, L - MaxRead}
  <2>1. n \in Nat \ {0} /\ n * ChunkSize \in Int /\ n * ChunkSize >= n
    BY <1>1, <1>2, AtLeastOnce
  <2> DEFINE b == L - n * ChunkSize
             c == L - MaxRead
  <2>2. b \in Int /\ c \in Int /\ b <= L - n /\ b <= L - 1 /\ c <= L - 1
    BY <1>1, <1>2, <2>1
  <2> HIDE DEF b, c
  <2>3. /\ Max({0, b, c}) \in {0, b, c}
        /\ 0 <= Max({0, b, c}) /\ b <= Max({0, b, c}) /\ c <= Max({0, b, c})
    <3>1. 0 \in Int
      OBVIOUS
    <3> QED
      BY <2>2, <3>1, Largest3, Zenon
  <2> DEFINE m == Max({0, b, c})
  <2>4. /\ m \in {0, b, c} /\ 0 <= m /\ b <= m /\ c <= m
    BY <2>3
  <2> HIDE DEF m
  <2>5. m \in 0 .. L - 1 /\ c <= m /\ (n = L => m \in {0, c})
    BY <1>1, <2>2, <2>4
  <2>6. chunk(n) = m /\ c = L - MaxRead
    BY DEF m, b, c
  <2> HIDE DEF chunk
  <2> QED
    BY <2>5, <2>6
<1> HIDE DEF chunk
<1>5. Enough(file, chunk(L), lines)
  <2>1. L \in 1 .. L
    BY <1>1
  <2>2. chunk(L) = 0 \/ L - chunk(L) >= MaxRead
    <3>1. chunk(L) \in 0 .. L - 1 /\ chunk(L) \in {0, L - MaxRead}
      BY <1>4, <2>1
    <3> QED
      BY <1>1, <1>2, <3>1
  <2> QED
    BY <2>2 DEF Enough, L
<1>6. T \in SUBSET (0 .. L) /\ chunk(L) \in T
  <2>1. L \in DOMAIN file
    BY <1>1
  <2>2. \A n \in DOMAIN file : chunk(n) \in 0 .. L
    BY <1>1, <1>4
  <2> QED
    BY <1>5, <2>1, <2>2
<1>7. Max(T) \in T
  <2> HIDE DEF T
  <2> QED
    BY <1>1, <1>6, Greatest
<1>8. PICK n \in 1 .. L : Max(T) = chunk(n) /\ Enough(file, Max(T), lines)
  BY <1>1, <1>7
<1>9. Max(T) \in 0 .. L - 1 /\ L - Max(T) <= MaxRead
  <2>1. chunk(n) \in 0 .. L - 1 /\ L - MaxRead <= chunk(n)
    BY <1>4
  <2> QED
    BY <1>1, <1>2, <1>8, <2>1
<1> QED
  BY <1>3, <1>8, <1>9 DEF L

-----------------------------------------------------------------------------
(* The lines of a file *)

(* Where a line of Split ends, its newline included. *)
Place(bytes, j) ==
    IF j <= Cardinality(Newlines(bytes)) THEN LineEnd(bytes, j) ELSE Len(bytes)

LEMMA TerminatedIs ==
    ASSUME NEW bytes \in Bytes, NEW j \in 1 .. Cardinality(Newlines(bytes))
    PROVE  /\ LineEnd(bytes, j) \in Newlines(bytes) /\ LineEnd(bytes, j) \in 1 .. Len(bytes)
           /\ LineEnd(bytes, j - 1) \in 0 .. Len(bytes)
           /\ LineEnd(bytes, j - 1) < LineEnd(bytes, j)
           /\ Terminated(bytes)[j] = SubSeq(bytes, LineEnd(bytes, j - 1) + 1, LineEnd(bytes, j) - 1)
           /\ Terminated(bytes)[j] \in Bytes
           /\ Len(Terminated(bytes)[j]) = LineEnd(bytes, j) - 1 - LineEnd(bytes, j - 1)
           /\ Sound(bytes) => Sound(Terminated(bytes)[j])
<1> DEFINE N == Newlines(bytes)
<1>1. N \in SUBSET (1 .. Len(bytes)) /\ Cardinality(N) \in Nat /\ Len(bytes) \in Nat
  BY NewlinesCounted, LenProperties DEF Bytes
<1>2. j - 1 \in 0 .. Cardinality(N) /\ j # 0
  BY <1>1
<1>3. LineEnd(bytes, j) \in N /\ LineEnd(bytes, j) = Nth(N, j)
  BY <1>1, <1>2, NthInOrder DEF LineEnd
<1>4. LineEnd(bytes, j - 1) \in 0 .. Len(bytes)
  BY <1>2, LineEndTyped
<1>5. LineEnd(bytes, j - 1) < LineEnd(bytes, j)
  <2>1. CASE j = 1
    <3>1. LineEnd(bytes, j - 1) = 0
      BY <2>1 DEF LineEnd
    <3> QED
      BY <1>1, <1>3, <3>1
  <2>2. CASE j # 1
    <3>1. j - 1 \in 1 .. Cardinality(N) /\ j - 1 < j /\ j - 1 # 0
      BY <1>1, <2>2
    <3>2. Nth(N, j - 1) < Nth(N, j)
      BY <1>1, <3>1, NthInOrder
    <3> QED
      BY <1>3, <3>1, <3>2 DEF LineEnd
  <2> QED
    BY <2>1, <2>2
<1> DEFINE from == LineEnd(bytes, j - 1) + 1
           to == LineEnd(bytes, j) - 1
<1>6. Terminated(bytes)[j] = SubSeq(bytes, from, to)
  BY DEF Terminated
<1>7. /\ from \in 1 .. Len(bytes) + 1 /\ to \in Int /\ to <= Len(bytes) /\ from <= to + 1
      /\ to + 1 = LineEnd(bytes, j) /\ to \in Nat
  BY <1>1, <1>3, <1>4, <1>5
<1>8. bytes[to + 1] = Newline
  <2>1. LineEnd(bytes, j) \in Newlines(bytes)
    BY <1>3
  <2> QED
    BY <1>7, <2>1 DEF Newlines
<1> HIDE DEF from, to
<1>9. /\ SubSeq(bytes, from, to) \in Bytes
      /\ Len(SubSeq(bytes, from, to)) = IF from <= to THEN to - from + 1 ELSE 0
  BY <1>7, PartIs
<1>10. Len(SubSeq(bytes, from, to)) = to - from + 1
  BY <1>1, <1>7, <1>9
<1>11. Sound(bytes) => Sound(SubSeq(bytes, from, to))
  BY <1>7, <1>8, SoundPart
<1>12. to - from + 1 = LineEnd(bytes, j) - 1 - LineEnd(bytes, j - 1)
  BY <1>1, <1>3, <1>4 DEF from, to
<1>13. LineEnd(bytes, j) \in 1 .. Len(bytes)
  BY <1>1, <1>3
<1> QED
  BY <1>3, <1>4, <1>5, <1>6, <1>9, <1>10, <1>11, <1>12, <1>13 DEF from, to

LEMMA SplitTyped ==
    ASSUME NEW bytes \in Bytes
    PROVE  /\ Split(bytes) \in Seq(Bytes) /\ DOMAIN Split(bytes) = 1 .. Len(Split(bytes))
           /\ Cardinality(Newlines(bytes)) \in Nat
           /\ Len(Split(bytes)) = Cardinality(Newlines(bytes))
                                     + (IF Unterminated(bytes) = <<>> THEN 0 ELSE 1)
           /\ \A j \in 1 .. Cardinality(Newlines(bytes)) :
                 Split(bytes)[j] = Terminated(bytes)[j]
           /\ Unterminated(bytes) # <<>> =>
                 Split(bytes)[Len(Split(bytes))] = Unterminated(bytes)
<1> DEFINE u == Unterminated(bytes)
           m == Cardinality(Newlines(bytes))
           rest == IF u = <<>> THEN <<>> ELSE <<u>>
           t == Terminated(bytes)
<1>1. t \in Seq(Bytes) /\ Len(t) = m /\ m \in Nat /\ u \in Bytes
  BY TerminatedTyped, NewlinesCounted, LinesAreBytes
<1>2. Split(bytes) = t \o rest
  BY DEF Split
<1> HIDE DEF t, m, u
<1>3. /\ rest \in Seq(Bytes) /\ Len(rest) = IF u = <<>> THEN 0 ELSE 1
      /\ u # <<>> => rest[1] = u
  BY <1>1, EmptySeq
<1> HIDE DEF rest
<1> DEFINE s == t \o rest
<1>4. /\ s \in Seq(Bytes) /\ Len(s) = Len(t) + Len(rest)
      /\ \A i \in 1 .. Len(t) + Len(rest) : s[i] = IF i <= Len(t) THEN t[i] ELSE rest[i - Len(t)]
  BY <1>1, <1>3, ConcatProperties
<1> HIDE DEF s
<1>5. DOMAIN s = 1 .. Len(s) /\ Len(s) = m + (IF u = <<>> THEN 0 ELSE 1)
  BY <1>1, <1>3, <1>4, LenProperties
<1>6. \A j \in 1 .. m : s[j] = t[j]
  <2>1. \A j \in 1 .. m : j \in 1 .. Len(t) + Len(rest) /\ j <= Len(t)
    BY <1>1, <1>3
  <2> QED
    BY <1>4, <2>1
<1>7. ASSUME u # <<>> PROVE s[Len(s)] = u
  <2>1. Len(s) \in 1 .. Len(t) + Len(rest) /\ ~ (Len(s) <= Len(t)) /\ Len(s) - Len(t) = 1
    BY <1>1, <1>3, <1>4, <1>7
  <2> QED
    BY <1>3, <1>4, <1>7, <2>1
<1> QED
  BY <1>1, <1>2, <1>4, <1>5, <1>6, <1>7 DEF s, t, m, u

LEMMA SplitIs ==
    ASSUME NEW bytes \in Bytes
    PROVE  /\ Place(bytes, 0) = 0 /\ Len(Split(bytes)) \in Nat
           /\ \A j \in 0 .. Len(Split(bytes)) : Place(bytes, j) \in 0 .. Len(bytes)
           /\ \A j \in 1 .. Len(Split(bytes)) :
                 /\ Place(bytes, j) > 0
                 /\ Len(Split(bytes)[j]) \in Nat
                 /\ Len(Split(bytes)[j]) <= Place(bytes, j) - Place(bytes, j - 1)
                 /\ Sound(bytes) => Sound(Split(bytes)[j])
<1> DEFINE u == Unterminated(bytes)
           m == Cardinality(Newlines(bytes))
           L == Len(Split(bytes))
<1>1. m \in Nat /\ L = m + (IF u = <<>> THEN 0 ELSE 1) /\ Len(bytes) \in Nat
  BY SplitTyped, LenProperties DEF Bytes
<1>2. \A j \in 0 .. m : Place(bytes, j) = LineEnd(bytes, j) /\ LineEnd(bytes, j) \in 0 .. Len(bytes)
  BY <1>1, LineEndTyped DEF Place
<1>3. Place(bytes, m + 1) = Len(bytes)
  <2>1. ~ (m + 1 <= m)
    BY <1>1
  <2> QED
    BY <2>1 DEF Place
<1>4. Place(bytes, 0) = 0
  <2>1. 0 \in 0 .. m
    BY <1>1
  <2> QED
    BY <1>2, <2>1 DEF LineEnd
<1>5. ASSUME NEW j \in 1 .. m
      PROVE  /\ Place(bytes, j) > 0
             /\ Len(Split(bytes)[j]) \in Nat
             /\ Len(Split(bytes)[j]) <= Place(bytes, j) - Place(bytes, j - 1)
             /\ Sound(bytes) => Sound(Split(bytes)[j])
  <2>1. /\ LineEnd(bytes, j) \in 1 .. Len(bytes) /\ LineEnd(bytes, j - 1) \in 0 .. Len(bytes)
        /\ LineEnd(bytes, j - 1) < LineEnd(bytes, j)
        /\ Len(Terminated(bytes)[j]) = LineEnd(bytes, j) - 1 - LineEnd(bytes, j - 1)
        /\ Sound(bytes) => Sound(Terminated(bytes)[j])
    BY TerminatedIs
  <2>2. Split(bytes)[j] = Terminated(bytes)[j]
    BY SplitTyped
  <2>3. j \in 0 .. m /\ j - 1 \in 0 .. m
    BY <1>1
  <2>4. Place(bytes, j) = LineEnd(bytes, j) /\ Place(bytes, j - 1) = LineEnd(bytes, j - 1)
    BY <1>2, <2>3
  <2> HIDE DEF m
  <2>5. /\ LineEnd(bytes, j) > 0
        /\ LineEnd(bytes, j) - 1 - LineEnd(bytes, j - 1) \in Nat
        /\ LineEnd(bytes, j) - 1 - LineEnd(bytes, j - 1) <= LineEnd(bytes, j) - LineEnd(bytes, j - 1)
    BY <1>1, <2>1
  <2> QED
    BY <2>1, <2>2, <2>4, <2>5
<1>6. ASSUME u # <<>>
      PROVE  /\ Place(bytes, m + 1) > 0
             /\ Len(Split(bytes)[m + 1]) \in Nat
             /\ Len(Split(bytes)[m + 1]) <= Place(bytes, m + 1) - Place(bytes, m)
             /\ Sound(bytes) => Sound(Split(bytes)[m + 1])
  <2> DEFINE k == LastEnd(bytes)
  <2>1. k \in 0 .. Len(bytes) /\ LineEnd(bytes, m) = k
    BY LastEndIs
  <2>2. u = SubSeq(bytes, k + 1, Len(bytes))
    BY UnterminatedIs
  <2>3. Split(bytes)[m + 1] = u
    <3>1. L = m + 1
      BY <1>1, <1>6
    <3> QED
      BY <1>6, <3>1, SplitTyped
  <2> HIDE DEF k, u
  <2>4. u \in Bytes /\ Len(u) = Len(bytes) - k
    BY <2>1, <2>2, RestEnds
  <2>5. Len(u) \in Nat /\ Len(u) >= 1
    BY <1>6, <2>4, EmptySeq, LenProperties DEF Bytes
  <2>6. Sound(bytes) => Sound(u)
    <3>1. k + 1 \in 1 .. Len(bytes) + 1 /\ Len(bytes) \in Int /\ Len(bytes) <= Len(bytes)
      BY <1>1, <2>1
    <3> QED
      BY <2>2, <3>1, SoundPart
  <2>7. Place(bytes, m) = k
    <3>1. m \in 0 .. m
      BY <1>1
    <3> QED
      BY <1>2, <2>1, <3>1
  <2> HIDE DEF m
  <2>8. Len(bytes) > 0 /\ Len(u) <= Len(bytes) - k
    BY <1>1, <2>1, <2>4, <2>5
  <2> QED
    BY <1>3, <2>3, <2>5, <2>6, <2>7, <2>8
<1>7. L \in Nat
  BY <1>1
<1>8. \A j \in 0 .. L : Place(bytes, j) \in 0 .. Len(bytes)
  <2> TAKE j \in 0 .. L
  <2>1. CASE j \in 0 .. m
    BY <1>2, <2>1
  <2>2. CASE j \notin 0 .. m
    <3>1. j = m + 1
      BY <1>1, <2>2
    <3>2. Len(bytes) \in 0 .. Len(bytes)
      BY <1>1
    <3> QED
      BY <1>3, <3>1, <3>2
  <2> QED
    BY <2>1, <2>2
<1>9. ASSUME NEW j \in 1 .. L
      PROVE  /\ Place(bytes, j) > 0
             /\ Len(Split(bytes)[j]) \in Nat
             /\ Len(Split(bytes)[j]) <= Place(bytes, j) - Place(bytes, j - 1)
             /\ Sound(bytes) => Sound(Split(bytes)[j])
  <2>1. CASE j \in 1 .. m
    BY <1>5, <2>1
  <2>2. CASE j \notin 1 .. m
    <3>1. j = m + 1 /\ u # <<>> /\ j - 1 = m
      BY <1>1, <2>2
    <3> HIDE DEF u, m
    <3> QED
      BY <1>6, <3>1
  <2> QED
    BY <2>1, <2>2
<1> QED
  BY <1>4, <1>7, <1>8, <1>9

(* Lines are continued where the last of them ended. *)
LEMMA SplitGoesOn ==
    ASSUME NEW a \in Bytes, NEW c \in Bytes, LastEnd(a) = Len(a)
    PROVE  Split(a \o c) = Terminated(a) \o Split(c) /\ a \o c \in Bytes
<1> DEFINE u == Unterminated(c)
           rest == IF u = <<>> THEN <<>> ELSE <<u>>
<1>1. Terminated(a \o c) = Terminated(a) \o Terminated(c) /\ Unterminated(a \o c) = u
  BY GoesOnAtEnd
<1>2. Terminated(a) \in Seq(Bytes) /\ Terminated(c) \in Seq(Bytes) /\ u \in Bytes
  BY TerminatedTyped, LinesAreBytes
<1>3. rest \in Seq(Bytes)
  BY <1>2, EmptySeq
<1>4. Split(a \o c) = (Terminated(a) \o Terminated(c)) \o rest /\ Split(c) = Terminated(c) \o rest
  BY <1>1 DEF Split
<1>5. a \o c \in Bytes
  BY ConcatProperties DEF Bytes
<1> HIDE DEF rest
<1>6. (Terminated(a) \o Terminated(c)) \o rest = Terminated(a) \o (Terminated(c) \o rest)
  BY <1>2, <1>3, ConcatAssociative
<1> QED
  BY <1>4, <1>5, <1>6

-----------------------------------------------------------------------------
(* What is decoded of the lines of x that follow a place of the file. *)

Newest(x, count) == IF count <= Len(Split(x)) THEN count ELSE Len(Split(x))

KeptLine(x, count, n) == WithoutReturn(Split(x)[Len(Split(x)) - Newest(x, count) + n])

LEMMA NewestFirstIs ==
    ASSUME NEW x \in Bytes, NEW count \in Nat
    PROVE  LET raw == tailLineBuffersNewestFirst(x, count)
               c == Newest(x, count)
               L == Len(Split(x))
           IN  /\ raw \in Seq(Bytes) /\ Len(raw) = c /\ c \in 0 .. L
               /\ \A n \in 1 .. c : L + 1 - n \in 1 .. L /\ raw[n] = WithoutReturn(Split(x)[L + 1 - n])
<1> DEFINE raw == tailLineBuffersNewestFirst(x, count)
           c == Newest(x, count)
           L == Len(Split(x))
<1>1. /\ Split(x) \in Seq(Bytes) /\ L \in Nat /\ \A j \in 1 .. L : Split(x)[j] \in Bytes
  BY SplitTyped, LenProperties, ElementOfSeq
<1>2. c \in 0 .. L /\ Min({count, L}) = c
  BY <1>1, Smaller DEF Newest
<1>3. raw = [n \in 1 .. c |-> WithoutReturn(Split(x)[L + 1 - n])]
  BY <1>2 DEF tailLineBuffersNewestFirst
<1> HIDE DEF raw, c, L
<1>4. \A n \in 1 .. c : L + 1 - n \in 1 .. L
  BY <1>1, <1>2
<1>5. \A n \in 1 .. c : WithoutReturn(Split(x)[L + 1 - n]) \in Bytes
  BY <1>1, <1>4, WithoutReturnTyped
<1>6. raw \in Seq(Bytes) /\ Len(raw) = c
  BY <1>1, <1>2, <1>3, <1>5
<1> QED
  BY <1>2, <1>3, <1>4, <1>6 DEF raw, c, L

(* Whole lines come back whole; so does what there is of the line before them,
   if it is short enough. *)
LEMMA TailDecoded ==
    ASSUME NEW x \in Bytes, Sound(x), NEW count \in Nat,
           NEW slack \in Nat, Len(x) + slack <= MaxRead
    PROVE  LET raw == tailLineBuffersNewestFirst(x, count)
               c == Newest(x, count)
           IN  /\ Decoded(raw, {}) =
                     [n \in 1 .. c |-> [text |-> KeptLine(x, count, n), cut |-> FALSE]]
               /\ \A part \in Bytes :
                     Sound(part) /\ Len(part) <= slack /\ slack > 0 /\ c = Len(Split(x)) =>
                        Decoded(Append(raw, part), {c + 1}) =
                           [n \in 1 .. c + 1 |->
                               IF n = 1 THEN [text |-> part, cut |-> TRUE]
                               ELSE [text |-> KeptLine(x, count, n - 1), cut |-> FALSE]]
<1> DEFINE raw == tailLineBuffersNewestFirst(x, count)
           c == Newest(x, count)
           L == Len(Split(x))
           P(j) == Place(x, j)
<1>1. /\ raw \in Seq(Bytes) /\ Len(raw) = c /\ c \in 0 .. L
      /\ \A n \in 1 .. c : L + 1 - n \in 1 .. L /\ raw[n] = WithoutReturn(Split(x)[L + 1 - n])
  BY NewestFirstIs
<1>2. /\ P(0) = 0 /\ L \in Nat
      /\ \A j \in 0 .. L : P(j) \in 0 .. Len(x)
      /\ \A j \in 1 .. L :
            /\ P(j) > 0
            /\ Len(Split(x)[j]) \in Nat
            /\ Len(Split(x)[j]) <= P(j) - P(j - 1)
            /\ Sound(Split(x)[j])
  BY SplitIs
<1>3. \A j \in 1 .. L : Split(x)[j] \in Bytes
  BY SplitTyped, ElementOfSeq
<1>4. Len(x) \in Nat /\ Len(x) + slack <= MaxRead /\ MaxRead \in Nat
  BY TailAssumption, LenProperties DEF Bytes
<1>13. \A n \in 1 .. c : KeptLine(x, count, n) = WithoutReturn(Split(x)[L - c + n])
  BY DEF KeptLine
<1> HIDE DEF raw, c, L, P
<1>5. ASSUME NEW n \in 1 .. c
      PROVE  /\ Sound(raw[n]) /\ raw[n] \in Bytes
             /\ Len(raw[n]) \in Nat /\ Len(raw[n]) <= P(L + 1 - n) - P(L - n)
  <2>1. PICK j \in 1 .. L : j = L + 1 - n
    BY <1>1
  <2>2. j - 1 = L - n /\ j \in 0 .. L /\ j - 1 \in 0 .. L
    BY <1>1, <1>2, <2>1
  <2>3. /\ Sound(raw[n]) /\ raw[n] \in Bytes
        /\ Len(raw[n]) \in Nat /\ Len(raw[n]) <= Len(Split(x)[j])
    BY <1>1, <1>2, <1>3, <2>1, SoundWithoutReturn
  <2>4. P(j) \in Int /\ P(j - 1) \in Int /\ Len(Split(x)[j]) \in Int /\ Len(Split(x)[j]) <= P(j) - P(j - 1)
    BY <1>2, <2>2
  <2>5. Len(raw[n]) <= P(j) - P(j - 1)
    BY <2>3, <2>4
  <2> QED
    BY <2>1, <2>2, <2>3, <2>5
<1> DEFINE reach(n) == P(L - n) + slack
<1>6. \A n \in 0 .. c : L - n \in 0 .. L /\ P(L - n) \in 0 .. Len(x) /\ reach(n) \in Nat
  <2> TAKE n \in 0 .. c
  <2>1. L - n \in 0 .. L
    BY <1>1, <1>2
  <2>2. P(L - n) \in 0 .. Len(x)
    BY <1>2, <2>1
  <2>3. P(L - n) \in Nat
    BY <1>4, <2>2
  <2> QED
    BY <2>1, <2>2, <2>3
<1>7. reach(0) <= MaxRead
  <2>1. L - 0 = L /\ L \in 0 .. L
    BY <1>2
  <2>2. P(L - 0) \in 0 .. Len(x)
    BY <1>2, <2>1
  <2> QED
    BY <1>4, <2>2
<1>8. ASSUME NEW n \in 1 .. c
      PROVE  /\ n - 1 \in 0 .. c /\ n \in 0 .. c /\ reach(n - 1) > 0
             /\ Len(raw[n]) <= reach(n - 1) - reach(n)
  <2>1. /\ n - 1 \in 0 .. c /\ n \in 0 .. c /\ L - (n - 1) = L + 1 - n /\ L + 1 - n \in 1 .. L
    BY <1>1, <1>2
  <2>2. P(L - (n - 1)) = P(L + 1 - n) /\ P(L + 1 - n) > 0
    BY <1>2, <2>1
  <2>3. P(L - (n - 1)) \in Int /\ P(L - n) \in Int
    BY <1>4, <1>6, <2>1
  <2>4. Len(raw[n]) \in Int /\ Len(raw[n]) <= P(L + 1 - n) - P(L - n)
    BY <1>5
  <2> HIDE DEF P
  <2>5. reach(n - 1) > 0 /\ Len(raw[n]) <= reach(n - 1) - reach(n)
    BY <2>2, <2>3, <2>4
  <2> QED
    BY <2>1, <2>5
<1> HIDE DEF reach
<1>9. Decoded(raw, {}) = [n \in 1 .. c |-> [text |-> KeptLine(x, count, n), cut |-> FALSE]]
  <2> DEFINE far == [n \in 0 .. c |-> reach(n)]
  <2>1. far \in [0 .. Len(raw) -> Nat] /\ \A n \in 0 .. c : far[n] = reach(n)
    BY <1>1, <1>6
  <2>2. far[0] <= MaxRead
    <3>1. 0 \in 0 .. c
      BY <1>1
    <3> QED
      BY <1>7, <2>1, <3>1
  <2> HIDE DEF far
  <2>3. \A n \in 1 .. Len(raw) : Len(raw[n]) <= far[n - 1] - far[n]
    BY <1>1, <1>8, <2>1
  <2>4. \A n \in 1 .. Len(raw) : n > 1 => far[n - 1] > 0
    BY <1>1, <1>8, <2>1
  <2>5. \A n \in 1 .. Len(raw) : Sound(raw[n])
    BY <1>1, <1>5
  <2>6. Decoded(raw, {}) =
           [n \in 1 .. Len(raw) |-> [text |-> raw[Len(raw) + 1 - n],
                                    cut |-> Len(raw) + 1 - n \in {}]]
    BY <1>1, <2>1, <2>2, <2>3, <2>4, <2>5, DecodesAll
  <2>7. \A n \in 1 .. c : raw[c + 1 - n] = KeptLine(x, count, n)
    <3> TAKE n \in 1 .. c
    <3>1. c + 1 - n \in 1 .. c /\ L + 1 - (c + 1 - n) = L - c + n
      BY <1>1, <1>2
    <3>2. raw[c + 1 - n] = WithoutReturn(Split(x)[L + 1 - (c + 1 - n)])
      BY <1>1, <3>1
    <3> QED
      BY <1>13, <3>1, <3>2
  <2>8. Decoded(raw, {}) = [n \in 1 .. c |-> [text |-> raw[c + 1 - n], cut |-> FALSE]]
    <3>1. \A i : (i \in {}) = FALSE
      OBVIOUS
    <3>2. Decoded(raw, {}) =
             [n \in 1 .. c |-> [text |-> raw[c + 1 - n], cut |-> c + 1 - n \in {}]]
      BY <1>1, <2>6
    <3> QED
      BY <3>1, <3>2, Zenon
  <2> QED
    BY <2>7, <2>8
<1>10. ASSUME NEW part \in Bytes, Sound(part), Len(part) <= slack, slack > 0, c = L
       PROVE  Decoded(Append(raw, part), {c + 1}) =
                 [n \in 1 .. c + 1 |->
                     IF n = 1 THEN [text |-> part, cut |-> TRUE]
                     ELSE [text |-> KeptLine(x, count, n - 1), cut |-> FALSE]]
  <2> DEFINE more == Append(raw, part)
             far == [n \in 0 .. c + 1 |-> IF n = c + 1 THEN 0 ELSE reach(n)]
  <2>0. c \in Nat
    BY <1>1, <1>2
  <2>1. /\ more \in Seq(Bytes) /\ Len(more) = c + 1
        /\ \A n \in 1 .. c : more[n] = raw[n]
        /\ more[c + 1] = part
    BY <1>1, AppendProperties
  <2>2. /\ far \in [0 .. Len(more) -> Nat]
        /\ \A n \in 0 .. c : far[n] = reach(n)
        /\ far[c + 1] = 0
    <3>1. \A n \in 0 .. c + 1 : n = c + 1 \/ n \in 0 .. c
      BY <2>0
    <3>2. \A n \in 0 .. c : n \in 0 .. c + 1 /\ n # c + 1
      BY <2>0
    <3>3. c + 1 \in 0 .. c + 1
      BY <2>0
    <3> QED
      BY <1>6, <2>1, <3>1, <3>2, <3>3
  <2>3. reach(c) = slack /\ reach(c) \in Nat
    <3>1. L - c = 0
      BY <1>2, <1>10
    <3> QED
      BY <1>2, <3>1 DEF reach
  <2> HIDE DEF far, more
  <2>4. far[0] <= MaxRead
    <3>1. 0 \in 0 .. c
      BY <2>0
    <3> QED
      BY <1>7, <2>2, <3>1
  <2>5. ASSUME NEW n \in 1 .. Len(more)
        PROVE  /\ Len(more[n]) <= far[n - 1] - far[n]
               /\ far[n - 1] > 0 /\ Sound(more[n])
    <3>1. CASE n \in 1 .. c
      BY <1>5, <1>8, <2>1, <2>2, <3>1
    <3>2. CASE n \notin 1 .. c
      <4>1. n = c + 1 /\ n - 1 = c /\ c \in 0 .. c
        BY <2>0, <2>1, <3>2
      <4>2. more[n] = part /\ far[n] = 0 /\ far[n - 1] = slack
        BY <2>1, <2>2, <2>3, <4>1
      <4>3. slack - 0 = slack
        OBVIOUS
      <4> QED
        BY <1>10, <4>2, <4>3
    <3> QED
      BY <3>1, <3>2
  <2>6. \A n \in 1 .. Len(more) : Len(more[n]) <= far[n - 1] - far[n]
    BY <2>5
  <2>7. \A n \in 1 .. Len(more) : n > 1 => far[n - 1] > 0
    BY <2>5
  <2>8. \A n \in 1 .. Len(more) : Sound(more[n])
    BY <2>5
  <2>9. Decoded(more, {c + 1}) =
           [n \in 1 .. Len(more) |-> [text |-> more[Len(more) + 1 - n],
                                     cut |-> Len(more) + 1 - n \in {c + 1}]]
    BY <2>1, <2>2, <2>4, <2>6, <2>7, <2>8, DecodesAll
  <2>10. Decoded(more, {c + 1}) =
            [n \in 1 .. c + 1 |-> [text |-> more[(c + 1) + 1 - n],
                                   cut |-> (c + 1) + 1 - n \in {c + 1}]]
    BY <2>1, <2>9
  <2>11. ASSUME NEW n \in 1 .. c + 1
         PROVE  [text |-> more[(c + 1) + 1 - n], cut |-> (c + 1) + 1 - n \in {c + 1}] =
                   IF n = 1 THEN [text |-> part, cut |-> TRUE]
                   ELSE [text |-> KeptLine(x, count, n - 1), cut |-> FALSE]
    <3>1. CASE n = 1
      <4>1. (c + 1) + 1 - n = c + 1
        BY <2>0, <3>1
      <4> QED
        BY <2>1, <3>1, <4>1
    <3>2. CASE n # 1
      <4>1. /\ (c + 1) + 1 - n \in 1 .. c /\ (c + 1) + 1 - n # c + 1 /\ n - 1 \in 1 .. c
            /\ L + 1 - ((c + 1) + 1 - n) = L - c + (n - 1)
        BY <1>2, <2>0, <3>2
      <4>2. more[(c + 1) + 1 - n] = WithoutReturn(Split(x)[L + 1 - ((c + 1) + 1 - n)])
        BY <1>1, <2>1, <4>1
      <4>3. more[(c + 1) + 1 - n] = KeptLine(x, count, n - 1)
        BY <1>13, <4>1, <4>2
      <4>4. ((c + 1) + 1 - n \in {c + 1}) = FALSE
        BY <4>1
      <4> QED
        BY <3>2, <4>3, <4>4, Zenon
    <3> QED
      BY <3>1, <3>2
  <2>12. Decoded(more, {c + 1}) =
            [n \in 1 .. c + 1 |->
                IF n = 1 THEN [text |-> part, cut |-> TRUE]
                ELSE [text |-> KeptLine(x, count, n - 1), cut |-> FALSE]]
    BY <2>10, <2>11, Zenon
  <2> QED
    BY <2>12 DEF more
<1> QED
  BY <1>9, <1>10 DEF raw, c, L

-----------------------------------------------------------------------------
(* A file that is read from a place in the middle *)

LEMMA Glued ==
    ASSUME NEW s \in Bytes, NEW k \in 0 .. Len(s)
    PROVE  s = SubSeq(s, 1, k) \o SubSeq(s, k + 1, Len(s))
<1> DEFINE h == SubSeq(s, 1, k)
           t == SubSeq(s, k + 1, Len(s))
<1>1. Len(s) \in Nat
  BY LenProperties DEF Bytes
<1>2. h \in Bytes /\ Len(h) = k /\ \A i \in 1 .. k : h[i] = s[i]
  BY StartIs
<1>3. t \in Bytes /\ Len(t) = Len(s) - k /\ \A i \in 1 .. Len(s) - k : t[i] = s[k + i]
  BY RestEnds
<1> HIDE DEF h, t
<1> DEFINE j == h \o t
<1>4. /\ j \in Bytes /\ Len(j) = Len(h) + Len(t)
      /\ \A i \in 1 .. Len(h) + Len(t) : j[i] = IF i <= Len(h) THEN h[i] ELSE t[i - Len(h)]
  BY <1>2, <1>3, ConcatProperties DEF Bytes
<1> HIDE DEF j
<1>5. Len(j) = Len(s)
  BY <1>1, <1>2, <1>3, <1>4
<1>6. ASSUME NEW i \in 1 .. Len(s) PROVE s[i] = j[i]
  <2>0. i \in 1 .. Len(h) + Len(t)
    BY <1>1, <1>2, <1>3
  <2>1. CASE i <= k
    <3>1. i \in 1 .. k
      BY <1>1, <2>1
    <3> QED
      BY <1>2, <1>4, <2>0, <2>1, <3>1
  <2>2. CASE ~ (i <= k)
    <3>1. i - k \in 1 .. Len(s) - k /\ k + (i - k) = i
      BY <1>1, <2>2
    <3>2. t[i - k] = s[k + (i - k)]
      BY <1>3, <3>1
    <3> QED
      BY <1>2, <1>4, <2>0, <2>2, <3>1, <3>2
  <2> QED
    BY <2>1, <2>2
<1>7. s = j
  BY <1>4, <1>5, <1>6, SeqEqual DEF Bytes
<1> QED
  BY <1>7 DEF j, h, t

LEMMA RestOfAll ==
    ASSUME NEW s \in Bytes
    PROVE  SubSeq(s, 0 + 1, Len(s)) = s
<1>1. Len(s) \in Nat /\ 0 \in 0 .. Len(s) /\ 0 + 1 = 1
  BY LenProperties DEF Bytes
<1>2. SubSeq(s, 1, Len(s)) \in Bytes /\ Len(SubSeq(s, 1, Len(s))) = Len(s)
      /\ \A i \in 1 .. Len(s) : SubSeq(s, 1, Len(s))[i] = s[i]
  <2>1. Len(s) \in 0 .. Len(s)
    BY <1>1
  <2> QED
    BY <2>1, StartIs
<1> QED
  BY <1>1, <1>2, SeqEqual DEF Bytes

LEMMA RestOfRest ==
    ASSUME NEW s \in Bytes, NEW k \in 0 .. Len(s), NEW l \in 0 .. Len(s) - k
    PROVE  LET t == SubSeq(s, k + 1, Len(s))
           IN  SubSeq(t, l + 1, Len(t)) = SubSeq(s, (k + l) + 1, Len(s))
<1> DEFINE t == SubSeq(s, k + 1, Len(s))
           r == SubSeq(t, l + 1, Len(t))
           q == SubSeq(s, (k + l) + 1, Len(s))
<1>1. Len(s) \in Nat
  BY LenProperties DEF Bytes
<1>2. t \in Bytes /\ Len(t) = Len(s) - k /\ \A i \in 1 .. Len(s) - k : t[i] = s[k + i]
  BY RestEnds
<1> HIDE DEF t
<1>3. r \in Bytes /\ Len(r) = Len(t) - l /\ \A i \in 1 .. Len(t) - l : r[i] = t[l + i]
  <2>1. l \in 0 .. Len(t)
    BY <1>2
  <2> QED
    BY <1>2, <2>1, RestEnds
<1>4. q \in Bytes /\ Len(q) = Len(s) - (k + l) /\ \A i \in 1 .. Len(s) - (k + l) : q[i] = s[(k + l) + i]
  <2>1. k + l \in 0 .. Len(s)
    BY <1>1
  <2> QED
    BY <2>1, RestEnds
<1> HIDE DEF r, q
<1>5. Len(r) = Len(q)
  BY <1>1, <1>2, <1>3, <1>4
<1>6. ASSUME NEW i \in 1 .. Len(r) PROVE r[i] = q[i]
  <2>1. /\ i \in 1 .. Len(t) - l /\ l + i \in 1 .. Len(s) - k
        /\ k + (l + i) = (k + l) + i /\ i \in 1 .. Len(s) - (k + l)
    BY <1>1, <1>2, <1>3
  <2>2. r[i] = t[l + i] /\ t[l + i] = s[k + (l + i)] /\ q[i] = s[(k + l) + i]
    BY <1>2, <1>3, <1>4, <2>1
  <2> QED
    BY <2>1, <2>2
<1>7. r = q
  BY <1>3, <1>4, <1>5, <1>6, SeqEqual DEF Bytes
<1> QED
  BY <1>7 DEF r, q, t

LEMMA EndsAtNewline ==
    ASSUME NEW h \in Bytes, Len(h) \in Newlines(h)
    PROVE  LastEnd(h) = Len(h) /\ Cardinality(Newlines(h)) \in Nat /\ Cardinality(Newlines(h)) >= 1
<1>1. Len(h) \in Nat /\ LastEnd(h) \in 0 .. Len(h) /\ Len(h) <= LastEnd(h)
  BY LastEndIs, LenProperties DEF Bytes
<1>2. LastEnd(h) = Len(h)
  BY <1>1
<1>3. IsFiniteSet(Newlines(h)) /\ Cardinality(Newlines(h)) \in Nat
  BY NewlinesCounted
<1>4. Cardinality(Newlines(h)) # 0
  BY <1>3, FS_EmptySet
<1> QED
  BY <1>2, <1>3, <1>4

(* The first newline that is read cuts the file where a line ends. *)
LEMMA ReadCuts ==
    ASSUME NEW file \in Bytes, Sound(file), NEW from \in 0 .. Len(file) - 1,
           NEW read, read = SubSeq(file, from + 1, Len(file)), Newlines(read) # {}
    PROVE  LET first == Min(Newlines(read))
               x == SubSeq(read, first + 1, Len(read))
               part == SubSeq(read, 1, first - 1)
           IN  /\ first \in Nat /\ first >= 1 /\ x \in Bytes /\ Sound(x)
               /\ Len(x) + first = Len(file) - from
               /\ countNewlines(read) = 1 + Cardinality(Newlines(x))
               /\ part \in Bytes /\ Sound(part) /\ Len(part) = first - 1
               /\ \E h \in Bytes :
                     /\ Split(file) = Terminated(h) \o Split(x)
                     /\ Terminated(h) \in Seq(Bytes) /\ Len(Terminated(h)) \in Nat
                     /\ Len(Terminated(h)) >= 1
                     /\ Ends(part, Terminated(h)[Len(Terminated(h))])
                     /\ Terminated(h)[Len(Terminated(h))] \in Bytes
<1> DEFINE N == Newlines(read)
           first == Min(N)
           x == SubSeq(read, first + 1, Len(read))
           part == SubSeq(read, 1, first - 1)
           k == from + first
           h == SubSeq(file, 1, k)
<1>1. Len(file) \in Nat /\ from \in 0 .. Len(file)
  BY LenProperties DEF Bytes
<1>2. /\ read \in Bytes /\ Len(read) = Len(file) - from
      /\ \A i \in 1 .. Len(file) - from : read[i] = file[from + i]
  BY <1>1, RestEnds
<1>3. N \subseteq 1 .. Len(read) /\ first \in N /\ \A i \in N : first <= i
  <2>1. N \subseteq 1 .. Len(read)
    BY <1>2, NewlinesCounted
  <2>2. Len(read) \in Nat /\ N # {}
    BY <1>2, LenProperties DEF Bytes
  <2> HIDE DEF N
  <2>3. N \in SUBSET Nat
    BY <2>1, <2>2
  <2> QED
    BY <2>1, <2>2, <2>3, Least
<1>4. first \in 1 .. Len(read) /\ read[first] = Newline
  BY <1>3 DEF Newlines
<1> HIDE DEF first
<1>5. first \in Nat /\ first >= 1 /\ first \in 0 .. Len(read) /\ first - 1 \in 0 .. Len(read)
      /\ first \in 0 .. Len(file) - from
  BY <1>1, <1>2, <1>4
<1>6. k \in 0 .. Len(file) /\ k \in 1 .. Len(file)
  BY <1>1, <1>5
<1>7. /\ x \in Bytes /\ Len(x) = Len(read) - first
      /\ x = SubSeq(file, k + 1, Len(file))
  <2>1. x \in Bytes /\ Len(x) = Len(read) - first
    BY <1>2, <1>5, RestEnds
  <2>2. SubSeq(read, first + 1, Len(read)) = SubSeq(file, (from + first) + 1, Len(file))
    BY <1>1, <1>5, RestOfRest
  <2> QED
    BY <2>1, <2>2
<1>8. Sound(x)
  <2>1. k + 1 \in 1 .. Len(file) + 1 /\ Len(file) \in Int /\ Len(file) <= Len(file)
    BY <1>1, <1>6
  <2> QED
    BY <1>7, <2>1, SoundPart
<1>9. Sound(read)
  <2>1. from + 1 \in 1 .. Len(file) + 1 /\ Len(file) \in Int /\ Len(file) <= Len(file)
    BY <1>1
  <2> QED
    BY <2>1, SoundPart
<1>10. part \in Bytes /\ Len(part) = first - 1 /\ \A i \in 1 .. first - 1 : part[i] = read[i]
  BY <1>2, <1>5, StartIs
<1>11. Sound(part)
  <2>1. 1 \in 1 .. Len(read) + 1 /\ first - 1 \in Int /\ first - 1 <= Len(read) /\ (first - 1) + 1 = first
    BY <1>1, <1>2, <1>5
  <2> QED
    BY <1>2, <1>4, <1>9, <2>1, SoundPart
<1>12. /\ h \in Bytes /\ Len(h) = k /\ \A i \in 1 .. k : h[i] = file[i]
       /\ file = h \o x
  <2> HIDE DEF k, x
  <2>1. h \in Bytes /\ Len(h) = k /\ \A i \in 1 .. k : h[i] = file[i]
    BY <1>6, StartIs
  <2>2. file = SubSeq(file, 1, k) \o SubSeq(file, k + 1, Len(file))
    BY <1>6, Glued
  <2> QED
    BY <1>7, <2>1, <2>2
<1>13. countNewlines(read) = 1 + Cardinality(Newlines(x))
  <2> DEFINE r == SubSeq(read, 1, first)
  <2>1. r \in Bytes /\ Len(r) = first /\ \A i \in 1 .. first : r[i] = read[i]
    BY <1>2, <1>5, StartIs
  <2>2. read = r \o x
    BY <1>2, <1>5, Glued
  <2>3. DOMAIN r = 1 .. first
    BY <2>1, LenProperties DEF Bytes
  <2> HIDE DEF r, x
  <2>4. Newlines(r) = {first}
    <3>1. \A i \in 1 .. first : r[i] = Newline <=> i = first
      <4> TAKE i \in 1 .. first
      <4>1. i \in 1 .. Len(read) /\ DOMAIN read = 1 .. Len(read)
        BY <1>2, <1>4, LenProperties DEF Bytes
      <4>2. read[i] = Newline => i \in N
        BY <4>1 DEF Newlines
      <4>3. read[i] = Newline => i = first
        BY <1>3, <1>5, <4>2
      <4> QED
        BY <1>4, <2>1, <4>3
    <3>2. first \in 1 .. first
      BY <1>5
    <3> QED
      BY <2>3, <3>1, <3>2 DEF Newlines
  <2>5. Cardinality(Newlines(r)) = 1
    BY <2>4, FS_Singleton
  <2> QED
    <3>1. Cardinality(Newlines(r \o x)) = Cardinality(Newlines(r)) + Cardinality(Newlines(x))
      BY <1>7, <2>1, EndsJoined
    <3> QED
      BY <2>2, <2>5, <3>1 DEF countNewlines
<1> HIDE DEF h, x, part, k
<1>14. h[k] = Newline /\ k \in Newlines(h)
  <2>1. h[k] = file[k] /\ k \in DOMAIN h
    <3>1. k \in 1 .. k /\ DOMAIN h = 1 .. Len(h)
      BY <1>6, <1>12, LenProperties DEF Bytes
    <3> QED
      BY <1>12, <3>1
  <2>2. read[first] = file[k]
    BY <1>2, <1>4 DEF k
  <2> QED
    BY <1>4, <2>1, <2>2 DEF Newlines
<1>15. /\ LastEnd(h) = k /\ Cardinality(Newlines(h)) \in Nat /\ Cardinality(Newlines(h)) >= 1
  BY <1>12, <1>14, EndsAtNewline
<1>16. Split(file) = Terminated(h) \o Split(x)
  <2>1. LastEnd(h) = Len(h) /\ h \in Bytes /\ x \in Bytes
    BY <1>7, <1>12, <1>15
  <2>2. Split(h \o x) = Terminated(h) \o Split(x)
    BY <2>1, SplitGoesOn
  <2> QED
    BY <1>12, <2>2
<1> DEFINE M == Cardinality(Newlines(h))
           p == LineEnd(h, M - 1)
           T == Terminated(h)[M]
<1>17. Terminated(h) \in Seq(Bytes) /\ Len(Terminated(h)) = M
  BY <1>12, TerminatedTyped
<1>18. /\ LineEnd(h, M) = k /\ p \in 0 .. k /\ p < k
       /\ T = SubSeq(h, p + 1, k - 1) /\ T \in Bytes /\ Len(T) = k - 1 - p
  <2>1. M \in 1 .. Cardinality(Newlines(h)) /\ LineEnd(h, M) = LastEnd(h)
    BY <1>12, <1>15, LastEndIs
  <2> HIDE DEF M
  <2>2. /\ p \in 0 .. Len(h) /\ p < LineEnd(h, M)
        /\ T = SubSeq(h, p + 1, LineEnd(h, M) - 1) /\ T \in Bytes
        /\ Len(T) = LineEnd(h, M) - 1 - p
    BY <1>12, <2>1, TerminatedIs
  <2> QED
    BY <1>12, <1>15, <2>1, <2>2
<1>19. p <= from
  <2>1. CASE M = 1
    <3>1. p = 0
      BY <2>1 DEF LineEnd
    <3> QED
      BY <1>1, <3>1
  <2>2. CASE M # 1
    <3>1. M - 1 \in 1 .. Cardinality(Newlines(h))
      BY <1>15, <2>2
    <3> HIDE DEF M
    <3>2. p \in Newlines(h)
      BY <1>12, <3>1, TerminatedIs
    <3> HIDE DEF p
    <3> SUFFICES ASSUME ~ (p <= from) PROVE FALSE
      OBVIOUS
    <3>3. PICK i \in 1 .. Len(read) : p = from + i /\ i < first
      <4>1. k = from + first
        BY DEF k
      <4>2. p - from \in 1 .. Len(read) /\ p = from + (p - from) /\ p - from < first
        BY <1>1, <1>2, <1>5, <1>18, <4>1
      <4> QED
        BY <4>2
    <3>4. h[p] = Newline /\ h[p] = file[p]
      <4>1. p \in 1 .. k
        BY <1>1, <1>6, <1>18
      <4> QED
        BY <1>12, <3>2, <4>1 DEF Newlines
    <3>5. read[i] = file[p] /\ DOMAIN read = 1 .. Len(read)
      BY <1>2, <3>3, LenProperties DEF Bytes
    <3>6. i \in N
      BY <3>3, <3>4, <3>5 DEF Newlines
    <3>7. first <= i /\ i \in Int
      BY <1>3, <3>6
    <3> QED
      BY <1>5, <3>3, <3>7
  <2> QED
    BY <2>1, <2>2
<1>20. Ends(part, T)
  <2>0. k = from + first
    BY DEF k
  <2> HIDE DEF p, T, M
  <2>1. Len(part) <= Len(T)
    BY <1>1, <1>5, <1>10, <1>18, <1>19, <2>0
  <2>2. ASSUME NEW i \in 1 .. Len(part)
        PROVE  part[i] = T[Len(T) - Len(part) + i]
    <3>0. i \in 1 .. first - 1 /\ i \in Int
      BY <1>5, <1>10
    <3>1. /\ i \in 1 .. Len(file) - from /\ from + i \in 1 .. k
          /\ Len(T) - Len(part) + i = from + i - p
      BY <1>1, <1>2, <1>5, <1>10, <1>18, <2>0, <3>0
    <3>2. part[i] = file[from + i] /\ h[from + i] = file[from + i]
      BY <1>2, <1>10, <1>12, <3>0, <3>1
    <3>3. T[from + i - p] = h[from + i]
      <4>1. PICK q \in Int : q = from + i - p
        BY <1>1, <1>18, <3>0
      <4>2. /\ p + 1 \in 1 .. Len(h) + 1 /\ k - 1 \in Int /\ k - 1 <= Len(h)
            /\ q \in 1 .. (k - 1) - (p + 1) + 1 /\ (p + 1) + q - 1 = from + i
        BY <1>1, <1>5, <1>6, <1>12, <1>18, <1>19, <2>0, <3>0, <4>1
      <4>3. T[q] = h[(p + 1) + q - 1]
        BY <1>12, <1>18, <4>2, PartIs
      <4> QED
        BY <4>1, <4>2, <4>3
    <3> QED
      BY <3>1, <3>2, <3>3
  <2> QED
    BY <2>1, <2>2 DEF Ends
<1>21. Len(x) + first = Len(file) - from
  BY <1>1, <1>2, <1>5, <1>7
<1>22. \E g \in Bytes :
          /\ Split(file) = Terminated(g) \o Split(x)
          /\ Terminated(g) \in Seq(Bytes) /\ Len(Terminated(g)) \in Nat
          /\ Len(Terminated(g)) >= 1
          /\ Ends(part, Terminated(g)[Len(Terminated(g))])
          /\ Terminated(g)[Len(Terminated(g))] \in Bytes
  BY <1>12, <1>15, <1>16, <1>17, <1>18, <1>20
<1> QED
  BY <1>5, <1>7, <1>8, <1>10, <1>11, <1>13, <1>21, <1>22 DEF first, x, part

-----------------------------------------------------------------------------
(* The last lines *)

GoodTail(read, last, short) ==
    LET off == Len(last) - Len(read)
    IN  /\ off >= 0 /\ Len(read) \in Nat /\ DOMAIN read = 1 .. Len(read)
        /\ short => off = 0 /\ \A n \in DOMAIN read : ~read[n].cut
        /\ \A n \in DOMAIN read :
              IF read[n].cut
              THEN /\ n = 1 /\ IsSuffix(WithoutReturn(read[n].text), last[off + n])
                   /\ read[n].text # <<>> => Head(read[n].text) # Trail
              ELSE read[n].text = last[off + n]

LEMMA LastLinesAre ==
    ASSUME contents \in Bytes, NEW lines \in Int
    PROVE  /\ lines <= 0 => LastLines(lines) = <<>>
           /\ lines > 0 =>
                 LET A == Len(Split(contents))
                     c == Newest(contents, lines)
                 IN  /\ c \in 0 .. A
                     /\ LastLines(lines) =
                           [n \in 1 .. c |-> WithoutReturn(Split(contents)[A - c + n])]
<1> DEFINE A == Len(Split(contents))
           c == Newest(contents, lines)
           from == Max({0, A - lines})
<1>1. A \in Nat
  BY SplitIs
<1>2. LastLines(lines) = [n \in 1 .. A - from |-> WithoutReturn(Split(contents)[from + n])]
  BY DEF LastLines
<1> HIDE DEF A
<1>3. from = IF 0 >= A - lines THEN 0 ELSE A - lines
  <2>1. 0 \in Int /\ A - lines \in Int
    BY <1>1
  <2> QED
    BY <2>1, Larger
<1> HIDE DEF from
<1>4. ASSUME lines <= 0 PROVE LastLines(lines) = <<>>
  <2>1. A - from <= 0 /\ A - from \in Int
    BY <1>1, <1>3, <1>4
  <2>2. 1 .. A - from = {}
    BY <2>1
  <2> QED
    BY <1>2, <2>2
<1>5. ASSUME lines > 0
      PROVE  /\ c \in 0 .. A
             /\ LastLines(lines) = [n \in 1 .. c |-> WithoutReturn(Split(contents)[A - c + n])]
  <2>1. c = IF lines <= A THEN lines ELSE A
    BY DEF Newest, A
  <2> HIDE DEF c
  <2>2. c \in 0 .. A /\ A - from = c /\ from = A - c
    BY <1>1, <1>3, <1>5, <2>1
  <2> QED
    BY <1>2, <2>2
<1> QED
  BY <1>4, <1>5 DEF A, c

LEMMA Quiet ==
    ASSUME contents \in Bytes, NEW lines \in Int, lines <= 0 \/ contents = <<>>
    PROVE  GoodTail(readTailLines(contents, lines), LastLines(lines), Len(contents) <= MaxRead)
<1>1. readTailLines(contents, lines) = <<>>
  BY DEF readTailLines
<1>2. LastLines(lines) = <<>>
  <2>1. CASE lines <= 0
    BY <2>1, LastLinesAre
  <2>2. CASE ~ (lines <= 0)
    <3>0. contents = <<>> /\ lines \in Int /\ ~ (lines <= 0)
      BY <2>2
    <3>1. Newlines(contents) = {} /\ Unterminated(contents) = <<>>
      <4>1. DOMAIN <<>> = {}
        OBVIOUS
      <4>2. Newlines(<<>>) = {}
        BY <4>1 DEF Newlines
      <4> QED
        BY <3>0, <4>2, NothingUnterminated
    <3>2. Len(Split(contents)) = 0
      <4>1. Cardinality(Newlines(contents)) = 0
        BY <3>1, FS_EmptySet
      <4>2. Len(Split(contents)) = 0 + 0
        BY <3>1, <4>1, SplitTyped
      <4> QED
        BY <4>2
    <3>3. Newest(contents, lines) = 0
      BY <3>0, <3>2 DEF Newest
    <3> QED
      BY <2>2, <3>3, LastLinesAre
  <2> QED
    BY <2>1, <2>2
<1>3. Len(<<>>) = 0 /\ DOMAIN <<>> = {} /\ 0 - 0 = 0 /\ 0 >= 0 /\ 0 \in Nat /\ 1 .. 0 = {}
  OBVIOUS
<1>4. GoodTail(<<>>, <<>>, Len(contents) <= MaxRead)
  BY <1>3 DEF GoodTail
<1> QED
  BY <1>1, <1>2, <1>4

(* From the start of the file. *)
LEMMA ReadFromStart ==
    ASSUME contents \in Bytes, Sound(contents), contents # <<>>,
           NEW lines \in Int, lines > 0, ReadFrom(contents, lines) = 0
    PROVE  GoodTail(readTailLines(contents, lines), LastLines(lines), Len(contents) <= MaxRead)
<1> DEFINE A == Len(Split(contents))
           c == Newest(contents, lines)
           G(n) == WithoutReturn(Split(contents)[A - c + n])
<1>1. lines \in Nat /\ ~ (lines <= 0) /\ Len(contents) \in Nat /\ 0 \in Nat /\ MaxRead \in Nat
  BY LenProperties, TailAssumption DEF Bytes
<1>2. Len(contents) + 0 <= MaxRead
  <2>1. Len(contents) - 0 <= MaxRead
    BY ReadFromIs
  <2> QED
    BY <1>1, <2>1
<1>3. readTailLines(contents, lines) = Decoded(tailLineBuffersNewestFirst(contents, lines), {})
  <2>1. SubSeq(contents, ReadFrom(contents, lines) + 1, Len(contents)) = contents
    BY RestOfAll
  <2> QED
    BY <1>1, <2>1 DEF readTailLines
<1>4. Decoded(tailLineBuffersNewestFirst(contents, lines), {}) =
         [n \in 1 .. c |-> [text |-> KeptLine(contents, lines, n), cut |-> FALSE]]
  BY <1>1, <1>2, TailDecoded
<1>5. \A n : KeptLine(contents, lines, n) = G(n)
  BY DEF KeptLine
<1>6. c \in 0 .. A /\ LastLines(lines) = [n \in 1 .. c |-> G(n)]
  BY <1>1, LastLinesAre
<1>7. A \in Nat
  BY SplitIs
<1> HIDE DEF G, c, A
<1>8. readTailLines(contents, lines) = [n \in 1 .. c |-> [text |-> G(n), cut |-> FALSE]]
  BY <1>3, <1>4, <1>5, Zenon
<1>9. c \in Nat /\ c \in 0 .. c /\ \A n \in 1 .. c : G(n) = G(c - c + n)
  <2>1. c \in Nat
    BY <1>6, <1>7
  <2>2. \A n \in 1 .. c : c - c + n = n
    BY <2>1
  <2> QED
    BY <2>1, <2>2
<1> DEFINE read == [n \in 1 .. c |-> [text |-> G(n), cut |-> FALSE]]
           last == [n \in 1 .. c |-> G(n)]
<1>10. /\ Len(read) = c /\ Len(last) = c /\ DOMAIN read = 1 .. c /\ c - c = 0 /\ 0 >= 0
       /\ \A n \in 1 .. c : read[n].text = last[n] /\ read[n].cut = FALSE /\ 0 + n = n
  BY <1>9
<1> HIDE DEF read, last
<1>11. GoodTail(read, last, Len(contents) <= MaxRead)
  BY <1>10 DEF GoodTail
<1> QED
  BY <1>6, <1>8, <1>11 DEF read, last

(* The last lines, counted from the end. *)
LEMMA FromTheEnd ==
    ASSUME contents \in Bytes, NEW lines \in Int, lines > 0
    PROVE  LET A == Len(Split(contents))
               c == Newest(contents, lines)
           IN  /\ A \in Nat /\ c \in 0 .. A /\ Len(LastLines(lines)) = c
               /\ \A m \in 0 .. c - 1 :
                     LastLines(lines)[c - m] = WithoutReturn(Split(contents)[A - m])
<1> DEFINE A == Len(Split(contents))
           c == Newest(contents, lines)
           G(n) == WithoutReturn(Split(contents)[A - c + n])
<1>1. A \in Nat
  BY SplitIs
<1>2. c \in 0 .. A /\ LastLines(lines) = [n \in 1 .. c |-> G(n)]
  BY LastLinesAre
<1> HIDE DEF A, c
<1>3. Len(LastLines(lines)) = c
  BY <1>1, <1>2
<1>4. ASSUME NEW m \in 0 .. c - 1
      PROVE  LastLines(lines)[c - m] = WithoutReturn(Split(contents)[A - m])
  <2>1. c - m \in 1 .. c /\ A - c + (c - m) = A - m
    BY <1>1, <1>2
  <2>2. LastLines(lines)[c - m] = G(c - m)
    BY <1>2, <2>1
  <2> QED
    BY <2>1, <2>2
<1> QED
  BY <1>1, <1>2, <1>3, <1>4 DEF A, c

(* Only a piece of the last line fits. *)
LEMMA ReadOneLine ==
    ASSUME contents \in Bytes, Sound(contents), contents # <<>>,
           NEW lines \in Int, lines > 0, ReadFrom(contents, lines) # 0,
           Newlines(SubSeq(contents, ReadFrom(contents, lines) + 1, Len(contents))) = {}
    PROVE  GoodTail(readTailLines(contents, lines), LastLines(lines), Len(contents) <= MaxRead)
<1> DEFINE from == ReadFrom(contents, lines)
           read == SubSeq(contents, from + 1, Len(contents))
           text == alignUtf8Start(read)
           k == LastEnd(contents)
           U == Unterminated(contents)
<1>1. /\ from \in 0 .. Len(contents) - 1 /\ Len(contents) - from <= MaxRead
      /\ Enough(contents, from, lines)
  BY ReadFromIs
<1>2. Len(contents) \in Nat /\ MaxRead \in Nat /\ from # 0 /\ from \in 0 .. Len(contents)
  BY <1>1, LenProperties, TailAssumption DEF Bytes
<1> HIDE DEF from
<1>3. /\ read \in Bytes /\ Len(read) = Len(contents) - from
      /\ \A i \in 1 .. Len(contents) - from : read[i] = contents[from + i]
  BY <1>2, RestEnds
<1>4. Newlines(read) = {}
  BY DEF from
<1>5. ~ (Len(contents) <= MaxRead)
  <2>1. countNewlines(read) = 0
    BY <1>4, FS_EmptySet DEF countNewlines
  <2>2. Len(contents) - from >= MaxRead
    BY <1>1, <1>2, <2>1 DEF Enough
  <2> QED
    BY <1>1, <1>2, <2>2
<1>6. Sound(read)
  <2>1. from + 1 \in 1 .. Len(contents) + 1 /\ Len(contents) \in Int /\ Len(contents) <= Len(contents)
    BY <1>2
  <2> QED
    BY <2>1, SoundPart
<1>7. readTailLines(contents, lines) = <<[text |-> text, cut |-> TRUE]>>
  <2>1. readTailLines(contents, lines) = <<[text |-> decodeUtf8Bounded(text, MaxRead), cut |-> TRUE]>>
    <3> DEFINE rest == SubSeq(contents, ReadFrom(contents, lines) + 1, Len(contents))
    <3>1. ~ (lines <= 0 \/ contents = <<>>)
      OBVIOUS
    <3>2. readTailLines(contents, lines) =
             <<[text |-> decodeUtf8Bounded(alignUtf8Start(rest), MaxRead), cut |-> TRUE]>>
      BY <3>1, Zenon DEF readTailLines
    <3> QED
      BY <3>2, Zenon DEF from
  <2>2. Sound(text) /\ text \in Bytes /\ Len(text) \in Nat /\ Len(text) <= Len(read)
    BY <1>3, <1>6, AlignedIs
  <2> HIDE DEF read, text
  <2>3. Len(text) <= MaxRead
    BY <1>1, <1>2, <1>3, <2>2
  <2>4. decodeUtf8Bounded(text, MaxRead) = text
    BY <1>2, <2>2, <2>3, DecodesWhole
  <2> QED
    BY <2>1, <2>4
<1>8. k \in 0 .. Len(contents) /\ k <= from
  <2>1. k \in 0 .. Len(contents) /\ k \in {0} \cup Newlines(contents)
    BY LastEndIs
  <2> HIDE DEF k
  <2> SUFFICES ASSUME ~ (k <= from) PROVE FALSE
    BY <2>1
  <2>2. PICK i \in 1 .. Len(contents) - from : k = from + i
    <3>1. k - from \in 1 .. Len(contents) - from /\ k = from + (k - from)
      BY <1>2, <2>1
    <3> QED
      BY <3>1
  <2>3. k # 0
    BY <1>2
  <2>4. contents[k] = Newline
    BY <2>1, <2>3 DEF Newlines
  <2>5. read[i] = Newline /\ i \in 1 .. Len(read) /\ DOMAIN read = 1 .. Len(read)
    BY <1>3, <2>2, <2>4, LenProperties DEF Bytes
  <2> QED
    BY <1>4, <2>5 DEF Newlines
<1>9. U \in Bytes /\ Ends(read, U) /\ Len(U) \in Nat /\ Len(U) >= 1
  <2>1. U = SubSeq(contents, k + 1, Len(contents))
    BY DEF Unterminated, LastEnd
  <2>2. U \in Bytes /\ Len(U) = Len(contents) - k
    BY <1>8, <2>1, RestEnds
  <2>3. PICK l \in 0 .. Len(contents) - k : k + l = from
    <3>1. from - k \in 0 .. Len(contents) - k /\ k + (from - k) = from
      BY <1>2, <1>8
    <3> QED
      BY <3>1
  <2> HIDE DEF k, U
  <2>4. SubSeq(U, l + 1, Len(U)) = SubSeq(contents, (k + l) + 1, Len(contents))
    BY <1>8, <2>1, RestOfRest
  <2>5. SubSeq(U, l + 1, Len(U)) = read
    BY <2>3, <2>4
  <2>6. l \in 0 .. Len(U)
    BY <2>2
  <2>7. Ends(SubSeq(U, l + 1, Len(U)), U)
    BY <2>2, <2>6, RestEnds
  <2> HIDE DEF read
  <2>8. Len(U) \in Nat /\ Len(U) >= 1
    BY <1>1, <1>2, <1>8, <2>2
  <2> QED
    BY <2>2, <2>5, <2>7, <2>8
<1>10. /\ text \in Bytes /\ Ends(text, U) /\ (text # <<>> => Head(text) # Trail)
  <2>1. text \in Bytes /\ Ends(text, read) /\ (text # <<>> => Head(text) # Trail)
    BY <1>3, <1>6, AlignedIs
  <2> HIDE DEF text, read, U
  <2> QED
    BY <1>3, <1>9, <2>1, EndsOfEnds
<1> HIDE DEF text, read, U, k
<1>11. IsSuffix(WithoutReturn(text), WithoutReturn(U))
  <2>1. Ends(WithoutReturn(text), WithoutReturn(U)) /\ WithoutReturn(text) \in Bytes
    BY <1>9, <1>10, ReturnEnds
  <2>2. WithoutReturn(U) \in Bytes
    BY <1>9, WithoutReturnTyped
  <2> QED
    BY <2>1, <2>2, EndIsSuffix
<1> DEFINE A == Len(Split(contents))
           c == Newest(contents, lines)
           last == LastLines(lines)
<1>12. /\ A \in Nat /\ c \in 0 .. A /\ Len(last) = c
       /\ \A m \in 0 .. c - 1 : last[c - m] = WithoutReturn(Split(contents)[A - m])
  BY FromTheEnd
<1>13. U # <<>>
  <2>1. Len(<<>>) = 0
    OBVIOUS
  <2> QED
    BY <1>9, <2>1
<1>14. A >= 1 /\ Split(contents)[A] = U
  <2>1. /\ Cardinality(Newlines(contents)) \in Nat
        /\ A = Cardinality(Newlines(contents)) + 1
        /\ Split(contents)[A] = U
    BY <1>13, SplitTyped DEF U
  <2> QED
    BY <2>1
<1>15. c >= 1
  <2>1. c = IF lines <= A THEN lines ELSE A
    BY DEF Newest
  <2> QED
    BY <1>12, <1>14, <2>1
<1> HIDE DEF A, c, last
<1>16. last[c] = WithoutReturn(U)
  <2>1. 0 \in 0 .. c - 1 /\ c - 0 = c /\ A - 0 = A
    BY <1>12, <1>15
  <2>2. last[c - 0] = WithoutReturn(Split(contents)[A - 0])
    BY <1>12, <2>1
  <2> QED
    BY <1>14, <2>1, <2>2
<1> DEFINE tail == <<[text |-> text, cut |-> TRUE]>>
<1>17. /\ Len(tail) = 1 /\ DOMAIN tail = {1} /\ 1 \in Nat /\ 1 .. 1 = {1}
       /\ tail[1].text = text /\ tail[1].cut = TRUE
       /\ c - 1 >= 0 /\ (c - 1) + 1 = c
  BY <1>12, <1>15
<1> HIDE DEF tail
<1>18. GoodTail(tail, last, Len(contents) <= MaxRead)
  BY <1>5, <1>10, <1>11, <1>12, <1>16, <1>17 DEF GoodTail
<1> QED
  BY <1>7, <1>18 DEF tail, last

(* What is read of the file holds newlines: whole lines, and perhaps a part
   of the one before them. *)
LEMMA ReadLines ==
    ASSUME contents \in Bytes, Sound(contents), contents # <<>>,
           NEW lines \in Int, lines > 0, ReadFrom(contents, lines) # 0,
           Newlines(SubSeq(contents, ReadFrom(contents, lines) + 1, Len(contents))) # {}
    PROVE  GoodTail(readTailLines(contents, lines), LastLines(lines), Len(contents) <= MaxRead)
<1> DEFINE from == ReadFrom(contents, lines)
           read == SubSeq(contents, from + 1, Len(contents))
           first == Min(Newlines(read))
           x == SubSeq(read, first + 1, Len(read))
           start == SubSeq(read, 1, first - 1)
           part == alignUtf8Start(start)
           whole == tailLineBuffersNewestFirst(x, lines)
           K(n) == KeptLine(x, lines, n)
           d == Newest(x, lines)
           B == Len(Split(x))
           A == Len(Split(contents))
           c == Newest(contents, lines)
           last == LastLines(lines)
           short == Len(contents) <= MaxRead
<1>1. /\ from \in 0 .. Len(contents) - 1 /\ Len(contents) - from <= MaxRead
      /\ Enough(contents, from, lines)
  BY ReadFromIs
<1>2. /\ Len(contents) \in Nat /\ MaxRead \in Nat /\ lines \in Nat /\ from # 0
      /\ Newlines(read) # {} /\ ~ (lines <= 0 \/ contents = <<>>)
  BY LenProperties, TailAssumption DEF Bytes
<1>3. readTailLines(contents, lines) =
         IF part # <<>> /\ Len(whole) < lines THEN Decoded(Append(whole, part), {Len(whole) + 1})
         ELSE Decoded(whole, {})
  BY <1>2, Zenon DEF readTailLines
<1> HIDE DEF from
<1>4. /\ first \in Nat /\ first >= 1 /\ x \in Bytes /\ Sound(x)
      /\ Len(x) + first = Len(contents) - from
      /\ countNewlines(read) = 1 + Cardinality(Newlines(x))
      /\ start \in Bytes /\ Sound(start) /\ Len(start) = first - 1
      /\ \E h \in Bytes :
            /\ Split(contents) = Terminated(h) \o Split(x)
            /\ Terminated(h) \in Seq(Bytes) /\ Len(Terminated(h)) \in Nat
            /\ Len(Terminated(h)) >= 1
            /\ Ends(start, Terminated(h)[Len(Terminated(h))])
            /\ Terminated(h)[Len(Terminated(h))] \in Bytes
  BY <1>1, <1>2, ReadCuts
<1>5. PICK h \in Bytes :
         /\ Split(contents) = Terminated(h) \o Split(x)
         /\ Terminated(h) \in Seq(Bytes) /\ Len(Terminated(h)) \in Nat
         /\ Len(Terminated(h)) >= 1
         /\ Ends(start, Terminated(h)[Len(Terminated(h))])
         /\ Terminated(h)[Len(Terminated(h))] \in Bytes
  BY <1>4
<1> DEFINE H == Len(Terminated(h))
           T == Terminated(h)[H]
<1> HIDE DEF first, x, start
<1>6. /\ B \in Nat /\ Split(x) \in Seq(Bytes) /\ Cardinality(Newlines(x)) \in Nat
      /\ B >= Cardinality(Newlines(x)) /\ DOMAIN Split(x) = 1 .. B
  <2>1. /\ Split(x) \in Seq(Bytes) /\ DOMAIN Split(x) = 1 .. B /\ Cardinality(Newlines(x)) \in Nat
        /\ B = Cardinality(Newlines(x)) + (IF Unterminated(x) = <<>> THEN 0 ELSE 1)
    BY <1>4, SplitTyped
  <2> QED
    BY <2>1
<1>7. /\ A = H + B /\ H \in Nat /\ H >= 1
      /\ \A i \in 1 .. H : Split(contents)[i] = Terminated(h)[i]
      /\ \A i \in 1 .. B : Split(contents)[H + i] = Split(x)[i]
  <2>1. Terminated(h) \in Seq(Bytes) /\ Split(x) \in Seq(Bytes)
        /\ Split(contents) = Terminated(h) \o Split(x) /\ H \in Nat /\ H >= 1
    BY <1>5, <1>6
  <2> DEFINE t == Terminated(h)
             s == Split(x)
  <2> HIDE DEF t, s
  <2>2. /\ Len(t \o s) = Len(t) + Len(s)
        /\ \A i \in 1 .. Len(t) : (t \o s)[i] = t[i]
        /\ \A i \in 1 .. Len(s) : (t \o s)[Len(t) + i] = s[i]
    BY <2>1, Concatenated DEF t, s
  <2> QED
    BY <2>1, <2>2 DEF t, s
<1>8. /\ part \in Bytes /\ Sound(part) /\ Ends(part, start)
      /\ Len(part) \in Nat /\ Len(part) <= Len(start)
      /\ part # <<>> => Head(part) # Trail
  BY <1>4, AlignedIs
<1> HIDE DEF part
<1>9. Len(x) + first <= MaxRead /\ Len(part) <= first /\ first > 0 /\ Len(x) \in Nat
  <2>1. Len(x) \in Nat
    BY <1>4, LenProperties DEF Bytes
  <2>2. /\ first \in Nat /\ first >= 1 /\ Len(start) = first - 1
        /\ Len(x) + first = Len(contents) - from
    BY <1>4
  <2>3. Len(contents) - from <= MaxRead
    BY <1>1
  <2>4. Len(x) + first <= MaxRead
    BY <2>2, <2>3
  <2> QED
    BY <1>8, <2>1, <2>2, <2>4
<1>10. Len(whole) = d /\ d \in 0 .. B
  BY <1>2, <1>4, NewestFirstIs
<1>11. Decoded(whole, {}) = [n \in 1 .. d |-> [text |-> K(n), cut |-> FALSE]]
  <2>1. first \in Nat /\ x \in Bytes /\ Sound(x) /\ Len(x) + first <= MaxRead /\ lines \in Nat
    BY <1>2, <1>4, <1>9
  <2> QED
    BY <2>1, TailDecoded, Zenon
<1>12. d = B =>
          Decoded(Append(whole, part), {d + 1}) =
             [n \in 1 .. d + 1 |->
                 IF n = 1 THEN [text |-> part, cut |-> TRUE]
                 ELSE [text |-> K(n - 1), cut |-> FALSE]]
  <2>1. first \in Nat /\ x \in Bytes /\ Sound(x) /\ Len(x) + first <= MaxRead /\ lines \in Nat
        /\ part \in Bytes /\ Sound(part) /\ Len(part) <= first /\ first > 0
    BY <1>2, <1>4, <1>8, <1>9
  <2>2. \A p \in Bytes :
           Sound(p) /\ Len(p) <= first /\ first > 0 /\ d = B =>
              Decoded(Append(whole, p), {d + 1}) =
                 [n \in 1 .. d + 1 |->
                     IF n = 1 THEN [text |-> p, cut |-> TRUE]
                     ELSE [text |-> K(n - 1), cut |-> FALSE]]
    BY <2>1, TailDecoded
  <2> HIDE DEF d, B, whole, K
  <2> QED
    BY <2>1, <2>2
<1>13. \A n : K(n) = WithoutReturn(Split(x)[B - d + n])
  BY DEF KeptLine
<1>14. /\ A \in Nat /\ c \in 0 .. A /\ Len(last) = c
       /\ \A m \in 0 .. c - 1 : last[c - m] = WithoutReturn(Split(contents)[A - m])
  BY FromTheEnd
<1>15. /\ d = IF lines <= B THEN lines ELSE B
       /\ c = IF lines <= A THEN lines ELSE A
  BY DEF Newest
<1>16. short => d = lines
  <2>1. short => Len(contents) - from < MaxRead
    <3>1. from >= 1 /\ from \in Int
      BY <1>1, <1>2
    <3> HIDE DEF read, A, B, c, d
    <3> QED
      BY <1>2, <3>1
  <2>2. short => 1 + Cardinality(Newlines(x)) > lines
    <3>1. \/ from = 0
          \/ Len(contents) - from >= MaxRead
          \/ countNewlines(read) > lines
      BY <1>1 DEF Enough
    <3>2. countNewlines(read) = 1 + Cardinality(Newlines(x))
      BY <1>4
    <3>3. from # 0 /\ from \in Int /\ Len(contents) \in Int /\ MaxRead \in Int
      BY <1>1, <1>2
    <3> HIDE DEF read, A, B, c, d
    <3> QED
      BY <2>1, <3>1, <3>2, <3>3
  <2> DEFINE N == Cardinality(Newlines(x))
  <2>3. N \in Nat /\ N <= B /\ B \in Nat /\ lines \in Nat
    BY <1>2, <1>6
  <2>4. short => 1 + N > lines
    BY <2>2
  <2>5. d = IF lines <= B THEN lines ELSE B
    BY <1>15
  <2> HIDE DEF N, short, d, B, read, whole, K, A, c, last, H, T
  <2> QED
    BY <2>3, <2>4, <2>5
<1> HIDE DEF read, whole, K, d, B, A, c, last, H, T, short
<1>17. /\ d <= c /\ (d = lines => c = lines)
       /\ \A m \in 0 .. d - 1 : c - m \in 1 .. c /\ last[c - m] = WithoutReturn(Split(x)[B - m])
  <2>1. d <= c /\ (d = lines => c = lines)
    BY <1>2, <1>6, <1>7, <1>15
  <2>2. ASSUME NEW m \in 0 .. d - 1
        PROVE  c - m \in 1 .. c /\ last[c - m] = WithoutReturn(Split(x)[B - m])
    <3>1. B - m \in 1 .. B /\ A - m = H + (B - m) /\ m \in 0 .. c - 1 /\ c - m \in 1 .. c
      BY <1>6, <1>7, <1>10, <1>14, <2>1
    <3>2. Split(contents)[H + (B - m)] = Split(x)[B - m]
      BY <1>7, <3>1
    <3>3. last[c - m] = WithoutReturn(Split(contents)[A - m])
      BY <1>14, <3>1
    <3> QED
      BY <3>1, <3>2, <3>3
  <2> QED
    BY <2>1, <2>2
<1>18. CASE ~ (part # <<>> /\ Len(whole) < lines)
  <2> DEFINE tail == [n \in 1 .. d |-> [text |-> K(n), cut |-> FALSE]]
  <2>1. readTailLines(contents, lines) = tail
    BY <1>3, <1>11, <1>18
  <2>2. /\ Len(tail) = d /\ DOMAIN tail = 1 .. d /\ d \in Nat
        /\ \A n \in 1 .. d : tail[n].text = K(n) /\ tail[n].cut = FALSE
    BY <1>6, <1>10
  <2> HIDE DEF tail
  <2>3. c - d >= 0 /\ (short => c - d = 0)
    BY <1>6, <1>10, <1>14, <1>16, <1>17
  <2>4. \A n \in 1 .. d : tail[n].text = last[(c - d) + n]
    <3> TAKE n \in 1 .. d
    <3>1. PICK m \in 0 .. d - 1 : n = d - m
      <4>1. d - n \in 0 .. d - 1 /\ n = d - (d - n)
        BY <1>6, <1>10
      <4> QED
        BY <4>1
    <3>2. (c - d) + n = c - m /\ B - d + n = B - m
      BY <1>6, <1>10, <1>14, <3>1
    <3>3. last[c - m] = WithoutReturn(Split(x)[B - m])
      BY <1>17
    <3>4. K(n) = WithoutReturn(Split(x)[B - m])
      BY <1>13, <3>2
    <3> QED
      BY <2>2, <3>2, <3>3, <3>4
  <2>5. GoodTail(tail, last, short)
    BY <1>14, <2>2, <2>3, <2>4 DEF GoodTail
  <2> QED
    BY <2>1, <2>5 DEF last, short
<1>19. CASE part # <<>> /\ Len(whole) < lines
  <2> DEFINE tail == [n \in 1 .. d + 1 |->
                         IF n = 1 THEN [text |-> part, cut |-> TRUE]
                         ELSE [text |-> K(n - 1), cut |-> FALSE]]
  <2>1. d = B /\ d < lines
    BY <1>6, <1>10, <1>15, <1>19
  <2>2. readTailLines(contents, lines) = tail
    BY <1>3, <1>10, <1>12, <1>19, <2>1
  <2>3. /\ Len(tail) = d + 1 /\ DOMAIN tail = 1 .. d + 1 /\ d + 1 \in Nat
        /\ tail[1].text = part /\ tail[1].cut = TRUE
        /\ \A n \in 1 .. d + 1 : n # 1 => tail[n].text = K(n - 1) /\ tail[n].cut = FALSE
    BY <1>6, <1>10
  <2> HIDE DEF tail
  <2>4. c >= d + 1 /\ ~ short
    <3>1. ~ short
      BY <1>2, <1>16, <2>1
    <3>2. c >= d + 1
      BY <1>2, <1>6, <1>7, <1>15, <2>1
    <3> QED
      BY <3>1, <3>2
  <2>5. /\ c - (d + 1) >= 0
        /\ \A n \in 1 .. d + 1 : n # 1 => tail[n].text = last[(c - (d + 1)) + n]
    <3>1. c - (d + 1) >= 0
      BY <1>6, <1>10, <1>14, <2>4
    <3>2. ASSUME NEW n \in 1 .. d + 1, n # 1 PROVE tail[n].text = last[(c - (d + 1)) + n]
      <4>1. PICK m \in 0 .. d - 1 : n = (d + 1) - m
        <5>1. (d + 1) - n \in 0 .. d - 1 /\ n = (d + 1) - ((d + 1) - n)
          BY <1>6, <1>10, <3>2
        <5> QED
          BY <5>1
      <4>2. (c - (d + 1)) + n = c - m /\ B - d + (n - 1) = B - m
        BY <1>6, <1>10, <1>14, <4>1
      <4>3. last[c - m] = WithoutReturn(Split(x)[B - m])
        BY <1>17
      <4>4. K(n - 1) = WithoutReturn(Split(x)[B - m])
        BY <1>13, <4>2
      <4> QED
        BY <2>3, <3>2, <4>2, <4>3, <4>4
    <3> QED
      BY <3>1, <3>2
  <2>6. IsSuffix(WithoutReturn(part), last[(c - (d + 1)) + 1])
    <3>1. d \in 0 .. c - 1 /\ (c - (d + 1)) + 1 = c - d /\ A - d = H /\ H \in 1 .. H
      BY <1>6, <1>7, <1>10, <1>14, <2>1, <2>4
    <3>2. last[c - d] = WithoutReturn(Split(contents)[A - d])
      BY <1>14, <3>1
    <3>3. Split(contents)[H] = T
      BY <1>7, <3>1 DEF T
    <3>4. T \in Bytes /\ Ends(start, T)
      BY <1>5 DEF T, H
    <3>5. Ends(part, T)
      BY <1>4, <1>8, <3>4, EndsOfEnds
    <3>6. Ends(WithoutReturn(part), WithoutReturn(T)) /\ WithoutReturn(part) \in Bytes
      BY <1>8, <3>4, <3>5, ReturnEnds
    <3>7. WithoutReturn(T) \in Bytes
      BY <3>4, WithoutReturnTyped
    <3>8. IsSuffix(WithoutReturn(part), WithoutReturn(T))
      BY <3>6, <3>7, EndIsSuffix
    <3> QED
      BY <3>1, <3>2, <3>3, <3>8
  <2>7. GoodTail(tail, last, short)
    <3>1. \A n \in DOMAIN tail :
             IF tail[n].cut
             THEN /\ n = 1 /\ IsSuffix(WithoutReturn(tail[n].text), last[(c - (d + 1)) + n])
                  /\ tail[n].text # <<>> => Head(tail[n].text) # Trail
             ELSE tail[n].text = last[(c - (d + 1)) + n]
      <4> TAKE n \in DOMAIN tail
      <4>1. n \in 1 .. d + 1
        BY <2>3
      <4>2. CASE n = 1
        BY <1>8, <2>3, <2>6, <4>2
      <4>3. CASE n # 1
        BY <2>3, <2>5, <4>1, <4>3
      <4> QED
        BY <4>2, <4>3
    <3> QED
      BY <1>14, <2>3, <2>4, <2>5, <3>1 DEF GoodTail
  <2> QED
    BY <2>2, <2>7 DEF last, short
<1> QED
  BY <1>18, <1>19

(* The tail of a file. *)
LEMMA TailIsRead ==
    ASSUME contents \in Bytes, Sound(contents), NEW lines \in Int
    PROVE  /\ GoodTail(readTailLines(contents, lines), LastLines(lines), Len(contents) <= MaxRead)
           /\ ReadsTheTail(lines)
<1>1. GoodTail(readTailLines(contents, lines), LastLines(lines), Len(contents) <= MaxRead)
  <2>1. CASE lines <= 0 \/ contents = <<>>
    BY <2>1, Quiet
  <2>2. CASE ~ (lines <= 0 \/ contents = <<>>)
    <3>1. lines > 0 /\ contents # <<>>
      BY <2>2
    <3> QED
      BY <3>1, ReadFromStart, ReadOneLine, ReadLines
  <2> QED
    BY <2>1, <2>2
<1> QED
  BY <1>1 DEF ReadsTheTail, GoodTail

(* The whole of a file, or its end below a marker. *)
LEMMA FileIsRead ==
    ASSUME contents \in Bytes, Sound(contents)
    PROVE  ReadsTheFile
<1> DEFINE budget == Max({0, MaxFull - NoteSize})
           size == Min({Len(contents), budget})
           s == SubSeq(contents, Len(contents) - size + 1, Len(contents))
           text == alignUtf8Start(s)
<1>1. Len(contents) \in Nat /\ MaxFull \in Nat /\ NoteSize \in Nat
  BY LenProperties, TailAssumption DEF Bytes
<1>2. CASE Len(contents) <= MaxFull
  <2>1. decodeUtf8Bounded(contents, Len(contents) + 3) = contents
    <3>1. Len(contents) + 3 \in Int /\ Len(contents) <= Len(contents) + 3
      BY <1>1
    <3> QED
      BY <3>1, DecodesWhole
  <2>2. readFullFile(contents) = [noted |-> FALSE, text |-> contents]
    BY <1>2, <2>1 DEF readFullFile
  <2> DEFINE r == [noted |-> FALSE, text |-> contents]
  <2>3. r.noted = FALSE /\ r.text = contents
    OBVIOUS
  <2> HIDE DEF r
  <2>4. readFullFile(contents) = r
    BY <2>2 DEF r
  <2> QED
    BY <2>3, <2>4 DEF ReadsTheFile
<1>3. CASE ~ (Len(contents) <= MaxFull)
  <2>1. budget = IF 0 >= MaxFull - NoteSize THEN 0 ELSE MaxFull - NoteSize
    <3>1. 0 \in Int /\ MaxFull - NoteSize \in Int
      BY <1>1
    <3> QED
      BY <3>1, Larger
  <2> HIDE DEF budget
  <2>2. budget \in Nat /\ budget <= Len(contents) /\ budget <= MaxFull
    BY <1>1, <1>3, <2>1
  <2>3. size = budget
    <3>1. size = IF Len(contents) <= budget THEN Len(contents) ELSE budget
      BY <1>1, <2>2, Smaller
    <3> QED
      BY <1>1, <2>2, <3>1
  <2>4. PICK k \in 0 .. Len(contents) : k = Len(contents) - size
    <3>1. Len(contents) - budget \in 0 .. Len(contents)
      BY <1>1, <2>2
    <3> QED
      BY <2>3, <3>1
  <2>5. s = SubSeq(contents, k + 1, Len(contents))
    BY <2>4
  <2> HIDE DEF size, s
  <2>6. s \in Bytes /\ Len(s) = Len(contents) - k /\ Ends(s, contents)
    BY <2>5, RestEnds
  <2>7. Sound(s)
    <3>1. k + 1 \in 1 .. Len(contents) + 1 /\ Len(contents) \in Int /\ Len(contents) <= Len(contents)
      BY <1>1
    <3> QED
      BY <2>5, <3>1, SoundPart
  <2>8. /\ text \in Bytes /\ Sound(text) /\ Ends(text, s)
        /\ Len(text) \in Nat /\ Len(text) <= Len(s)
        /\ text # <<>> => Head(text) # Trail
    BY <2>6, <2>7, AlignedIs
  <2> HIDE DEF text
  <2>9. Len(text) <= budget
    BY <1>1, <2>2, <2>3, <2>4, <2>6, <2>8
  <2>10. IsSuffix(text, contents)
    BY <2>6, <2>8, EndsOfEnds, EndIsSuffix
  <2>11. decodeUtf8Bounded(text, budget) = text
    BY <2>2, <2>8, <2>9, DecodesWhole
  <2> DEFINE r == [noted |-> TRUE, text |-> text]
  <2>12. readFullFile(contents) = r
    <3>1. readFullFile(contents) = [noted |-> TRUE, text |-> decodeUtf8Bounded(text, budget)]
      BY <1>3, Zenon DEF readFullFile, text, s, size, budget
    <3> QED
      BY <2>11, <3>1
  <2>13. r.noted = TRUE /\ r.text = text
    OBVIOUS
  <2>14. Len(text) + NoteSize <= Max({MaxFull, NoteSize})
    <3>1. Max({MaxFull, NoteSize}) = IF MaxFull >= NoteSize THEN MaxFull ELSE NoteSize
      BY <1>1, Larger
    <3> QED
      BY <1>1, <2>1, <2>8, <2>9, <3>1
  <2> HIDE DEF r
  <2> QED
    BY <2>8, <2>10, <2>12, <2>13, <2>14 DEF ReadsTheFile
<1> QED
  BY <1>2, <1>3

-----------------------------------------------------------------------------
(* Entries of the combined log *)

Tag(e) == IF e.type = "stdout" THEN OutTag ELSE ErrTag

Entry(e) == <<Tag(e)>> \o e.text

(* What begins with a tag. *)
LEMMA OneMore ==
    ASSUME NEW S, NEW tag \in S, NEW t \in Seq(S)
    PROVE  LET s == <<tag>> \o t
           IN  /\ s \in Seq(S) /\ Len(s) = Len(t) + 1 /\ Len(t) \in Nat /\ s # <<>>
               /\ s[1] = tag /\ Head(s) = tag /\ Tail(s) = t
               /\ \A i \in 1 .. Len(t) : s[i + 1] = t[i]
<1> DEFINE a == <<tag>>
           s == a \o t
<1>1. a \in Seq(S) /\ Len(a) = 1 /\ a[1] = tag
  OBVIOUS
<1>2. t \in Seq(S) /\ Len(t) \in Nat /\ DOMAIN t = 1 .. Len(t)
  BY LenProperties
<1> HIDE DEF a
<1>3. /\ s \in Seq(S) /\ Len(s) = Len(a) + Len(t)
      /\ \A i \in 1 .. Len(a) : s[i] = a[i]
      /\ \A i \in 1 .. Len(t) : s[Len(a) + i] = t[i]
  <2>1. a \in Seq(S) /\ t \in Seq(S)
    BY <1>1, <1>2
  <2>2. /\ a \o t \in Seq(S) /\ Len(a \o t) = Len(a) + Len(t)
        /\ \A i \in 1 .. Len(a) : (a \o t)[i] = a[i]
        /\ \A i \in 1 .. Len(t) : (a \o t)[Len(a) + i] = t[i]
    BY <2>1, Concatenated
  <2> QED
    BY <2>2
<1> HIDE DEF s
<1>4. Len(s) = Len(t) + 1 /\ s[1] = tag /\ \A i \in 1 .. Len(t) : s[i + 1] = t[i]
  <2>1. 1 \in 1 .. Len(a) /\ \A i \in 1 .. Len(t) : Len(a) + i = i + 1
    BY <1>1, <1>2
  <2> QED
    BY <1>1, <1>2, <1>3, <2>1
<1>5. s # <<>>
  <2>1. Len(<<>>) = 0
    OBVIOUS
  <2> QED
    BY <1>2, <1>4, <2>1
<1>6. Head(s) = tag /\ Tail(s) \in Seq(S) /\ Len(Tail(s)) = Len(s) - 1
      /\ \A i \in 1 .. Len(Tail(s)) : Tail(s)[i] = s[i + 1]
  <2>1. Head(s) = s[1]
    BY <1>3, <1>5
  <2> QED
    BY <1>3, <1>4, <1>5, <2>1, HeadTailProperties
<1>7. Tail(s) = t
  <2>1. Len(Tail(s)) = Len(t)
    BY <1>2, <1>4, <1>6
  <2>2. \A i \in 1 .. Len(t) : Tail(s)[i] = t[i]
    BY <1>4, <1>6, <2>1
  <2> QED
    BY <1>2, <1>6, <2>1, <2>2, SeqEqual
<1> QED
  BY <1>2, <1>3, <1>4, <1>5, <1>6, <1>7 DEF s, a

LEMMA OneMoreByte ==
    ASSUME NEW tag \in STRING, NEW t \in Bytes
    PROVE  LET s == <<tag>> \o t
           IN  /\ s \in Bytes /\ Len(s) = Len(t) + 1 /\ Len(t) \in Nat /\ s # <<>>
               /\ s[1] = tag /\ Head(s) = tag /\ Tail(s) = t
               /\ \A i \in 1 .. Len(t) : s[i + 1] = t[i]
<1>1. t \in Seq(STRING)
  BY DEF Bytes
<1> DEFINE s == <<tag>> \o t
<1>2. s \in Bytes
  BY <1>1, OneMore DEF Bytes
<1>5. Len(s) = Len(t) + 1 /\ Len(t) \in Nat
  BY <1>1, OneMore
<1>6. s # <<>>
  BY <1>1, OneMore
<1>7. s[1] = tag
  BY <1>1, OneMore
<1>8. \A i \in 1 .. Len(t) : s[i + 1] = t[i]
  BY <1>1, OneMore
<1>3. Head(s) = tag
  BY <1>1, OneMore
<1>4. Tail(s) = t
  BY <1>1, OneMore
<1> HIDE DEF s
<1> QED
  BY <1>2, <1>3, <1>4, <1>5, <1>6, <1>7, <1>8 DEF s

(* A return at the end goes, whatever the line begins with. *)
LEMMA TagStays ==
    ASSUME NEW tag \in STRING, tag # Return, NEW t \in Bytes
    PROVE  WithoutReturn(<<tag>> \o t) = <<tag>> \o WithoutReturn(t)
<1> DEFINE s == <<tag>> \o t
           n == Len(t)
<1>1. /\ s \in Bytes /\ Len(s) = n + 1 /\ n \in Nat /\ s # <<>> /\ s[1] = tag
      /\ \A i \in 1 .. n : s[i + 1] = t[i]
  BY OneMoreByte
<1> HIDE DEF s, n
<1>2. Last(s) = s[n + 1] /\ Last(t) = t[n]
  BY <1>1 DEF Last, n
<1>3. CASE t = <<>>
  <2>1. n = 0
    BY <1>3 DEF n
  <2>2. Last(s) = tag
    <3>1. n + 1 = 1
      BY <2>1
    <3> QED
      BY <1>1, <1>2, <3>1
  <2>3. WithoutReturn(s) = s /\ WithoutReturn(t) = t
    BY <1>3, <2>2 DEF WithoutReturn
  <2> QED
    BY <2>3 DEF s
<1>4. CASE t # <<>>
  <2>1. n >= 1
    <3>1. Len(t) \in Nat \ {0}
      BY <1>4, EmptySeq DEF Bytes
    <3> QED
      BY <3>1 DEF n
  <2>2. Last(s) = Last(t)
    <3>1. n \in 1 .. n
      BY <1>1, <2>1
    <3> QED
      BY <1>1, <1>2, <3>1
  <2>3. CASE Last(t) # Return
    BY <1>1, <2>2, <2>3 DEF WithoutReturn, s
  <2>4. CASE Last(t) = Return
    <3> DEFINE f == SubSeq(t, 1, n - 1)
               g == SubSeq(s, 1, n)
               r == <<tag>> \o f
    <3>1. WithoutReturn(t) = f /\ WithoutReturn(s) = g
      <4>1. WithoutReturn(t) = f
        BY <1>4, <2>4 DEF WithoutReturn, Front, n
      <4>2. WithoutReturn(s) = SubSeq(s, 1, Len(s) - 1) /\ Len(s) - 1 = n
        BY <1>1, <2>2, <2>4 DEF WithoutReturn, Front
      <4> QED
        BY <4>1, <4>2
    <3>2. f \in Bytes /\ Len(f) = n - 1 /\ \A i \in 1 .. n - 1 : f[i] = t[i]
      <4>1. n - 1 \in 0 .. Len(t)
        BY <1>1, <2>1 DEF n
      <4> QED
        BY <4>1, StartIs
    <3>3. g \in Bytes /\ Len(g) = n /\ \A i \in 1 .. n : g[i] = s[i]
      <4>1. n \in 0 .. Len(s)
        BY <1>1
      <4> QED
        BY <1>1, <4>1, StartIs
    <3> HIDE DEF f, g
    <3>4. /\ r \in Bytes /\ Len(r) = Len(f) + 1 /\ r[1] = tag
          /\ \A i \in 1 .. Len(f) : r[i + 1] = f[i]
      BY <3>2, OneMoreByte
    <3> HIDE DEF r
    <3>5. \A i \in 1 .. n : r[i] = g[i]
      <4> TAKE i \in 1 .. n
      <4>1. CASE i = 1
        BY <1>1, <3>3, <3>4, <4>1
      <4>2. CASE i # 1
        <5>1. PICK j \in 1 .. n - 1 : i = j + 1
          <6>1. i - 1 \in 1 .. n - 1 /\ i = (i - 1) + 1
            BY <1>1, <4>2
          <6> QED
            BY <6>1
        <5>2. j \in 1 .. n /\ j \in 1 .. Len(f)
          BY <1>1, <3>2
        <5>3. r[i] = f[j] /\ f[j] = t[j] /\ g[i] = s[i] /\ s[j + 1] = t[j]
          BY <1>1, <3>2, <3>3, <3>4, <5>1, <5>2
        <5> QED
          BY <5>1, <5>3
      <4> QED
        BY <4>1, <4>2
    <3>6. r = g
      <4>1. Len(r) = n
        BY <1>1, <3>2, <3>4
      <4> QED
        <5>1. r \in Seq(STRING) /\ g \in Seq(STRING) /\ Len(r) = Len(g) /\ Len(r) = n
          BY <3>3, <3>4, <4>1 DEF Bytes
        <5> QED
          BY <3>5, <5>1, SeqEqual
    <3> QED
      BY <3>1, <3>6 DEF r, s
  <2> QED
    BY <2>3, <2>4
<1> QED
  BY <1>3, <1>4

LEMMA OneOf ==
    ASSUME NEW S, NEW c \in S
    PROVE  <<c>> \in Seq(S)
OBVIOUS

(* What an entry is written with are bytes. *)
LEMMA EntryBytes ==
    ASSUME NEW e \in LoggedLines
    PROVE  Tag(e) \in STRING /\ Newline \in STRING
<1> DEFINE S == STRING \cup {Tag(e), Newline}
           a == <<Tag(e)>>
           t == e.text
           z == <<Newline>>
           x == appendCombinedLine(e)
<1>1. x \in Seq(STRING) /\ t \in Seq(STRING)
  BY TailAssumption
<1>2. x = (a \o t) \o z
  BY DEF appendCombinedLine, Tag
<1>3. Tag(e) \in S /\ Newline \in S /\ STRING \subseteq S
  OBVIOUS
<1>4. Len(a) = 1 /\ a[1] = Tag(e) /\ Len(z) = 1 /\ z[1] = Newline
  OBVIOUS
<1> HIDE DEF S
<1>5. a \in Seq(S) /\ z \in Seq(S) /\ t \in Seq(S)
  BY <1>1, <1>3, OneOf, SeqMonotonic
<1> HIDE DEF a, t, z, x
<1>6. /\ a \o t \in Seq(S) /\ Len(a \o t) = Len(a) + Len(t) /\ Len(t) \in Nat
      /\ \A i \in 1 .. Len(a) : (a \o t)[i] = a[i]
  <2>1. a \in Seq(S) /\ t \in Seq(S)
    BY <1>5
  <2> QED
    BY <2>1, Concatenated
<1> DEFINE b == a \o t
<1>7. b \in Seq(S) /\ Len(b) = 1 + Len(t) /\ b[1] = Tag(e) /\ Len(b) \in Nat /\ Len(b) >= 1
  <2>1. 1 \in 1 .. Len(a)
    BY <1>4
  <2> QED
    BY <1>4, <1>6, <2>1
<1> HIDE DEF b
<1>8. /\ Len(b \o z) = Len(b) + Len(z)
      /\ \A i \in 1 .. Len(b) : (b \o z)[i] = b[i]
      /\ \A i \in 1 .. Len(z) : (b \o z)[Len(b) + i] = z[i]
  <2>1. b \in Seq(S) /\ z \in Seq(S)
    BY <1>5, <1>7
  <2> QED
    BY <2>1, Concatenated
<1>9. x = b \o z
  BY <1>2 DEF b
<1>10. Len(x) = Len(b) + 1 /\ x[1] = Tag(e) /\ x[Len(b) + 1] = Newline
  <2>1. 1 \in 1 .. Len(b) /\ 1 \in 1 .. Len(z)
    BY <1>4, <1>7
  <2> QED
    BY <1>4, <1>7, <1>8, <1>9, <2>1
<1>11. 1 \in 1 .. Len(x) /\ Len(b) + 1 \in 1 .. Len(x)
  BY <1>7, <1>10
<1>12. x[1] \in STRING /\ x[Len(b) + 1] \in STRING
  BY <1>1, <1>11, ElementOfSeq
<1> QED
  BY <1>10, <1>12

(* What TailAssumption says of an entry, and what it becomes. *)
LEMMA EntryTyped ==
    ASSUME NEW e \in LoggedLines
    PROVE  /\ e.type \in {"stdout", "stderr"} /\ e.text \in Bytes
           /\ Sound(e.text) /\ Newlines(e.text) = {}
           /\ Tag(e) \in STRING /\ Tag(e) # Return /\ Tag(e) # Newline
           /\ Tag(e) # Lead /\ Tag(e) # Replacement
           /\ e.type = "stderr" <=> Tag(e) = ErrTag
           /\ e.type = "stdout" <=> Tag(e) = OutTag
           /\ ErrTag # OutTag
           /\ appendCombinedLine(e) = Entry(e) \o <<Newline>>
<1>1. /\ e.type \in {"stdout", "stderr"} /\ e.text \in Seq(STRING)
      /\ Sound(e.text) /\ Newlines(e.text) = {}
  BY TailAssumption
<1>2. /\ OutTag = "1:" /\ ErrTag = "2:" /\ Newline = "nl" /\ Return = "cr"
      /\ Lead = "lead" /\ Replacement = "?"
  BY DEF OutTag, ErrTag, Newline, Return, Lead, Replacement
<1>3. Tag(e) = IF e.type = "stdout" THEN OutTag ELSE ErrTag
  BY DEF Tag
<1>4. Tag(e) \in {"1:", "2:"} /\ Tag(e) \in STRING
  BY <1>2, <1>3, EntryBytes
<1>5. ErrTag # OutTag
  BY <1>2
<1>6. (e.type = "stderr" <=> Tag(e) = ErrTag) /\ (e.type = "stdout" <=> Tag(e) = OutTag)
  <2>1. CASE e.type = "stdout"
    BY <1>3, <1>5, <2>1
  <2>2. CASE e.type = "stderr"
    BY <1>3, <1>5, <2>2
  <2>3. e.type = "stdout" \/ e.type = "stderr"
    BY <1>1
  <2> QED
    BY <2>1, <2>2, <2>3
<1>7. /\ Tag(e) # Return /\ Tag(e) # Newline /\ Tag(e) # Lead /\ Tag(e) # Replacement
  BY <1>2, <1>4
<1>8. appendCombinedLine(e) = Entry(e) \o <<Newline>>
  <2>1. appendCombinedLine(e) = <<Tag(e)>> \o e.text \o <<Newline>>
    BY DEF appendCombinedLine, Tag
  <2> QED
    BY <2>1 DEF Entry
<1> QED
  BY <1>1, <1>4, <1>5, <1>6, <1>7, <1>8 DEF Bytes

(* The combined log holds its entries. *)
Holds ==
    /\ LastEnd(contents) = Len(contents)
    /\ Len(Terminated(contents)) = Len(entered)
    /\ \A i \in 1 .. Len(entered) : Terminated(contents)[i] = Entry(entered[i])

LEMMA EntriesAreRead ==
    ASSUME contents \in Bytes, Sound(contents), entered \in Seq(LoggedLines),
           entered # <<>> => Holds, NEW lines \in Int
    PROVE  ReadsTheEntries(lines)
<1> DEFINE tail == readTailLines(contents, lines)
           read == getCombinedOutput(contents, lines)
           last == LastLines(lines)
           A == Len(Split(contents))
           c == Newest(contents, lines)
           short == Len(contents) <= MaxRead
<1> SUFFICES ASSUME entered # <<>>
             PROVE  LET off == Len(entered) - Len(read)
                    IN  \A n \in DOMAIN read :
                          \/ tail[n].cut
                          \/ read[n] = [type |-> entered[off + n].type,
                                        text |-> WithoutReturn(entered[off + n].text)]
  BY DEF ReadsTheEntries
<1>1. /\ LastEnd(contents) = Len(contents)
      /\ Len(Terminated(contents)) = Len(entered)
      /\ \A i \in 1 .. Len(entered) : Terminated(contents)[i] = Entry(entered[i])
  BY DEF Holds
<1>2. GoodTail(tail, last, short)
  BY TailIsRead
<1>3. /\ Len(last) - Len(tail) >= 0 /\ Len(tail) \in Nat /\ DOMAIN tail = 1 .. Len(tail)
      /\ \A n \in DOMAIN tail : ~ tail[n].cut => tail[n].text = last[(Len(last) - Len(tail)) + n]
  BY <1>2 DEF GoodTail
<1>4. read = [n \in DOMAIN tail |->
                IF Tagged(tail[n], ErrTag) THEN [type |-> "stderr", text |-> Tail(tail[n].text)]
                ELSE IF Tagged(tail[n], OutTag) THEN [type |-> "stdout", text |-> Tail(tail[n].text)]
                ELSE [type |-> "stdout", text |-> tail[n].text]]
  BY DEF getCombinedOutput
<1> HIDE DEF tail, last, read, short
<1>5. DOMAIN read = 1 .. Len(tail) /\ Len(read) = Len(tail)
  BY <1>3, <1>4
<1> SUFFICES ASSUME NEW n \in 1 .. Len(tail), ~ tail[n].cut
             PROVE  read[n] = [type |-> entered[(Len(entered) - Len(read)) + n].type,
                               text |-> WithoutReturn(entered[(Len(entered) - Len(read)) + n].text)]
  BY <1>5
<1>6. lines > 0
  <2> SUFFICES ASSUME lines <= 0 PROVE FALSE
    OBVIOUS
  <2>1. last = <<>>
    BY LastLinesAre DEF last
  <2>2. Len(last) = 0
    BY <2>1
  <2> QED
    BY <1>3, <2>2
<1>7. /\ A \in Nat /\ c \in 0 .. A /\ Len(last) = c
      /\ \A m \in 0 .. c - 1 : last[c - m] = WithoutReturn(Split(contents)[A - m])
  BY <1>6, FromTheEnd DEF last
<1>8. Len(entered) \in Nat /\ \A i \in 1 .. Len(entered) : entered[i] \in LoggedLines
  BY LenProperties, ElementOfSeq
<1>9. A = Len(entered) /\ \A i \in 1 .. A : Split(contents)[i] = Entry(entered[i])
  <2>1. Unterminated(contents) = <<>>
    <3>1. Unterminated(contents) = SubSeq(contents, Len(contents) + 1, Len(contents))
      BY <1>1, UnterminatedIs
    <3>2. Len(contents) \in Nat /\ Len(contents) \in 0 .. Len(contents)
      BY LenProperties DEF Bytes
    <3>3. SubSeq(contents, Len(contents) + 1, Len(contents)) = <<>>
      <4>1. Len(SubSeq(contents, Len(contents) + 1, Len(contents))) = Len(contents) - Len(contents)
        BY <3>2, RestEnds
      <4>2. SubSeq(contents, Len(contents) + 1, Len(contents)) \in Seq(STRING)
        BY <3>2, RestEnds DEF Bytes
      <4>3. Len(contents) - Len(contents) = 0
        BY <3>2
      <4> QED
        BY <4>1, <4>2, <4>3, EmptySeq
    <3> QED
      BY <3>1, <3>3
  <2>2. /\ Cardinality(Newlines(contents)) \in Nat
        /\ A = Cardinality(Newlines(contents)) + 0
        /\ \A i \in 1 .. Cardinality(Newlines(contents)) :
              Split(contents)[i] = Terminated(contents)[i]
    BY <2>1, SplitTyped
  <2>3. Len(Terminated(contents)) = Cardinality(Newlines(contents))
    BY TerminatedTyped
  <2> HIDE DEF A
  <2> QED
    BY <1>1, <2>2, <2>3
<1> HIDE DEF A, c
<1>10. PICK i \in 1 .. Len(entered) :
          /\ i = (Len(entered) - Len(read)) + n
          /\ last[(c - Len(tail)) + n] = WithoutReturn(Entry(entered[i]))
  <2>1. PICK m \in 0 .. c - 1 : m = Len(tail) - n
    <3>1. Len(tail) - n \in 0 .. c - 1
      BY <1>3, <1>7
    <3> QED
      BY <3>1
  <2>2. (c - Len(tail)) + n = c - m
    BY <1>3, <1>7, <2>1
  <2>3. PICK i \in 1 .. Len(entered) : i = A - m
    <3>1. A - m \in 1 .. A
      BY <1>7
    <3> QED
      BY <1>9, <3>1
  <2>4. i = (Len(entered) - Len(read)) + n
    BY <1>3, <1>5, <1>8, <1>9, <2>1, <2>3
  <2>5. last[c - m] = WithoutReturn(Split(contents)[i])
    BY <1>7, <2>3
  <2>6. Split(contents)[i] = Entry(entered[i])
    BY <1>9, <2>3
  <2> QED
    BY <2>2, <2>4, <2>5, <2>6
<1> DEFINE e == entered[i]
           t == WithoutReturn(e.text)
<1>11. e \in LoggedLines
  BY <1>8
<1> HIDE DEF e
<1>12. tail[n].text = <<Tag(e)>> \o t
  <2>1. tail[n].text = last[(c - Len(tail)) + n]
    BY <1>3, <1>7
  <2>2. tail[n].text = WithoutReturn(<<Tag(e)>> \o e.text)
    BY <1>10, <2>1 DEF Entry, e
  <2>3. Tag(e) \in STRING /\ Tag(e) # Return /\ e.text \in Bytes
    BY <1>11, EntryTyped
  <2>4. WithoutReturn(<<Tag(e)>> \o e.text) = <<Tag(e)>> \o WithoutReturn(e.text)
    BY <2>3, TagStays
  <2> QED
    BY <2>2, <2>4
<1>13. tail[n].text # <<>> /\ Head(tail[n].text) = Tag(e) /\ Tail(tail[n].text) = t
  <2>1. Tag(e) \in STRING /\ t \in Bytes
    BY <1>11, EntryTyped, WithoutReturnTyped
  <2>2. /\ <<Tag(e)>> \o t # <<>> /\ Head(<<Tag(e)>> \o t) = Tag(e)
        /\ Tail(<<Tag(e)>> \o t) = t
    BY <2>1, OneMoreByte
  <2> QED
    BY <1>12, <2>2
<1> HIDE DEF t
<1>14. read[n] = [type |-> e.type, text |-> t]
  <2>1. \A tag : Tagged(tail[n], tag) <=> Tag(e) = tag
    BY <1>13 DEF Tagged
  <2>2. e.type \in {"stdout", "stderr"} /\ (e.type = "stderr" <=> Tag(e) = ErrTag)
        /\ (e.type = "stdout" <=> Tag(e) = OutTag)
    BY <1>11, EntryTyped
  <2>3. n \in DOMAIN tail
    BY <1>3
  <2>4. CASE e.type = "stderr"
    BY <1>4, <1>13, <2>1, <2>2, <2>3, <2>4
  <2>5. CASE e.type = "stdout"
    <3>1. ~ Tagged(tail[n], ErrTag) /\ Tagged(tail[n], OutTag)
      BY <2>1, <2>2, <2>5
    <3> QED
      BY <1>4, <1>13, <2>3, <2>5, <3>1
  <2> QED
    BY <2>2, <2>4, <2>5
<1>15. entered[(Len(entered) - Len(read)) + n] = e
  BY <1>10 DEF e
<1> QED
  BY <1>14, <1>15 DEF t

-----------------------------------------------------------------------------
(* What is written stays sound, and the combined log holds its entries. *)

TailInv ==
    /\ contents \in Bytes /\ Sound(contents) /\ entered \in Seq(LoggedLines)
    /\ entered # <<>> \/ contents = <<>> => Holds

LEMMA SoundJoined ==
    ASSUME NEW a \in Bytes, Sound(a), NEW b \in Bytes, Sound(b)
    PROVE  a \o b \in Bytes /\ Sound(a \o b)
<1> DEFINE s == a \o b
<1>1. /\ s \in Bytes /\ Len(s) = Len(a) + Len(b) /\ Len(a) \in Nat /\ Len(b) \in Nat
      /\ DOMAIN s = 1 .. Len(a) + Len(b) /\ DOMAIN a = 1 .. Len(a) /\ DOMAIN b = 1 .. Len(b)
      /\ \A i \in 1 .. Len(a) : s[i] = a[i]
      /\ \A i \in 1 .. Len(b) : s[Len(a) + i] = b[i]
  <2>1. a \in Seq(STRING) /\ b \in Seq(STRING)
    BY DEF Bytes
  <2>2. /\ a \o b \in Seq(STRING) /\ Len(a \o b) = Len(a) + Len(b)
        /\ DOMAIN (a \o b) = 1 .. Len(a) + Len(b)
        /\ \A i \in 1 .. Len(a) : (a \o b)[i] = a[i]
        /\ \A i \in 1 .. Len(b) : (a \o b)[Len(a) + i] = b[i]
    BY <2>1, Concatenated
  <2>3. Len(a) \in Nat /\ Len(b) \in Nat /\ DOMAIN a = 1 .. Len(a) /\ DOMAIN b = 1 .. Len(b)
    BY <2>1, LenProperties
  <2> QED
    BY <2>2, <2>3 DEF Bytes
<1> HIDE DEF s
<1>2. ASSUME NEW i \in DOMAIN s
      PROVE  /\ s[i] # Replacement
             /\ s[i] = Lead => i < Len(s) /\ s[i + 1] = Trail
  <2>1. CASE i \in 1 .. Len(a)
    <3>1. s[i] = a[i] /\ i \in DOMAIN a
      BY <1>1, <2>1
    <3>2. a[i] # Replacement /\ (a[i] = Lead => i < Len(a) /\ a[i + 1] = Trail)
      BY <3>1 DEF Sound
    <3>3. i < Len(a) => i + 1 \in 1 .. Len(a) /\ i < Len(s)
      BY <1>1, <2>1
    <3> QED
      BY <1>1, <3>1, <3>2, <3>3
  <2>2. CASE i \notin 1 .. Len(a)
    <3>1. PICK j \in 1 .. Len(b) : i = Len(a) + j
      <4>1. i - Len(a) \in 1 .. Len(b) /\ i = Len(a) + (i - Len(a))
        BY <1>1, <2>2
      <4> QED
        BY <4>1
    <3>2. s[i] = b[j] /\ j \in DOMAIN b
      BY <1>1, <3>1
    <3>3. b[j] # Replacement /\ (b[j] = Lead => j < Len(b) /\ b[j + 1] = Trail)
      BY <3>2 DEF Sound
    <3>4. j < Len(b) => j + 1 \in 1 .. Len(b) /\ i < Len(s) /\ i + 1 = Len(a) + (j + 1)
      BY <1>1, <3>1
    <3> QED
      BY <1>1, <3>2, <3>3, <3>4
  <2> QED
    BY <2>1, <2>2
<1> QED
  BY <1>1, <1>2 DEF Sound, s

LEMMA OneIsSound ==
    ASSUME NEW c \in STRING, c # Replacement, c # Lead
    PROVE  <<c>> \in Bytes /\ Sound(<<c>>)
<1>1. <<c>> \in Seq(STRING)
  BY OneOf
<1>2. DOMAIN <<c>> = {1} /\ <<c>>[1] = c
  OBVIOUS
<1>3. \A i \in DOMAIN <<c>> : <<c>>[i] = c
  BY <1>2
<1> QED
  BY <1>1, <1>3 DEF Sound, Bytes

LEMMA NothingEntered ==
    LastEnd(<<>>) = Len(<<>>) /\ Len(Terminated(<<>>)) = 0 /\ Len(<<>>) = 0 /\ 1 .. 0 = {}
<1>1. <<>> \in Bytes /\ Len(<<>>) = 0
  BY EmptySeq DEF Bytes
<1>2. LastEnd(<<>>) = 0
  <2>1. LastEnd(<<>>) \in 0 .. Len(<<>>)
    BY <1>1, LastEndIs
  <2> QED
    BY <1>1, <2>1
<1>3. Len(Terminated(<<>>)) = 0
  <2>1. Newlines(<<>>) = {}
    <3>1. DOMAIN <<>> = {}
      OBVIOUS
    <3> QED
      BY <3>1 DEF Newlines
  <2>2. Len(Terminated(<<>>)) = Cardinality(Newlines(<<>>))
    BY <1>1, TerminatedTyped
  <2> QED
    BY <2>1, <2>2, FS_EmptySet
<1> QED
  BY <1>1, <1>2, <1>3

(* A written entry is one line. *)
LEMMA LineOfEntry ==
    ASSUME NEW e \in LoggedLines
    PROVE  LET x == appendCombinedLine(e)
           IN  /\ x \in Bytes /\ Sound(x) /\ Entry(e) \in Bytes
               /\ LastEnd(x) = Len(x) /\ Len(x) \in Newlines(x)
               /\ Terminated(x) \in Seq(Bytes) /\ Len(Terminated(x)) = 1
               /\ Terminated(x)[1] = Entry(e)
<1> DEFINE x == appendCombinedLine(e)
           b == Entry(e)
           n == Len(b)
<1>1. /\ e.text \in Bytes /\ Sound(e.text) /\ Newlines(e.text) = {}
      /\ Tag(e) \in STRING /\ Tag(e) # Newline /\ Tag(e) # Lead /\ Tag(e) # Replacement
      /\ x = b \o <<Newline>>
  BY EntryTyped
<1> HIDE DEF x
<1>2. b \in Bytes /\ Sound(b)
  <2>1. <<Tag(e)>> \in Bytes /\ Sound(<<Tag(e)>>)
    BY <1>1, OneIsSound
  <2> QED
    BY <1>1, <2>1, SoundJoined DEF Entry
<1>3. <<Newline>> \in Bytes /\ Sound(<<Newline>>)
  <2>1. Newline \in STRING /\ Newline # Replacement /\ Newline # Lead
    BY EntryBytes DEF Newline, Replacement, Lead
  <2> QED
    BY <2>1, OneIsSound
<1>4. x \in Bytes /\ Sound(x)
  BY <1>1, <1>2, <1>3, SoundJoined
<1>5. \A i \in 1 .. n : b[i] # Newline
  <2>1. /\ n = Len(e.text) + 1 /\ Len(e.text) \in Nat /\ b[1] = Tag(e)
        /\ \A i \in 1 .. Len(e.text) : b[i + 1] = e.text[i]
    BY <1>1, OneMoreByte DEF Entry
  <2> TAKE i \in 1 .. n
  <2> HIDE DEF b
  <2>2. CASE i = 1
    BY <1>1, <2>1, <2>2
  <2>3. CASE i # 1
    <3>1. PICK j \in 1 .. Len(e.text) : i = j + 1
      <4>1. i - 1 \in 1 .. Len(e.text) /\ i = (i - 1) + 1
        BY <2>1, <2>3
      <4> QED
        BY <4>1
    <3>2. j \in DOMAIN e.text
      BY <1>1, <3>1, LenProperties DEF Bytes
    <3>3. e.text[j] # Newline
      BY <1>1, <3>2 DEF Newlines
    <3> QED
      BY <2>1, <3>1, <3>3
  <2> QED
    BY <2>2, <2>3
<1>6. /\ Len(x) = n + 1 /\ n \in Nat /\ DOMAIN x = 1 .. n + 1
      /\ x[n + 1] = Newline /\ \A i \in 1 .. n : x[i] = b[i]
  <2> HIDE DEF b
  <2> DEFINE z == <<Newline>>
  <2>1. b \in Seq(STRING) /\ z \in Seq(STRING)
    BY <1>2, <1>3 DEF Bytes
  <2>2. Len(z) = 1 /\ z[1] = Newline
    OBVIOUS
  <2>0. x = b \o z
    BY <1>1
  <2> HIDE DEF z
  <2>3. /\ Len(b \o z) = Len(b) + Len(z) /\ Len(b) \in Nat
        /\ DOMAIN (b \o z) = 1 .. Len(b) + Len(z)
        /\ \A i \in 1 .. Len(b) : (b \o z)[i] = b[i]
        /\ \A i \in 1 .. Len(z) : (b \o z)[Len(b) + i] = z[i]
    BY <2>1, Concatenated
  <2>4. 1 \in 1 .. Len(z)
    BY <2>2
  <2>5. x[Len(b) + 1] = Newline
    BY <2>0, <2>2, <2>3, <2>4
  <2> QED
    BY <2>0, <2>2, <2>3, <2>5
<1> HIDE DEF b, n
<1>7. Newlines(x) = {n + 1}
  <2>1. \A i \in 1 .. n + 1 : x[i] = Newline <=> i = n + 1
    <3> TAKE i \in 1 .. n + 1
    <3>1. CASE i = n + 1
      BY <1>6, <3>1
    <3>2. CASE i # n + 1
      <4>1. i \in 1 .. n
        BY <1>6, <3>2
      <4> QED
        BY <1>5, <1>6, <3>2, <4>1
    <3> QED
      BY <3>1, <3>2
  <2>2. n + 1 \in 1 .. n + 1
    BY <1>6
  <2> QED
    BY <1>6, <2>1, <2>2 DEF Newlines
<1>8. Cardinality(Newlines(x)) = 1
  BY <1>7, FS_Singleton
<1>9. Len(x) \in Newlines(x) /\ LastEnd(x) = Len(x)
  <2>1. Len(x) \in Newlines(x)
    BY <1>6, <1>7
  <2> QED
    BY <1>4, <2>1, EndsAtNewline
<1>10. Terminated(x) \in Seq(Bytes) /\ Len(Terminated(x)) = 1
  BY <1>4, <1>8, TerminatedTyped
<1>11. Terminated(x)[1] = b
  <2>1. 1 \in 1 .. Cardinality(Newlines(x)) /\ 1 - 1 = 0
    BY <1>8
  <2>2. /\ LineEnd(x, 1) \in Newlines(x)
        /\ Terminated(x)[1] = SubSeq(x, LineEnd(x, 1 - 1) + 1, LineEnd(x, 1) - 1)
    BY <1>4, <2>1, TerminatedIs
  <2>3. LineEnd(x, 1) = n + 1 /\ LineEnd(x, 1 - 1) = 0
    BY <1>7, <2>1, <2>2 DEF LineEnd
  <2>4. Terminated(x)[1] = SubSeq(x, 1, n)
    <3>1. 0 + 1 = 1 /\ (n + 1) - 1 = n
      BY <1>6
    <3> QED
      BY <2>2, <2>3, <3>1
  <2>5. /\ SubSeq(x, 1, n) \in Bytes /\ Len(SubSeq(x, 1, n)) = n
        /\ \A i \in 1 .. n : SubSeq(x, 1, n)[i] = x[i]
    <3>1. n \in 0 .. Len(x)
      BY <1>6
    <3> QED
      BY <1>4, <3>1, StartIs
  <2>6. SubSeq(x, 1, n) = b
    <3> DEFINE y == SubSeq(x, 1, n)
    <3>1. y \in Seq(STRING) /\ b \in Seq(STRING) /\ Len(y) = Len(b)
      BY <1>2, <2>5 DEF Bytes, n, b
    <3>2. \A i \in 1 .. Len(y) : y[i] = b[i]
      BY <1>6, <2>5
    <3> HIDE DEF y
    <3>3. y = b
      BY <3>1, <3>2, SeqEqual
    <3> QED
      BY <3>3 DEF y
  <2> QED
    BY <2>4, <2>6
<1> QED
  BY <1>2, <1>4, <1>9, <1>10, <1>11 DEF x, b

LEMMA TailStarts == TailInit => TailInv
<1> SUFFICES ASSUME TailInit PROVE TailInv
  OBVIOUS
<1>1. contents = <<>> /\ entered = <<>>
  BY DEF TailInit
<1>2. <<>> \in Bytes /\ <<>> \in Seq(LoggedLines)
  BY EmptySeq DEF Bytes
<1>3. Sound(<<>>)
  <2>1. DOMAIN <<>> = {}
    OBVIOUS
  <2> QED
    BY <2>1 DEF Sound
<1> QED
  BY <1>1, <1>2, <1>3, NothingEntered DEF TailInv, Holds

LEMMA StreamStep ==
    ASSUME TailInv, appendStream
    PROVE  TailInv'
<1>1. contents \in Bytes /\ Sound(contents) /\ (entered # <<>> \/ contents = <<>> => Holds)
  BY DEF TailInv
<1>2. PICK c \in Characters : contents' = contents \o c
  BY DEF appendStream
<1>3. entered = <<>> /\ entered' = <<>> /\ entered' \in Seq(LoggedLines)
  BY EmptySeq DEF appendStream
<1>4. c \in Bytes /\ Sound(c)
  BY TailAssumption DEF Bytes
<1>5. contents' \in Bytes /\ Sound(contents')
  BY <1>1, <1>2, <1>4, SoundJoined
<1>6. Sound(contents)'
  BY <1>5 DEF Sound
<1>7. ASSUME contents' = <<>> PROVE Holds'
  <2>1. contents' = <<>> /\ entered' = <<>>
    BY <1>3, <1>7
  <2> QED
    BY <2>1, NothingEntered DEF Holds
<1> QED
  BY <1>3, <1>5, <1>6, <1>7 DEF TailInv

LEMMA LineStep ==
    ASSUME TailInv, appendLine
    PROVE  TailInv'
<1>1. /\ contents \in Bytes /\ Sound(contents) /\ entered \in Seq(LoggedLines)
      /\ entered # <<>> \/ contents = <<>> => Holds
  BY DEF TailInv
<1>2. PICK e \in LoggedLines :
         contents' = contents \o appendCombinedLine(e) /\ entered' = Append(entered, e)
  BY DEF appendLine
<1> DEFINE x == appendCombinedLine(e)
           b == Entry(e)
<1>3. /\ LastEnd(contents) = Len(contents)
      /\ Len(Terminated(contents)) = Len(entered)
      /\ \A i \in 1 .. Len(entered) : Terminated(contents)[i] = Entry(entered[i])
  BY <1>1 DEF appendLine, Holds
<1>4. /\ x \in Bytes /\ Sound(x) /\ b \in Bytes
      /\ LastEnd(x) = Len(x) /\ Len(x) \in Newlines(x)
      /\ Terminated(x) \in Seq(Bytes) /\ Len(Terminated(x)) = 1
      /\ Terminated(x)[1] = b
  BY LineOfEntry
<1>0. contents' = contents \o x
  BY <1>2
<1> HIDE DEF x, b
<1>5. contents \o x \in Bytes /\ Sound(contents \o x)
  BY <1>1, <1>4, SoundJoined
<1> DEFINE f == contents \o x
           g == Append(entered, e)
<1>6. /\ g \in Seq(LoggedLines) /\ Len(g) = Len(entered) + 1 /\ Len(entered) \in Nat
      /\ \A i \in 1 .. Len(entered) : g[i] = entered[i]
      /\ g[Len(entered) + 1] = e
  BY <1>1, LenProperties, AppendProperties
<1>7. Terminated(f) = Terminated(contents) \o Terminated(x)
  BY <1>1, <1>3, <1>4, GoesOnAtEnd
<1>8. LastEnd(f) = Len(f)
  <2>1. /\ Len(contents) \in Nat /\ Len(x) \in Nat /\ Len(f) = Len(contents) + Len(x)
        /\ DOMAIN f = 1 .. Len(contents) + Len(x)
        /\ \A i \in 1 .. Len(x) : f[Len(contents) + i] = x[i]
    <3>1. contents \in Seq(STRING) /\ x \in Seq(STRING)
      BY <1>1, <1>4 DEF Bytes
    <3> QED
      BY <3>1, Concatenated
  <2>2. Len(x) \in 1 .. Len(x) /\ x[Len(x)] = Newline
    <3>1. DOMAIN x = 1 .. Len(x)
      BY <1>4, LenProperties DEF Bytes
    <3> QED
      BY <1>4, <3>1 DEF Newlines
  <2> HIDE DEF f
  <2>3. Len(f) \in DOMAIN f /\ f[Len(f)] = Newline
    BY <2>1, <2>2
  <2>4. Len(f) \in Newlines(f) /\ f \in Bytes
    BY <1>5, <2>3 DEF Newlines, f
  <2> QED
    BY <2>4, EndsAtNewline
<1>9. /\ Len(Terminated(f)) = Len(g)
      /\ \A i \in 1 .. Len(g) : Terminated(f)[i] = Entry(g[i])
  <2> DEFINE p == Terminated(contents)
             q == Terminated(x)
  <2>1. p \in Seq(Bytes) /\ q \in Seq(Bytes)
    BY <1>1, <1>4, TerminatedTyped
  <2>2. Terminated(f) = p \o q
    BY <1>7
  <2>3. Len(p) = Len(entered) /\ Len(q) = 1 /\ q[1] = b
        /\ \A i \in 1 .. Len(entered) : p[i] = Entry(entered[i])
    BY <1>3, <1>4
  <2> HIDE DEF p, q, f, g
  <2>4. /\ Len(p \o q) = Len(p) + Len(q)
        /\ \A i \in 1 .. Len(p) : (p \o q)[i] = p[i]
        /\ \A i \in 1 .. Len(q) : (p \o q)[Len(p) + i] = q[i]
    BY <2>1, Concatenated
  <2>5. (p \o q)[Len(entered) + 1] = b
    <3>1. 1 \in 1 .. Len(q)
      BY <2>3
    <3> QED
      BY <2>3, <2>4, <3>1
  <2>6. ASSUME NEW i \in 1 .. Len(g) PROVE (p \o q)[i] = Entry(g[i])
    <3>1. CASE i = Len(entered) + 1
      BY <1>6, <2>5, <3>1 DEF b
    <3>2. CASE i # Len(entered) + 1
      <4>1. i \in 1 .. Len(entered)
        BY <1>6, <3>2
      <4> QED
        BY <1>6, <2>3, <2>4, <4>1
    <3> QED
      BY <3>1, <3>2
  <2> QED
    BY <1>6, <2>2, <2>3, <2>4, <2>6
<1>10. contents' = f /\ entered' = g
  BY <1>0, <1>2
<1> HIDE DEF f, g
<1>11. Holds'
  BY <1>8, <1>9, <1>10 DEF Holds
<1>12. Sound(contents)' /\ contents' \in Bytes
  BY <1>5, <1>10 DEF Sound, f
<1> QED
  BY <1>6, <1>10, <1>11, <1>12 DEF TailInv

LEMMA TailStays == TailInv /\ [TailNext]_tailVars => TailInv'
<1> SUFFICES ASSUME TailInv, [TailNext]_tailVars PROVE TailInv'
  OBVIOUS
<1>1. CASE appendStream
  BY <1>1, StreamStep
<1>2. CASE appendLine
  BY <1>2, LineStep
<1>3. CASE UNCHANGED tailVars
  <2>1. contents' = contents /\ entered' = entered
    BY <1>3 DEF tailVars
  <2> QED
    BY <2>1 DEF TailInv, Holds
<1> QED
  BY <1>1, <1>2, <1>3 DEF TailNext

LEMMA TailReadsBack == TailInv => ReadsBack
<1> SUFFICES ASSUME TailInv PROVE ReadsBack
  OBVIOUS
<1>1. /\ contents \in Bytes /\ Sound(contents) /\ entered \in Seq(LoggedLines)
      /\ entered # <<>> => Holds
  BY DEF TailInv
<1>2. ReadsTheFile
  BY <1>1, FileIsRead
<1>3. ASSUME NEW lines \in Asked PROVE ReadsTheTail(lines) /\ ReadsTheEntries(lines)
  <2>1. lines \in Int
    BY TailAssumption
  <2> QED
    BY <1>1, <2>1, TailIsRead, EntriesAreRead
<1> QED
  BY <1>2, <1>3 DEF ReadsBack

(* What is written to a stream's file or to the combined log is read back: the
   whole file or its end, the last lines asked for, and of the combined log the
   stream of each, for any limits, chunk sizes and contents. *)
THEOREM LogReadsBack == TailSpec => []ReadsBack
<1>1. TailSpec => []TailInv
  BY TailStarts, TailStays, PTL DEF TailSpec
<1>2. TailInv => ReadsBack
  BY TailReadsBack
<1> QED
  BY <1>1, <1>2, PTL
================================================================================
