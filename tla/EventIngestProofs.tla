------------------------- MODULE EventIngestProofs -------------------------
(***************************************************************************)
(* What holds of EventIngest for any payloads, packets, values, limits and *)
(* faults; some of it where one worker scans.                              *)
(***************************************************************************)
EXTENDS EventIngest, WellFoundedInduction, TLAPS

-----------------------------------------------------------------------------
(* The assumptions on the constants, one by one.                             *)
LEMMA PayloadTypes ==
  /\ Redacted \in [Raw -> Payloads] /\ NoPayload \notin Payloads /\ Values \subseteq Int
BY IngestAssumption

LEMMA Limits == MaxFaults \in Nat /\ MaxScans \in Nat /\ TriggerScore \in Int
BY IngestAssumption

-----------------------------------------------------------------------------
(* Induction up to a bound, for a set of numbers: what is missing from it    *)
(* would have a least element.                                               *)
LEMMA LeastOf == ASSUME NEW T \in SUBSET Nat, T # {} PROVE \E n \in T : \A m \in T : n <= m
<1> DEFINE R == OpToRel(<, Nat)
<1>1. IsWellFoundedOn(R, Nat)
  BY NatLessThanWellFounded
<1> HIDE DEF R
<1>2. PICK n \in T : \A m \in T : <<m, n>> \notin R
  BY <1>1, WFMin
<1>3. ASSUME NEW m \in T PROVE n <= m
  <2>1. m \in Nat /\ n \in Nat /\ <<m, n>> \notin R
    BY <1>2
  <2>2. ~(m < n)
    BY <2>1 DEF R, OpToRel
  <2> QED
    BY <2>1, <2>2
<1> QED
  BY <1>3

LEMMA UpTo ==
  ASSUME NEW N \in Nat, NEW S, 0 \in S, \A n \in 1 .. N : n - 1 \in S => n \in S
  PROVE  0 .. N \subseteq S
<1>1. ASSUME (0 .. N) \ S # {} PROVE FALSE
  <2>1. (0 .. N) \ S \in SUBSET Nat
    OBVIOUS
  <2>2. PICK n \in (0 .. N) \ S : \A m \in (0 .. N) \ S : n <= m
    BY <1>1, <2>1, LeastOf
  <2>3. n \in 1 .. N /\ n - 1 \in 0 .. N /\ ~(n <= n - 1)
    BY <2>2
  <2>4. n - 1 \in S
    BY <2>2, <2>3
  <2>5. QED
    BY <2>2, <2>3, <2>4
<1>2. QED
  BY <1>1

(* What goes through a loop is defined: a function that starts with some     *)
(* value and takes each next value from the one before exists.               *)
IsIteration(g, N, V, start, next) ==
  g \in [0 .. N -> V] /\ g[0] = start /\ \A n \in 1 .. N : g[n] = next[n][g[n - 1]]

LEMMA Iterates ==
  ASSUME NEW N \in Nat, NEW V, NEW start \in V, NEW next \in [1 .. N -> [V -> V]]
  PROVE  \E g : IsIteration(g, N, V, start, next)
<1> DEFINE Iterated(g, k) == /\ g \in [0 .. k -> V] /\ g[0] = start
                             /\ \A n \in 1 .. k : g[n] = next[n][g[n - 1]]
           S == {k \in 0 .. N : \E g : Iterated(g, k)}
<1>1. 0 \in S
  <2>1. Iterated([n \in 0 .. 0 |-> start], 0)
    OBVIOUS
  <2> HIDE DEF Iterated
  <2>2. QED
    BY <2>1
<1>2. ASSUME NEW k \in 1 .. N, k - 1 \in S PROVE k \in S
  <2> HIDE DEF Iterated
  <2>1. PICK g : Iterated(g, k - 1)
    BY <1>2
  <2> USE DEF Iterated
  <2> DEFINE more == [n \in 0 .. k |-> IF n = k THEN next[k][g[k - 1]] ELSE g[n]]
  <2>2. g[k - 1] \in V /\ next[k] \in [V -> V]
    BY <2>1
  <2>3. next[k][g[k - 1]] \in V
    BY <2>2
  <2>4. more \in [0 .. k -> V] /\ more[0] = start
    BY <2>1, <2>3
  <2>5. ASSUME NEW n \in 1 .. k PROVE more[n] = next[n][more[n - 1]]
    BY <2>1
  <2>6. Iterated(more, k)
    BY <2>4, <2>5
  <2> HIDE DEF Iterated, more
  <2>7. QED
    BY <2>6
<1>3. 0 .. N \subseteq S
  <2> HIDE DEF S
  <2>1. QED
    BY <1>1, <1>2, UpTo
<1>4. \E g : Iterated(g, N)
  <2> HIDE DEF Iterated
  <2>1. QED
    BY <1>3
<1>5. QED
  BY <1>4 DEF IsIteration

-----------------------------------------------------------------------------
(* The sum of sizes is one of partial sums, each of which adds the next size.*)
LEMMA TotalUnfolds ==
  ASSUME NEW sizes \in Seq(Int)
  PROVE  \E sum \in [0 .. Len(sizes) -> Int] :
           /\ Total(sizes) = sum[Len(sizes)] /\ sum[0] = 0
           /\ \A n \in 1 .. Len(sizes) : sum[n] = sum[n - 1] + sizes[n]
<1> DEFINE N == Len(sizes)
           Sums(sum) == sum = [n \in 0 .. N |-> IF n = 0 THEN 0 ELSE sum[n - 1] + sizes[n]]
           next == [n \in 1 .. N |-> [sum \in Int |-> sum + sizes[n]]]
           all == CHOOSE sum : Sums(sum)
<1>1. N \in Nat /\ 0 \in Int /\ next \in [1 .. N -> [Int -> Int]]
  OBVIOUS
<1>2. PICK g : g \in [0 .. N -> Int] /\ g[0] = 0 /\ \A n \in 1 .. N : g[n] = next[n][g[n - 1]]
  <2> HIDE DEF N, next
  <2>1. PICK g : IsIteration(g, N, Int, 0, next)
    BY <1>1, Iterates
  <2>2. QED
    BY <2>1, Zenon DEF IsIteration
<1>3. Sums(g)
  <2>1. ASSUME NEW n \in 0 .. N PROVE g[n] = IF n = 0 THEN 0 ELSE g[n - 1] + sizes[n]
    <3>1. CASE n = 0
      BY <1>2, <3>1
    <3>2. CASE n # 0
      <4>1. n \in 1 .. N /\ n - 1 \in 0 .. N
        BY <1>1, <3>2
      <4> HIDE DEF N
      <4>2. g[n - 1] \in Int
        BY <1>2, <4>1
      <4> USE DEF N
      <4>3. next[n][g[n - 1]] = g[n - 1] + sizes[n]
        BY <4>1, <4>2
      <4> HIDE DEF next, N
      <4>4. QED
        BY <1>2, <3>2, <4>1, <4>3
    <3>3. QED
      BY <3>1, <3>2
  <2>2. QED
    BY <1>2, <2>1
<1>4. Sums(all)
  <2> HIDE DEF Sums
  <2>1. QED
    BY <1>3
<1>5. Total(sizes) = all[N]
  BY DEF Total
<1> HIDE DEF all
<1>6. all[0] = 0 /\ \A n \in 1 .. N : all[n] = all[n - 1] + sizes[n]
  BY <1>1, <1>4
<1>7. \A n \in 0 .. N : all[n] \in Int
  <2> DEFINE S == {n \in 0 .. N : all[n] \in Int}
  <2>1. 0 \in S /\ \A n \in 1 .. N : n - 1 \in S => n \in S
    <3>1. \A n \in 1 .. N : sizes[n] \in Int /\ n \in 0 .. N
      BY <1>1
    <3> HIDE DEF N
    <3>2. 0 \in S
      BY <1>1, <1>6
    <3>3. ASSUME NEW n \in 1 .. N, all[n - 1] \in Int PROVE n \in S
      BY <1>6, <3>1, <3>3
    <3>4. QED
      BY <3>2, <3>3
  <2>2. 0 .. N \subseteq S
    <3> HIDE DEF S, N
    <3>1. QED
      BY <1>1, <2>1, UpTo
  <2>3. QED
    BY <2>2
<1>8. all \in [0 .. N -> Int]
  BY <1>4, <1>7
<1>9. QED
  BY <1>5, <1>6, <1>8

LEMMA TotalType == ASSUME NEW sizes \in Seq(Int) PROVE Total(sizes) \in Int
BY TotalUnfolds

(* Guidance only adds to a packet.                                           *)
LEMMA TotalPositive ==
  ASSUME NEW sizes \in Seq(Nat) PROVE Total(sizes) \in Nat /\ Total(<<>>) = 0
<1>1. sizes \in Seq(Int) /\ <<>> \in Seq(Int) /\ Len(sizes) \in Nat
  OBVIOUS
<1>2. PICK sum \in [0 .. Len(sizes) -> Int] :
        /\ Total(sizes) = sum[Len(sizes)] /\ sum[0] = 0
        /\ \A n \in 1 .. Len(sizes) : sum[n] = sum[n - 1] + sizes[n]
  BY <1>1, TotalUnfolds
<1> DEFINE S == {n \in 0 .. Len(sizes) : sum[n] \in Nat}
<1>3. 0 \in S /\ \A n \in 1 .. Len(sizes) : n - 1 \in S => n \in S
  BY <1>1, <1>2
<1>4. 0 .. Len(sizes) \subseteq S
  <2> HIDE DEF S
  <2>1. QED
    BY <1>1, <1>3, UpTo
<1>5. Total(<<>>) = 0
  BY <1>1, TotalUnfolds
<1>6. QED
  BY <1>1, <1>2, <1>4, <1>5

(* Popping stops at the greatest number of parts that is within the limit,   *)
(* or at nothing.                                                            *)
Uncut == [cards : Nat, references : Nat, cuts : {0}]

LEMMA PoppedStops ==
  ASSUME NEW k, NEW max, NEW left \in Uncut, NEW part \in {"cards", "references"}
  PROVE  \E n \in 0 .. left[part] :
           /\ Popped(k, left, part, max) = [left EXCEPT ![part] = n]
           /\ n # 0 => Within(k, [left EXCEPT ![part] = n], max)
           /\ \A m \in 1 .. left[part] : n < m => ~Within(k, [left EXCEPT ![part] = m], max)
<1> DEFINE N == left[part]
           fits == {n \in 0 .. N : Within(k, [left EXCEPT ![part] = n], max)}
           Pops(pop) == pop = [n \in 0 .. N |->
             IF n = 0 \/ Within(k, [left EXCEPT ![part] = n], max) THEN n ELSE pop[n - 1]]
           next == [n \in 1 .. N |-> [v \in Nat |-> IF n \in fits THEN n ELSE v]]
           pop == CHOOSE p : Pops(p)
<1>1. N \in Nat
  BY DEF Uncut
<1>2. \E p : Pops(p)
  <2>1. 0 \in Nat /\ next \in [1 .. N -> [Nat -> Nat]]
    <3> HIDE DEF fits, N
    <3>1. QED
      BY <1>1
  <2>2. PICK g : g \in [0 .. N -> Nat] /\ g[0] = 0 /\ \A n \in 1 .. N : g[n] = next[n][g[n - 1]]
    <3> HIDE DEF N, next
    <3>1. PICK g : IsIteration(g, N, Nat, 0, next)
      BY <1>1, <2>1, Iterates
    <3>2. QED
      BY <3>1, Zenon DEF IsIteration
  <2>3. ASSUME NEW n \in 0 .. N
        PROVE  g[n] = IF n = 0 \/ Within(k, [left EXCEPT ![part] = n], max) THEN n ELSE g[n - 1]
    <3>1. n \in fits <=> Within(k, [left EXCEPT ![part] = n], max)
      OBVIOUS
    <3> HIDE DEF fits, N
    <3>2. CASE n = 0
      BY <2>2, <3>2
    <3>3. CASE n # 0
      <4>1. n \in 1 .. N /\ g[n - 1] \in Nat
        BY <1>1, <2>2, <3>3
      <4>2. QED
        BY <2>2, <3>1, <3>3, <4>1
    <3>4. QED
      BY <3>2, <3>3
  <2>4. Pops(g)
    <3> HIDE DEF N
    <3>1. QED
      BY <2>2, <2>3
  <2> HIDE DEF Pops
  <2>5. QED
    BY <2>4
<1>3. Pops(pop)
  <2> HIDE DEF Pops
  <2>1. QED
    BY <1>2
<1>4. Popped(k, left, part, max) = [left EXCEPT ![part] = pop[N]]
  BY DEF Popped
<1> HIDE DEF pop
<1>5. \A n \in 0 .. N : pop[n] = IF n = 0 \/ n \in fits THEN n ELSE pop[n - 1]
  BY <1>3
<1>6. \A n \in fits : Within(k, [left EXCEPT ![part] = n], max)
  OBVIOUS
<1>7. \A n \in 0 .. N : n \notin fits => ~Within(k, [left EXCEPT ![part] = n], max)
  OBVIOUS
<1> HIDE DEF fits, N, Pops
<1> DEFINE S == {n \in 0 .. N : /\ pop[n] \in 0 .. n /\ (pop[n] # 0 => pop[n] \in fits)
                                /\ \A m \in 1 .. n : pop[n] < m => m \notin fits}
<1>8. 0 \in S
  BY <1>1, <1>5
<1>9. ASSUME NEW n \in 1 .. N, n - 1 \in S PROVE n \in S
  <2>1. n \in 0 .. N /\ n - 1 \in 0 .. N /\ n \in Nat
    BY <1>1
  <2>2. CASE n \in fits
    BY <1>5, <2>1, <2>2
  <2>3. CASE n \notin fits
    <3>1. pop[n] = pop[n - 1]
      BY <1>5, <2>1, <2>3
    <3>2. \A m \in 1 .. n : m = n \/ m \in 1 .. (n - 1)
      BY <2>1
    <3>3. QED
      BY <1>9, <2>1, <2>3, <3>1, <3>2
  <2>4. QED
    BY <2>2, <2>3
<1>10. N \in S
  <2>1. 0 .. N \subseteq S
    <3> HIDE DEF S
    <3>1. QED
      BY <1>1, <1>8, <1>9, UpTo
  <2>2. QED
    BY <1>1, <2>1
<1>11. QED
  <2>1. pop[N] \in 0 .. N /\ (pop[N] # 0 => pop[N] \in fits)
        /\ \A m \in 1 .. N : pop[N] < m => m \notin fits
    BY <1>10
  <2>2. \A m \in 1 .. N : pop[N] < m => ~Within(k, [left EXCEPT ![part] = m], max)
    BY <1>1, <1>7, <2>1
  <2>3. pop[N] # 0 => Within(k, [left EXCEPT ![part] = pop[N]], max)
    BY <1>6, <2>1
  <2>4. QED
    BY <1>4, <2>1, <2>2, <2>3 DEF N

LEMMA PartPopped ==
  ASSUME NEW k, NEW max, NEW left \in Uncut, NEW part \in {"cards", "references"}
  PROVE  /\ Popped(k, left, part, max) \in Uncut
         /\ \A other \in {"cards", "references"} \ {part} :
              Popped(k, left, part, max)[other] = left[other]
         /\ ~Within(k, Popped(k, left, part, max), max)
              => Popped(k, left, part, max)[part] = 0 /\ ~Within(k, left, max)
<1>1. PICK n \in 0 .. left[part] :
        /\ Popped(k, left, part, max) = [left EXCEPT ![part] = n]
        /\ n # 0 => Within(k, [left EXCEPT ![part] = n], max)
        /\ \A m \in 1 .. left[part] : n < m => ~Within(k, [left EXCEPT ![part] = m], max)
  BY PoppedStops
<1>2. left[part] \in Nat /\ left = [left EXCEPT ![part] = left[part]] /\ n \in Nat
  BY DEF Uncut
<1>3. [left EXCEPT ![part] = n] \in Uncut /\ [left EXCEPT ![part] = n][part] = n
  BY <1>2 DEF Uncut
<1>4. \A other \in {"cards", "references"} \ {part} : [left EXCEPT ![part] = n][other] = left[other]
  BY DEF Uncut
<1>5. ASSUME ~Within(k, [left EXCEPT ![part] = n], max) PROVE n = 0 /\ ~Within(k, left, max)
  <2>1. n = 0
    BY <1>1, <1>5
  <2>2. CASE left[part] = 0
    BY <1>2, <1>5, <2>1, <2>2
  <2>3. CASE left[part] # 0
    <3>1. left[part] \in 1 .. left[part] /\ n < left[part]
      BY <1>2, <2>1, <2>3
    <3>2. ~Within(k, [left EXCEPT ![part] = left[part]], max)
      BY <1>1, <3>1
    <3>3. QED
      BY <1>2, <2>1, <3>2
  <2>4. QED
    BY <2>2, <2>3
<1>6. QED
  BY <1>1, <1>3, <1>4, <1>5

(* Replacing stops at the first packet that is within the limit, or at the   *)
(* last.                                                                     *)
LEMMA ReplacedStops ==
  ASSUME NEW k, Len(k.cuts) \in Nat, NEW max, NEW left
  PROVE  \E n \in 0 .. Len(k.cuts) :
           /\ Replaced(k, left, max) = [left EXCEPT !.cuts = n]
           /\ n < Len(k.cuts) => Within(k, [left EXCEPT !.cuts = n], max)
           /\ \A m \in 0 .. Len(k.cuts) : m < n => ~Within(k, [left EXCEPT !.cuts = m], max)
<1> DEFINE N == Len(k.cuts)
           fits == {n \in Nat : Within(k, [left EXCEPT !.cuts = n], max)}
           Makes(made) == made = [n \in 0 .. N |->
             IF n = 0 THEN 0
             ELSE IF Within(k, [left EXCEPT !.cuts = made[n - 1]], max) THEN made[n - 1]
             ELSE made[n - 1] + 1]
           next == [n \in 1 .. N |-> [v \in Nat |-> IF v \in fits THEN v ELSE v + 1]]
           made == CHOOSE m : Makes(m)
<1>1. N \in Nat
  OBVIOUS
<1>2. \E m : Makes(m)
  <2>1. 0 \in Nat /\ next \in [1 .. N -> [Nat -> Nat]]
    <3> HIDE DEF fits, N
    <3>1. QED
      BY <1>1
  <2>2. PICK g : g \in [0 .. N -> Nat] /\ g[0] = 0 /\ \A n \in 1 .. N : g[n] = next[n][g[n - 1]]
    <3> HIDE DEF N, next
    <3>1. PICK g : IsIteration(g, N, Nat, 0, next)
      BY <1>1, <2>1, Iterates
    <3>2. QED
      BY <3>1, Zenon DEF IsIteration
  <2>3. ASSUME NEW n \in 0 .. N
        PROVE  g[n] = IF n = 0 THEN 0
                      ELSE IF Within(k, [left EXCEPT !.cuts = g[n - 1]], max) THEN g[n - 1]
                      ELSE g[n - 1] + 1
    <3>1. CASE n = 0
      BY <2>2, <3>1
    <3>2. CASE n # 0
      <4>1. n \in 1 .. N /\ g[n - 1] \in Nat
        <5> HIDE DEF N, next
        <5>1. QED
          BY <1>1, <2>2, <3>2
      <4>2. g[n - 1] \in fits <=> Within(k, [left EXCEPT !.cuts = g[n - 1]], max)
        BY <4>1
      <4> HIDE DEF fits, N
      <4>3. QED
        BY <2>2, <3>2, <4>1, <4>2
    <3>3. QED
      BY <3>1, <3>2
  <2>4. Makes(g)
    <3> HIDE DEF N
    <3>1. QED
      BY <2>2, <2>3
  <2> HIDE DEF Makes
  <2>5. QED
    BY <2>4
<1>3. Makes(made)
  <2> HIDE DEF Makes
  <2>1. QED
    BY <1>2
<1>4. Replaced(k, left, max) = [left EXCEPT !.cuts = made[N]]
  BY DEF Replaced
<1> HIDE DEF made
<1>5. /\ made[0] = 0
      /\ \A n \in 1 .. N : made[n] = IF Within(k, [left EXCEPT !.cuts = made[n - 1]], max)
                                     THEN made[n - 1] ELSE made[n - 1] + 1
  <2>1. \A n \in 0 .. N :
          made[n] = IF n = 0 THEN 0
                    ELSE IF Within(k, [left EXCEPT !.cuts = made[n - 1]], max) THEN made[n - 1]
                    ELSE made[n - 1] + 1
    BY <1>3
  <2>2. 0 \in 0 .. N /\ \A n \in 1 .. N : n \in 0 .. N /\ n # 0
    BY <1>1
  <2> HIDE DEF N
  <2>3. QED
    BY <2>1, <2>2
<1>6. \A n \in Nat : n \in fits <=> Within(k, [left EXCEPT !.cuts = n], max)
  OBVIOUS
<1> HIDE DEF fits, N, Makes
<1> DEFINE S == {n \in 0 .. N : /\ made[n] \in 0 .. n /\ (made[n] < n => made[n] \in fits)
                                /\ \A m \in 0 .. n : m < made[n] => m \notin fits}
<1>7. 0 \in S
  BY <1>1, <1>5
<1>8. ASSUME NEW n \in 1 .. N, n - 1 \in S PROVE n \in S
  <2>1. n \in 0 .. N /\ n - 1 \in 0 .. N /\ n \in Nat /\ made[n - 1] \in 0 .. (n - 1)
    BY <1>1, <1>8
  <2>2. CASE made[n - 1] \in fits
    <3>1. made[n] = made[n - 1]
      <4>1. Within(k, [left EXCEPT !.cuts = made[n - 1]], max)
        BY <1>6, <2>1, <2>2
      <4>2. QED
        BY <1>5, <4>1
    <3>2. QED
      BY <1>8, <2>1, <2>2, <3>1
  <2>3. CASE made[n - 1] \notin fits
    <3>1. made[n] = made[n - 1] + 1 /\ made[n - 1] = n - 1
      <4>1. ~Within(k, [left EXCEPT !.cuts = made[n - 1]], max)
        BY <1>6, <2>1, <2>3
      <4>2. made[n] = made[n - 1] + 1
        BY <1>5, <4>1
      <4>3. ~(made[n - 1] < n - 1)
        BY <1>8, <2>3
      <4>4. QED
        BY <2>1, <4>2, <4>3
    <3>2. \A m \in 0 .. n : m < made[n] => m \notin fits
      BY <1>8, <2>1, <2>3, <3>1
    <3>3. QED
      BY <2>1, <3>1, <3>2
  <2>4. QED
    BY <2>2, <2>3
<1>9. N \in S
  <2>1. 0 .. N \subseteq S
    <3> HIDE DEF S
    <3>1. QED
      BY <1>1, <1>7, <1>8, UpTo
  <2>2. QED
    BY <1>1, <2>1
<1>10. QED
  <2>1. made[N] \in 0 .. N /\ (made[N] < N => made[N] \in fits)
        /\ \A m \in 0 .. N : m < made[N] => m \notin fits
    BY <1>9
  <2>2. made[N] < N => Within(k, [left EXCEPT !.cuts = made[N]], max)
    BY <1>1, <1>6, <2>1
  <2>3. \A m \in 0 .. N : m < made[N] => ~Within(k, [left EXCEPT !.cuts = m], max)
    BY <1>1, <1>6, <2>1
  <2>4. QED
    BY <1>4, <2>1, <2>2, <2>3 DEF N

(* Nothing is replaced in a packet that is already within the limit.         *)
LEMMA NothingReplaced ==
  ASSUME NEW k, NEW max, NEW left, left = [left EXCEPT !.cuts = 0],
         Len(k.cuts) \in Nat, Within(k, left, max)
  PROVE  Replaced(k, left, max) = left
<1>1. PICK n \in 0 .. Len(k.cuts) :
        /\ Replaced(k, left, max) = [left EXCEPT !.cuts = n]
        /\ \A m \in 0 .. Len(k.cuts) : m < n => ~Within(k, [left EXCEPT !.cuts = m], max)
  BY ReplacedStops
<1>2. Within(k, [left EXCEPT !.cuts = 0], max)
  OBVIOUS
<1>3. ~(0 < n)
  BY <1>1, <1>2
<1>4. n = 0
  BY <1>3
<1>5. QED
  BY <1>1, <1>4

(* The observation is cut only when all guidance is gone.                    *)
LEMMA GuidanceGoesFirst ==
  ASSUME NEW k \in Packet, NEW max
  PROVE  Fitted(k, max).cuts # 0
           => Fitted(k, max).cards = 0 /\ Fitted(k, max).references = 0
<1> DEFINE one == Popped(k, Whole(k), "cards", max)
           two == Popped(k, one, "references", max)
<1>1. Whole(k) \in Uncut /\ Len(k.cuts) \in Nat
  BY DEF Packet, Whole, Uncut
<1>2. one \in Uncut /\ (~Within(k, one, max) => one.cards = 0)
  BY <1>1, PartPopped
<1>3. two \in Uncut /\ two.cards = one.cards
      /\ (~Within(k, two, max) => two.references = 0 /\ ~Within(k, one, max))
  BY <1>2, PartPopped
<1>4. Fitted(k, max) = Replaced(k, two, max)
  BY Zenon DEF Fitted
<1> HIDE DEF one, two
<1>5. two = [two EXCEPT !.cuts = 0] /\ two.cuts = 0
  BY <1>3 DEF Uncut
<1>6. Replaced(k, two, max).cards = two.cards /\ Replaced(k, two, max).references = two.references
  BY <1>3 DEF Replaced, Uncut
<1>7. Within(k, two, max) => Replaced(k, two, max) = two
  BY <1>1, <1>5, NothingReplaced
<1> QED
  BY <1>2, <1>3, <1>4, <1>5, <1>6, <1>7

(* Property: _fit_packet gives up no card, and then no reference, while the  *)
(* packet already fits: with one more card, or with the cards it keeps and   *)
(* one more reference, it would be too large, for any sizes and limits.      *)
THEOREM NoGuidanceIsWasted ==
  ASSUME NEW k \in Packet, NEW max
  PROVE  LET left == Fitted(k, max)
         IN  /\ \A n \in 1 .. Len(k.cards) :
                  left.cards < n => ~Within(k, [Whole(k) EXCEPT !.cards = n], max)
             /\ \A n \in 1 .. Len(k.references) :
                  left.references < n =>
                    ~Within(k, [Whole(k) EXCEPT !.cards = left.cards, !.references = n], max)
<1> DEFINE one == Popped(k, Whole(k), "cards", max)
           two == Popped(k, one, "references", max)
<1>1. /\ Whole(k) \in Uncut /\ Len(k.cuts) \in Nat
      /\ Whole(k).cards = Len(k.cards) /\ Whole(k).references = Len(k.references)
  BY DEF Packet, Whole, Uncut
<1>2. PICK c \in 0 .. Len(k.cards) :
        /\ one = [Whole(k) EXCEPT !.cards = c]
        /\ \A n \in 1 .. Len(k.cards) : c < n => ~Within(k, [Whole(k) EXCEPT !.cards = n], max)
  BY <1>1, PoppedStops
<1>3. one \in Uncut /\ one.cards = c /\ one.references = Len(k.references)
  BY <1>1, <1>2 DEF Uncut
<1> HIDE DEF one
<1>4. PICK r \in 0 .. Len(k.references) :
        /\ two = [one EXCEPT !.references = r]
        /\ \A n \in 1 .. Len(k.references) :
             r < n => ~Within(k, [one EXCEPT !.references = n], max)
  BY <1>3, PoppedStops
<1>5. two.cards = c /\ two.references = r
  BY <1>3, <1>4 DEF Uncut
<1>6. Fitted(k, max) = Replaced(k, two, max)
  BY Zenon DEF Fitted, one
<1> HIDE DEF two
<1>7. Fitted(k, max).cards = c /\ Fitted(k, max).references = r
  BY <1>3, <1>4, <1>5, <1>6 DEF Replaced, Uncut
<1>8. \A n : [one EXCEPT !.references = n] = [Whole(k) EXCEPT !.cards = c, !.references = n]
  BY <1>1, <1>2 DEF Uncut
<1>9. QED
  BY <1>2, <1>4, <1>7, <1>8

(* Guidance only adds to what a packet takes.                                *)
LEMMA GuidanceAdds ==
  ASSUME NEW k \in Packet, NEW left \in Cuttings(k)
  PROVE  /\ Bytes(k, left) \in Int /\ Bytes(k, [left EXCEPT !.cards = 0, !.references = 0]) \in Int
         /\ Bytes(k, [left EXCEPT !.cards = 0, !.references = 0]) <= Bytes(k, left)
<1> DEFINE bare == [left EXCEPT !.cards = 0, !.references = 0]
           tail(c) == Total(SubSeq(k.cuts, c + 1, Len(k.cuts)))
<1>1. /\ k.cards \in Seq(Nat) /\ k.references \in Seq(Nat) /\ k.cuts \in Seq(Int) /\ k.rest \in Nat
      /\ left.cards \in 0 .. Len(k.cards) /\ left.references \in 0 .. Len(k.references)
      /\ left.cuts \in 0 .. Len(k.cuts)
      /\ bare.cards = 0 /\ bare.references = 0 /\ bare.cuts = left.cuts
  BY DEF Packet, Cuttings
<1>2. /\ Total(SubSeq(k.cards, 1, left.cards)) \in Nat
      /\ Total(SubSeq(k.references, 1, left.references)) \in Nat
  <2>1. SubSeq(k.cards, 1, left.cards) \in Seq(Nat)
    BY <1>1
  <2>2. SubSeq(k.references, 1, left.references) \in Seq(Nat)
    BY <1>1
  <2>3. QED
    BY <2>1, <2>2, TotalPositive
<1>3. /\ Total(SubSeq(k.cards, 1, bare.cards)) = 0
      /\ Total(SubSeq(k.references, 1, bare.references)) = 0
  <2>1. SubSeq(k.cards, 1, bare.cards) = <<>> /\ SubSeq(k.references, 1, bare.references) = <<>>
    BY <1>1
  <2>2. <<>> \in Seq(Nat)
    OBVIOUS
  <2>3. QED
    BY <2>1, <2>2, TotalPositive
<1>4. tail(left.cuts) \in Int
  <2>1. SubSeq(k.cuts, left.cuts + 1, Len(k.cuts)) \in Seq(Int)
    BY <1>1
  <2>2. QED
    BY <2>1, TotalType
<1>5. Bytes(k, left) = k.rest + Total(SubSeq(k.cards, 1, left.cards))
                       + Total(SubSeq(k.references, 1, left.references)) + tail(left.cuts)
  BY DEF Bytes
<1>6. Bytes(k, bare) = k.rest + Total(SubSeq(k.cards, 1, bare.cards))
                       + Total(SubSeq(k.references, 1, bare.references)) + tail(bare.cuts)
  BY DEF Bytes
<1> HIDE DEF bare, tail
<1>7. Bytes(k, bare) = k.rest + tail(left.cuts)
  BY <1>1, <1>3, <1>4, <1>6
<1>8. Bytes(k, left) \in Int /\ Bytes(k, bare) \in Int /\ Bytes(k, bare) <= Bytes(k, left)
  BY <1>1, <1>2, <1>4, <1>5, <1>7
<1> QED
  BY <1>8 DEF bare

(* Property: _fit_packet raises ValueError only for a packet that no cut     *)
(* would have brought within the limit.  It tries only one order of cuts,    *)
(* stops at the first packet that fits, and a replacement may even make the  *)
(* packet larger; still it gives up on nothing that another choice of cards, *)
(* references and replacements would have saved.                             *)
THEOREM PacketsAreRefusedLast ==
  ASSUME NEW k \in Packet, NEW max \in Int, ~Packs(k, max), NEW left \in Cuttings(k)
  PROVE  ~Within(k, left, max)
<1> DEFINE one == Popped(k, Whole(k), "cards", max)
           two == Popped(k, one, "references", max)
           bare == [left EXCEPT !.cards = 0, !.references = 0]
<1>1. Whole(k) \in Uncut /\ Len(k.cuts) \in Nat
  BY DEF Packet, Whole, Uncut
<1>2. one \in Uncut /\ (~Within(k, one, max) => one.cards = 0)
  BY <1>1, PartPopped
<1>3. two \in Uncut /\ two.cards = one.cards
      /\ (~Within(k, two, max) => two.references = 0 /\ ~Within(k, one, max))
  BY <1>2, PartPopped
<1>4. Fitted(k, max) = Replaced(k, two, max)
  BY Zenon DEF Fitted
<1> HIDE DEF one, two
<1>5. two = [two EXCEPT !.cuts = 0]
  BY <1>3 DEF Uncut
<1>6. ~Within(k, Replaced(k, two, max), max)
  BY <1>4, Zenon DEF Packs
<1>7. ~Within(k, two, max)
  BY <1>1, <1>5, <1>6, NothingReplaced
<1>8. two.cards = 0 /\ two.references = 0
  BY <1>2, <1>3, <1>7
<1>9. PICK n \in 0 .. Len(k.cuts) :
        /\ Replaced(k, two, max) = [two EXCEPT !.cuts = n]
        /\ n < Len(k.cuts) => Within(k, [two EXCEPT !.cuts = n], max)
        /\ \A m \in 0 .. Len(k.cuts) : m < n => ~Within(k, [two EXCEPT !.cuts = m], max)
  BY <1>1, ReplacedStops
<1>10. n = Len(k.cuts)
  <2>1. ~(n < Len(k.cuts))
    BY <1>6, <1>9
  <2>2. QED
    BY <1>1, <2>1
<1>11. \A m \in 0 .. Len(k.cuts) : ~Within(k, [two EXCEPT !.cuts = m], max)
  <2> SUFFICES ASSUME NEW m \in 0 .. Len(k.cuts) PROVE ~Within(k, [two EXCEPT !.cuts = m], max)
    OBVIOUS
  <2>1. CASE m < n
    BY <1>9, <2>1
  <2>2. CASE ~(m < n)
    <3>1. m = n
      BY <1>1, <1>10, <2>2
    <3>2. QED
      BY <1>6, <1>9, <3>1
  <2>3. QED
    BY <2>1, <2>2
<1>12. left.cuts \in 0 .. Len(k.cuts) /\ bare = [two EXCEPT !.cuts = left.cuts]
  BY <1>3, <1>8 DEF Cuttings, Uncut
<1>13. ~Within(k, bare, max)
  BY <1>11, <1>12
<1> HIDE DEF bare
<1>14. Bytes(k, left) \in Int /\ Bytes(k, bare) \in Int /\ Bytes(k, bare) <= Bytes(k, left)
  BY GuidanceAdds DEF bare
<1> QED
  BY <1>13, <1>14 DEF Within

-----------------------------------------------------------------------------
(* A scanner with a row has an observation, and the LLM worker works on a    *)
(* queued job.  One transaction has the row locked and what it stores is     *)
(* what ingest_event makes of its observation and the row it loaded, within  *)
(* the ceiling.  Before there is a row there are no jobs.                    *)
Observed == \A s \in Scanners : spc[s] # "idle" => sobs[s] \in Payloads \X Values
Asked == lpc # "idle" => ljob \in Payloads /\ planner[ljob] = "queued"
Stores(s) ==
  LET l == sseen[s]
      p == sobs[s][1]
      v == sobs[s][2]
  IN  /\ snew[s] = Ingested(l, p, v) /\ ~Refused(l, p, v)
      /\ squeue[s] = IF ShouldQueue(l, p, v) THEN {p} ELSE {}
Open == \A s \in Scanners : spc[s] = "open" =>
          Stores(s) /\ \A t \in Scanners : spc[t] = "open" => t = s
NoJobs == \A p \in Payloads : planner[p] = "absent" /\ findings[p] = 0
Rowless == event.payload \notin Payloads =>
             event = NoRow /\ NoJobs /\ \A s \in Scanners : sseen[s] = NoRow
TInv == TypeOK /\ Observed /\ Asked /\ Open /\ Rowless

LEMMA ScoreType ==
  ASSUME NEW l \in Rows, NEW p \in Hashes, NEW v \in Int PROVE Score(l, p, v) \in 0 .. 100
<1> DEFINE n == v + (IF IsNew(l) THEN 5 ELSE 0) + (IF Changed(l, p) THEN 10 ELSE 0)
<1>1. n \in Int
  OBVIOUS
<1> HIDE DEF n
<1>2. Clamp(n) \in 0 .. 100
  BY <1>1 DEF Clamp
<1> QED
  BY <1>2 DEF Score, n

LEMMA ScannedType ==
  ASSUME NEW l \in Rows PROVE Scanned(l) \in 0 .. MaxScans
<1>1. l.scans \in 0 .. MaxScans
  BY DEF Rows
<1> QED
  BY <1>1, Limits DEF Scanned

LEMMA IngestedType ==
  ASSUME NEW l \in Rows, NEW p \in Payloads, NEW v \in Int PROVE Ingested(l, p, v) \in Rows
<1>1. p \in Hashes /\ l.queued \in Hashes
  BY DEF Rows, Hashes
<1>2. Status(l, p, v) \in Statuses
  <2>1. l.status \in Statuses
    BY DEF Rows
  <2> QED
    BY <2>1 DEF Status, Unasked, Statuses
<1>3. Score(l, p, v) \in 0 .. 100 /\ Scanned(l) \in 0 .. MaxScans
  BY <1>1, ScoreType, ScannedType
<1> QED
  BY <1>1, <1>2, <1>3 DEF Ingested, Rows

LEMMA WrittenType ==
  ASSUME NEW l \in Rows, NEW n \in Rows, event \in Rows PROVE Written(l, n) \in Rows
BY DEF Written, Column, Rows

LEMMA NoRowType == NoRow \in Rows
BY Limits DEF NoRow, Rows, Hashes, Statuses

LEMMA ObservationType ==
  ASSUME TInv, NEW s \in Scanners, spc[s] # "idle"
  PROVE  sobs[s][1] \in Payloads /\ sobs[s][2] \in Int /\ sobs[s][2] \in Values
BY PayloadTypes DEF TInv, Observed

LEMMA TInvInit == Init => TInv
<1> SUFFICES ASSUME Init PROVE TInv
  OBVIOUS
<1>1. event \in Rows /\ lseen \in Rows /\ sseen \in [Scanners -> Rows] /\ snew \in [Scanners -> Rows]
  BY NoRowType DEF Init
<1>2. /\ findings \in [Payloads -> Nat] /\ planner \in [Payloads -> {"absent", "queued", "completed", "dead"}]
      /\ listed \in [Payloads -> 0 .. MaxScans] /\ gitleaks \subseteq Payloads
  BY Limits DEF Init
<1>3. /\ spc \in [Scanners -> {"idle", "selected", "open"}]
      /\ sobs \in [Scanners -> (Payloads \X Values) \union {NoObservation}]
      /\ squeue \in [Scanners -> SUBSET Payloads]
  BY DEF Init
<1>4. lpc \in {"idle", "asking", "loaded"} /\ ljob \in Hashes
  BY DEF Init, Hashes
<1>5. returned \in BOOLEAN
  BY Zenon DEF Init
<1>6. past \subseteq Payloads /\ faults \in 0 .. MaxFaults
  BY Limits DEF Init
<1>7. Observed /\ Asked /\ Open
  BY DEF Init, Observed, Asked, Open
<1>8. Rowless
  BY DEF Init, Rowless, NoJobs
<1> QED
  BY <1>1, <1>2, <1>3, <1>4, <1>5, <1>6, <1>7, <1>8 DEF TInv, TypeOK

LEMMA SelectType ==
  ASSUME TInv, NEW s \in Scanners, NEW raw \in Raw, NEW v \in Values, Select(s, raw, v)
  PROVE  TInv'
<1>1. Redacted[raw] \in Payloads
  BY PayloadTypes
<1>2. sobs' \in [Scanners -> (Payloads \X Values) \union {NoObservation}] /\ Observed'
  BY <1>1 DEF TInv, TypeOK, Observed, Select
<1>3. /\ spc' \in [Scanners -> {"idle", "selected", "open"}]
      /\ sseen' \in [Scanners -> Rows]
  BY DEF TInv, TypeOK, Select
<1>4. Asked'
  BY DEF TInv, Asked, Select, llm
<1>5. Open'
  <2> SUFFICES ASSUME NEW t \in Scanners, spc'[t] = "open"
               PROVE  Stores(t)' /\ \A u \in Scanners : spc'[u] = "open" => u = t
    BY DEF Open
  <2>1. t # s /\ spc[t] = "open" /\ \A u \in Scanners : spc'[u] = "open" => spc[u] = "open"
    BY DEF TInv, TypeOK, Select
  <2>2. sseen'[t] = sseen[t] /\ sobs'[t] = sobs[t] /\ snew'[t] = snew[t] /\ squeue'[t] = squeue[t]
    BY <2>1 DEF TInv, TypeOK, Select
  <2>3. Stores(t) /\ \A u \in Scanners : spc[u] = "open" => u = t
    BY <2>1 DEF TInv, Open
  <2> QED
    BY <2>1, <2>2, <2>3 DEF Stores
<1>6. Rowless'
  BY DEF TInv, TypeOK, Rowless, NoJobs, Select
<1> QED
  BY <1>2, <1>3, <1>4, <1>5, <1>6 DEF TInv, TypeOK, Select, llm

LEMMA FlushType == ASSUME TInv, NEW s \in Scanners, Flush(s) PROVE TInv'
<1> DEFINE l == sseen[s]
           p == sobs[s][1]
           v == sobs[s][2]
<1>1. spc[s] # "idle" /\ l \in Rows
  BY DEF Flush, TInv, TypeOK
<1>2. Ingested(l, p, v) \in Rows
  BY <1>1, ObservationType, IngestedType
<1>3. snew' = [snew EXCEPT ![s] = Ingested(l, p, v)]
  BY DEF Flush
<1>4. snew' \in [Scanners -> Rows]
  BY <1>2, <1>3 DEF TInv, TypeOK
<1>5. squeue' \in [Scanners -> SUBSET Payloads]
  BY <1>1, ObservationType DEF TInv, TypeOK, Flush
<1>6. spc' \in [Scanners -> {"idle", "selected", "open"}] /\ Observed'
  BY <1>1 DEF TInv, TypeOK, Observed, Flush
<1>7. Asked' /\ Rowless'
  BY DEF TInv, Asked, Flush, llm, Rowless, NoJobs
<1>8. Open'
  <2>1. \A t \in Scanners : spc'[t] = "open" => t = s
    BY DEF TInv, TypeOK, Flush
  <2>2. Stores(s)'
    BY DEF TInv, TypeOK, Flush, Stores
  <2> QED
    BY <2>1, <2>2 DEF Open
<1> QED
  BY <1>4, <1>5, <1>6, <1>7, <1>8 DEF TInv, TypeOK, Flush, llm

LEMMA LeaveType ==
  ASSUME TInv, NEW s \in Scanners, Leave(s)
  PROVE  /\ spc' \in [Scanners -> {"idle", "selected", "open"}]
         /\ sseen' \in [Scanners -> Rows] /\ snew' \in [Scanners -> Rows]
         /\ sobs' \in [Scanners -> (Payloads \X Values) \union {NoObservation}]
         /\ squeue' \in [Scanners -> SUBSET Payloads]
         /\ Observed' /\ Open'
         /\ \A t \in Scanners : sseen'[t] = sseen[t] \/ sseen'[t] = NoRow
<1>1. spc' \in [Scanners -> {"idle", "selected", "open"}] /\ squeue' \in [Scanners -> SUBSET Payloads]
  BY DEF TInv, TypeOK, Leave
<1>2. sobs' \in [Scanners -> (Payloads \X Values) \union {NoObservation}] /\ Observed'
  BY DEF TInv, TypeOK, Leave, Observed
<1>3. /\ sseen' \in [Scanners -> Rows] /\ snew' \in [Scanners -> Rows]
      /\ \A t \in Scanners : sseen'[t] = sseen[t] \/ sseen'[t] = NoRow
  BY NoRowType DEF TInv, TypeOK, Leave
<1>4. Open'
  <2> SUFFICES ASSUME NEW t \in Scanners, spc'[t] = "open"
               PROVE  Stores(t)' /\ \A u \in Scanners : spc'[u] = "open" => u = t
    BY DEF Open
  <2>1. t # s /\ spc[t] = "open" /\ \A u \in Scanners : spc'[u] = "open" => spc[u] = "open"
    BY DEF TInv, TypeOK, Leave
  <2>2. sseen'[t] = sseen[t] /\ sobs'[t] = sobs[t] /\ snew'[t] = snew[t] /\ squeue'[t] = squeue[t]
    BY <2>1 DEF TInv, TypeOK, Leave
  <2>3. Stores(t) /\ \A u \in Scanners : spc[u] = "open" => u = t
    BY <2>1 DEF TInv, Open
  <2> QED
    BY <2>1, <2>2, <2>3 DEF Stores
<1> QED
  BY <1>1, <1>2, <1>3, <1>4

(* What a commit stores: the observation's payload, or the payload the row   *)
(* has already where the scan saw no change.                                 *)
LEMMA CommitStores ==
  ASSUME TInv, NEW s \in Scanners, Commit(s)
  PROVE  /\ snew[s].payload \in Payloads /\ event'.payload \in Payloads
         /\ snew[s].payload = sobs[s][1] /\ spc[s] = "open" /\ Stores(s)
         /\ event'.payload = IF sseen[s].payload = sobs[s][1] THEN event.payload ELSE sobs[s][1]
<1>1. spc[s] = "open" /\ Stores(s)
  BY DEF Commit, TInv, Open
<1>2. snew[s].payload = sobs[s][1] /\ sobs[s][1] \in Payloads
  BY <1>1, ObservationType DEF Stores, Ingested
<1>3. event'.payload = IF sseen[s].payload = sobs[s][1] THEN event.payload ELSE sobs[s][1]
  BY <1>2 DEF Commit, Written, Column
<1>4. sseen[s].payload = sobs[s][1] => event.payload \in Payloads
  BY <1>2, PayloadTypes DEF TInv, Rowless, NoRow
<1> QED
  BY <1>1, <1>2, <1>3, <1>4

(* A queued job stays queued when a scan commits.                            *)
LEMMA CommitType == ASSUME TInv, NEW s \in Scanners, Commit(s) PROVE TInv'
<1>1. event' \in Rows
  BY WrittenType DEF TInv, TypeOK, Commit
<1>2. planner' \in [Payloads -> {"absent", "queued", "completed", "dead"}]
  BY DEF TInv, TypeOK, Commit, Enqueued
<1>3. snew[s].scans \in 0 .. MaxScans /\ snew[s].payload \in Hashes
  BY DEF TInv, TypeOK, Rows
<1>4. listed' \in [Payloads -> 0 .. MaxScans]
  BY <1>3 DEF TInv, TypeOK, Commit
<1>5. gitleaks' \subseteq Payloads
  BY IngestAssumption DEF TInv, TypeOK, Commit
<1>6. returned' \in BOOLEAN
  BY Zenon DEF Commit
<1>7. past' \subseteq Payloads
  BY CommitStores DEF TInv, TypeOK, Commit
<1>8. Asked'
  BY DEF TInv, TypeOK, Asked, Commit, Enqueued, llm
<1>9. Leave(s) /\ UNCHANGED <<findings, llm, faults>>
  BY DEF Commit
<1>10. Rowless'
  BY CommitStores DEF Rowless
<1> QED
  BY <1>1, <1>2, <1>4, <1>5, <1>6, <1>7, <1>8, <1>9, <1>10, LeaveType DEF TInv, TypeOK, llm

LEMMA ScanLostType == ASSUME TInv, NEW s \in Scanners, ScanLost(s) PROVE TInv'
<1>1. Leave(s) /\ UNCHANGED <<event, planner, listed, gitleaks, findings, llm, returned, past>>
  BY DEF ScanLost
<1>2. faults' \in 0 .. MaxFaults
  BY Limits DEF TInv, TypeOK, ScanLost, Fault
<1>3. Asked' /\ Rowless'
  BY <1>1, LeaveType DEF TInv, Asked, Rowless, NoJobs, llm
<1> QED
  BY <1>1, <1>2, <1>3, LeaveType DEF TInv, TypeOK, llm

LEMMA StoresKept ==
  ASSUME UNCHANGED scan, TInv PROVE Observed' /\ Open'
BY DEF TInv, scan, Observed, Open, Stores

LEMMA AskType == ASSUME TInv, NEW p \in Payloads, Ask(p) PROVE TInv'
<1>1. Asked' /\ Rowless'
  BY DEF TInv, Ask, Asked, Rowless, NoJobs, scan
<1>2. lpc' \in {"idle", "asking", "loaded"} /\ ljob' \in Hashes
  BY DEF Ask, Hashes
<1> QED
  BY <1>1, <1>2, StoresKept DEF TInv, TypeOK, Ask, scan

LEMMA LoadEventType == ASSUME TInv, LoadEvent PROVE TInv'
<1>1. Asked' /\ Rowless'
  BY DEF TInv, LoadEvent, Asked, Rowless, NoJobs, scan
<1> QED
  BY <1>1, StoresKept DEF TInv, TypeOK, LoadEvent, scan

LEMMA LeaveLLMType ==
  ASSUME LeaveLLM PROVE lpc' = "idle" /\ ljob' \in Hashes /\ lseen' \in Rows /\ Asked'
BY NoRowType DEF LeaveLLM, Hashes, Asked

LEMMA AnswerType ==
  ASSUME TInv, NEW verdict \in {"candidate", "rejected"}, Answer(verdict)
  PROVE  TInv'
<1>1. ljob \in Payloads /\ planner[ljob] = "queued" /\ event.payload \in Payloads
  BY DEF TInv, Asked, Answer, Rowless, NoJobs
<1>2. event' = [event EXCEPT !.status = Column(lseen.status, verdict, event.status)]
  BY DEF Answer
<1>3. event' \in Rows
  BY <1>2 DEF TInv, TypeOK, Rows, Statuses, Column
<1>4. findings' \in [Payloads -> Nat]
  BY <1>1 DEF TInv, TypeOK, Answer
<1>5. planner' \in [Payloads -> {"absent", "queued", "completed", "dead"}]
  BY <1>1 DEF TInv, TypeOK, Answer, CompletedJob
<1>6. Rowless'
  BY <1>1, <1>2 DEF TInv, TypeOK, Rows, Rowless
<1>7. LeaveLLM /\ UNCHANGED <<listed, gitleaks, scan, returned, past, faults>>
  BY DEF Answer
<1> QED
  BY <1>3, <1>4, <1>5, <1>6, <1>7, LeaveLLMType, StoresKept DEF TInv, TypeOK, scan

LEMMA AnswerLostType == ASSUME TInv, AnswerLost PROVE TInv'
<1>1. ljob \in Payloads /\ planner[ljob] = "queued" /\ event.payload \in Payloads
  BY DEF TInv, Asked, AnswerLost, Rowless, NoJobs
<1>2. planner' \in [Payloads -> {"absent", "queued", "completed", "dead"}]
  BY <1>1 DEF TInv, TypeOK, AnswerLost
<1>3. Rowless'
  BY <1>1 DEF TInv, AnswerLost, Rowless
<1>4. LeaveLLM /\ UNCHANGED <<event, listed, gitleaks, findings, scan, returned, past>>
  BY DEF AnswerLost
<1>5. faults' \in 0 .. MaxFaults
  BY Limits DEF TInv, TypeOK, AnswerLost, Fault
<1> QED
  BY <1>2, <1>3, <1>4, <1>5, LeaveLLMType, StoresKept DEF TInv, TypeOK, scan

LEMMA TInvNext == TInv /\ [Next]_vars => TInv'
<1> SUFFICES ASSUME TInv, [Next]_vars PROVE TInv'
  OBVIOUS
<1>1. ASSUME NEW s \in Scanners, NEW raw \in Raw, NEW v \in Values, Select(s, raw, v) PROVE TInv'
  BY <1>1, SelectType
<1>2. ASSUME NEW s \in Scanners, Flush(s) PROVE TInv'
  BY <1>2, FlushType
<1>3. ASSUME NEW s \in Scanners, Commit(s) PROVE TInv'
  BY <1>3, CommitType
<1>4. ASSUME NEW s \in Scanners, ScanLost(s) PROVE TInv'
  BY <1>4, ScanLostType
<1>5. ASSUME NEW p \in Payloads, Ask(p) PROVE TInv'
  BY <1>5, AskType
<1>6. CASE LoadEvent
  BY <1>6, LoadEventType
<1>7. CASE AnswerLost
  BY <1>7, AnswerLostType
<1>8. ASSUME NEW verdict \in {"candidate", "rejected"}, Answer(verdict) PROVE TInv'
  BY <1>8, AnswerType
<1>9. CASE UNCHANGED vars
  BY <1>9 DEF vars, scan, llm, TInv, TypeOK, Observed, Asked, Open, Stores, Rowless, NoJobs
<1> QED
  BY <1>1, <1>2, <1>3, <1>4, <1>5, <1>6, <1>7, <1>8, <1>9 DEF Next

LEMMA TInvAlways == Spec => []TInv
BY TInvInit, TInvNext, PTL DEF Spec

(* The rows, jobs and transactions of events.py keep their types: no scan    *)
(* stores a row without a payload or a score out of range.                   *)
THEOREM TypeCorrect == Spec => []TypeOK
BY TInvAlways, PTL DEF TInv

-----------------------------------------------------------------------------
(* A job becomes completed with its one finding, and completed jobs stay.    *)
Once == \A p \in Payloads : findings[p] = IF planner[p] = "completed" THEN 1 ELSE 0

(* A commit only adds jobs that were absent, and those are in its queue.     *)
LEMMA CommitQueues ==
  ASSUME TInv, NEW s \in Scanners, Commit(s), NEW p \in Payloads
  PROVE  planner'[p] = planner[p]
         \/ (planner[p] = "absent" /\ planner'[p] = "queued" /\ p \in squeue[s])
BY DEF Commit, Enqueued

LEMMA OnceNext == TInv /\ Once /\ [Next]_vars => Once'
<1> SUFFICES ASSUME TInv, Once, [Next]_vars PROVE Once'
  OBVIOUS
<1>1. ASSUME NEW s \in Scanners, Commit(s) PROVE Once'
  <2>1. findings' = findings
    BY <1>1 DEF Commit
  <2> QED
    BY <1>1, <2>1, CommitQueues DEF Once
<1>2. ASSUME NEW verdict \in {"candidate", "rejected"}, Answer(verdict) PROVE Once'
  <2>1. ljob \in Payloads /\ planner[ljob] = "queued"
    BY <1>2 DEF TInv, Asked, Answer
  <2>2. findings' = [findings EXCEPT ![ljob] = @ + 1] /\ planner' = [planner EXCEPT ![ljob] = "completed"]
    BY <1>2 DEF Answer, CompletedJob
  <2> QED
    BY <2>1, <2>2 DEF Once, TInv, TypeOK
<1>3. CASE AnswerLost
  <2>1. ljob \in Payloads /\ planner[ljob] = "queued"
    BY <1>3 DEF TInv, Asked, AnswerLost
  <2> QED
    BY <1>3, <2>1 DEF Once, TInv, TypeOK, AnswerLost
<1>4. ASSUME UNCHANGED <<planner, findings>> PROVE Once'
  BY <1>4 DEF Once
<1> QED
  BY <1>1, <1>2, <1>3, <1>4 DEF Next, Select, Flush, ScanLost, Ask, LoadEvent, vars

(* However often an asset returns to a payload, and whichever attempts die   *)
(* between the answer and its commit, the dedupe key of the planner job      *)
(* keeps the payload at one finding (events.py, workflow.py).                *)
THEOREM EachPayloadIsFoundOnce == Spec => []OneFindingPerPayload
<1>1. Init => Once
  BY DEF Init, Once
<1>2. TInv /\ Once => OneFindingPerPayload
  BY DEF Once, OneFindingPerPayload
<1> QED
  BY <1>1, <1>2, OnceNext, TInvAlways, PTL DEF Spec

-----------------------------------------------------------------------------
(* The packet of a job fits with the evidence ids of the scans it lists.     *)
Packed == \A p \in Payloads : planner[p] # "absent" => Fits[p][listed[p]]

LEMMA PackedNext == TInv /\ Packed /\ [Next]_vars => Packed'
<1> SUFFICES ASSUME TInv, Packed, [Next]_vars PROVE Packed'
  OBVIOUS
<1>1. ASSUME NEW s \in Scanners, Commit(s) PROVE Packed'
  <2> SUFFICES ASSUME NEW p \in Payloads, planner'[p] # "absent" PROVE Fits[p][listed'[p]]
    BY DEF Packed
  <2>1. listed'[p] = IF planner[p] = "absent" /\ planner'[p] = "queued"
                     THEN snew[s].scans ELSE listed[p]
    BY <1>1 DEF Commit
  <2>2. CASE planner'[p] = planner[p]
    BY <2>1, <2>2 DEF Packed
  <2>3. CASE planner[p] = "absent" /\ planner'[p] = "queued" /\ p \in squeue[s]
    <3>1. Stores(s)
      BY <1>1, CommitStores
    <3>2. p = sobs[s][1] /\ ShouldQueue(sseen[s], p, sobs[s][2])
      BY <2>3, <3>1 DEF Stores
    <3>3. snew[s].scans = Scanned(sseen[s]) /\ Fits[p][Scanned(sseen[s])]
      BY <3>1, <3>2 DEF Stores, Ingested, Refused
    <3> QED
      BY <2>1, <2>3, <3>3
  <2> QED
    BY <1>1, <2>2, <2>3, CommitQueues
<1>2. ASSUME NEW verdict \in {"candidate", "rejected"}, Answer(verdict) PROVE Packed'
  <2>1. ljob \in Payloads /\ planner[ljob] = "queued"
    BY <1>2 DEF TInv, Asked, Answer
  <2> QED
    BY <1>2, <2>1 DEF Packed, TInv, TypeOK, Answer, CompletedJob
<1>3. CASE AnswerLost
  <2>1. ljob \in Payloads /\ planner[ljob] = "queued"
    BY <1>3 DEF TInv, Asked, AnswerLost
  <2> QED
    BY <1>3, <2>1 DEF Packed, TInv, TypeOK, AnswerLost
<1>4. ASSUME UNCHANGED <<planner, listed>> PROVE Packed'
  BY <1>4 DEF Packed
<1> QED
  BY <1>1, <1>2, <1>3, <1>4 DEF Next, Select, Flush, ScanLost, Ask, LoadEvent, vars

LEMMA PreparedType ==
  ASSUME NEW p \in Payloads, NEW n \in 0 .. MaxScans PROVE Prepared(p, n) \in Packet
<1> DEFINE k == PacketOf[p]
           more == k.rest + n * IdBytes
<1>1. k \in Packet /\ n \in Nat /\ IdBytes \in Nat
  BY IngestAssumption
<1>2. k.rest \in Nat
  BY <1>1 DEF Packet
<1>3. more \in Nat
  BY <1>1, <1>2
<1>4. Prepared(p, n) = [k EXCEPT !.rest = more]
  BY DEF Prepared
<1> HIDE DEF k, more
<1> QED
  BY <1>1, <1>3, <1>4 DEF Packet

(* What a model is asked fits the ceiling and says what was observed, for    *)
(* any sizes of the parts of a packet and any ceiling (packets.py): guidance *)
(* goes first.                                                               *)
THEOREM ObservationsAreCutLast == Spec => []PacketsKeepTheObservation
<1>1. Init => Packed
  BY DEF Init, Packed
<1>2. TInv /\ Packed => PacketsKeepTheObservation
  <2> SUFFICES ASSUME TInv, Packed, NEW p \in Payloads, planner[p] # "absent"
               PROVE  LET k == Prepared(p, listed[p])
                          left == Fitted(k, MaxContextBytes)
                      IN  /\ Within(k, left, MaxContextBytes)
                          /\ left.cuts > 1 => left.cards = 0 /\ left.references = 0
    BY DEF PacketsKeepTheObservation
  <2> DEFINE k == Prepared(p, listed[p])
  <2>1. listed[p] \in 0 .. MaxScans
    BY DEF TInv, TypeOK
  <2>2. k \in Packet
    BY <2>1, PreparedType
  <2>3. Packs(k, MaxContextBytes)
    BY <2>1 DEF Packed, Fits
  <2> HIDE DEF k
  <2>4. Within(k, Fitted(k, MaxContextBytes), MaxContextBytes)
    BY <2>3 DEF Packs
  <2>5. Fitted(k, MaxContextBytes).cuts > 1 => Fitted(k, MaxContextBytes).cuts # 0
    OBVIOUS
  <2>6. Fitted(k, MaxContextBytes).cuts > 1
          => Fitted(k, MaxContextBytes).cards = 0 /\ Fitted(k, MaxContextBytes).references = 0
    BY <2>2, <2>5, GuidanceGoesFirst
  <2> QED
    BY <2>4, <2>6 DEF k
<1> QED
  BY <1>1, <1>2, PackedNext, TInvAlways, PTL DEF Spec

-----------------------------------------------------------------------------
(* Where one worker scans, the row a scan has loaded is the row, but for the *)
(* status, over which the LLM worker may have written its verdict.  A        *)
(* payload that is marked as queued has its job, and a job is of a payload   *)
(* of the past.                                                              *)
OneScanner == \A s, t \in Scanners : s = t
Current(s) == /\ event.payload = sseen[s].payload /\ event.score = sseen[s].score
              /\ event.queued = sseen[s].queued
              /\ event.status = "llm_queued" => sseen[s].status = "llm_queued"
Same == \A s \in Scanners : spc[s] # "idle" => Current(s)
Marked == event.queued \in Payloads => planner[event.queued] # "absent"
Known == \A p \in Payloads : planner[p] # "absent" => p \in past
SInv == TInv /\ Same /\ Marked /\ Known

LEMMA SInvInit == Init => SInv
BY TInvInit, PayloadTypes DEF Init, SInv, Same, Marked, Known, NoRow

(* A commit that queues a payload changes the row to it.                     *)
LEMMA QueuedIsNew ==
  ASSUME TInv, NEW s \in Scanners, Commit(s), NEW p \in squeue[s]
  PROVE  /\ p = sobs[s][1] /\ ShouldQueue(sseen[s], p, sobs[s][2]) /\ p \in Payloads
         /\ sseen[s].payload # p /\ event'.payload = p
<1>1. Stores(s)
  BY CommitStores
<1>2. p = sobs[s][1] /\ ShouldQueue(sseen[s], p, sobs[s][2])
  BY <1>1 DEF Stores
<1>3. p \in Payloads
  BY <1>2, CommitStores
<1>4. sseen[s].payload # p
  BY <1>2, <1>3, PayloadTypes DEF ShouldQueue, IsNew, Changed, NoRow
<1> QED
  BY <1>2, <1>3, <1>4, CommitStores

LEMMA CommitMarks == ASSUME SInv, NEW s \in Scanners, Commit(s) PROVE Marked' /\ Known'
<1> DEFINE l == sseen[s]
           p == sobs[s][1]
           v == sobs[s][2]
<1>1. TInv /\ Stores(s) /\ p \in Payloads
  BY CommitStores DEF SInv
<1>2. Known'
  <2> SUFFICES ASSUME NEW q \in Payloads, planner'[q] # "absent" PROVE q \in past'
    BY DEF Known
  <2>1. past' = past \union {event'.payload}
    BY DEF Commit
  <2>2. CASE q \in squeue[s]
    BY <1>1, <2>1, <2>2, QueuedIsNew
  <2>3. CASE planner'[q] = planner[q]
    BY <2>1, <2>3 DEF SInv, Known
  <2> QED
    BY <1>1, <2>2, <2>3, CommitQueues
<1>3. event'.queued = event.queued \/ (event'.queued = p /\ p \in squeue[s])
  BY <1>1 DEF Commit, Written, Column, Stores, Ingested
<1>4. planner'[p] # "absent" \/ p \notin squeue[s]
  BY <1>1 DEF Commit, Enqueued
<1>5. \A q \in Payloads : planner[q] # "absent" => planner'[q] # "absent"
  BY <1>1, CommitQueues
<1> QED
  BY <1>2, <1>3, <1>4, <1>5 DEF SInv, Marked

LEMMA SInvNext == OneScanner /\ SInv /\ [Next]_vars => SInv'
<1> SUFFICES ASSUME OneScanner, SInv, [Next]_vars PROVE Same' /\ Marked' /\ Known'
  BY TInvNext DEF SInv
<1>1. ASSUME NEW s \in Scanners, NEW raw \in Raw, NEW v \in Values, Select(s, raw, v)
      PROVE  Same' /\ Marked' /\ Known'
  <2>1. \A t \in Scanners : t = s
    BY DEF OneScanner
  <2> QED
    BY <1>1, <2>1 DEF SInv, TInv, TypeOK, Select, Same, Current, Marked, Known
<1>2. ASSUME NEW s \in Scanners, Flush(s) PROVE Same' /\ Marked' /\ Known'
  BY <1>2 DEF SInv, TInv, TypeOK, Flush, Same, Current, Marked, Known
<1>3. ASSUME NEW s \in Scanners, Commit(s) PROVE Same' /\ Marked' /\ Known'
  <2>1. \A t \in Scanners : t = s
    BY DEF OneScanner
  <2>2. Same'
    BY <1>3, <2>1 DEF SInv, TInv, TypeOK, Commit, Leave, Same
  <2> QED
    BY <1>3, <2>2, CommitMarks
<1>4. ASSUME NEW s \in Scanners, ScanLost(s) PROVE Same' /\ Marked' /\ Known'
  <2>1. \A t \in Scanners : t = s
    BY DEF OneScanner
  <2> QED
    BY <1>4, <2>1 DEF SInv, TInv, TypeOK, ScanLost, Leave, Same, Marked, Known
<1>5. ASSUME NEW verdict \in {"candidate", "rejected"}, Answer(verdict)
      PROVE  Same' /\ Marked' /\ Known'
  <2>1. ljob \in Payloads /\ planner[ljob] = "queued"
    BY <1>5 DEF SInv, TInv, Asked, Answer
  <2>2. /\ event'.payload = event.payload /\ event'.score = event.score
        /\ event'.queued = event.queued
        /\ event'.status = "llm_queued" => event.status = "llm_queued"
    BY <1>5 DEF Answer, Column, SInv, TInv, TypeOK, Rows
  <2>3. planner' = [planner EXCEPT ![ljob] = "completed"] /\ UNCHANGED <<past, scan>>
    BY <1>5 DEF Answer, CompletedJob
  <2>4. Same'
    BY <2>2, <2>3 DEF SInv, Same, Current, scan
  <2>5. \A q \in Payloads : planner'[q] # "absent" <=> planner[q] # "absent"
    BY <2>1, <2>3 DEF SInv, TInv, TypeOK
  <2> QED
    BY <2>2, <2>3, <2>4, <2>5 DEF SInv, Marked, Known
<1>6. CASE AnswerLost
  <2>1. ljob \in Payloads /\ planner[ljob] = "queued"
    BY <1>6 DEF SInv, TInv, Asked, AnswerLost
  <2>2. \A q \in Payloads : planner'[q] # "absent" <=> planner[q] # "absent"
    BY <1>6, <2>1 DEF SInv, TInv, TypeOK, AnswerLost
  <2> QED
    BY <1>6, <2>2 DEF SInv, AnswerLost, scan, Same, Current, Marked, Known
<1>7. ASSUME UNCHANGED <<event, planner, past, scan>> PROVE Same' /\ Marked' /\ Known'
  BY <1>7 DEF SInv, scan, Same, Current, Marked, Known
<1> QED
  BY <1>1, <1>2, <1>3, <1>4, <1>5, <1>6, <1>7 DEF Next, Ask, LoadEvent, vars

LEMMA SInvAlways == ASSUME OneScanner PROVE Spec => []SInv
BY SInvInit, SInvNext, PTL DEF Spec

(* "Unchanged routine recon generates no LLM job", for any table of redacted *)
(* payloads, any values and any trigger, where one worker scans.             *)
THEOREM RoutineReconIsFree == ASSUME OneScanner PROVE Spec => UnchangedQueuesNothing
<1>1. SInv /\ [Next]_vars =>
        [event'.payload = event.payload
           => \A p \in Payloads : planner[p] = "absent" => planner'[p] = "absent"]_vars
  <2> SUFFICES ASSUME SInv, Next, event'.payload = event.payload,
                      NEW p \in Payloads, planner[p] = "absent"
               PROVE  planner'[p] = "absent"
    OBVIOUS
  <2>1. ASSUME NEW s \in Scanners, Commit(s) PROVE planner'[p] = "absent"
    <3>1. TInv
      BY DEF SInv
    <3>2. spc[s] = "open"
      BY <2>1 DEF Commit
    <3>3. Current(s)
      BY <3>2 DEF SInv, Same
    <3>4. p \notin squeue[s]
      BY <2>1, <3>1, <3>3, QueuedIsNew DEF Current
    <3> QED
      BY <2>1, <3>1, <3>4, CommitQueues
  <2>2. ASSUME lpc # "idle" PROVE ljob # p
    BY <2>2 DEF SInv, TInv, Asked
  <2>3. ASSUME NEW verdict \in {"candidate", "rejected"}, Answer(verdict) PROVE planner'[p] = "absent"
    BY <2>2, <2>3 DEF Answer, CompletedJob, SInv, TInv, TypeOK
  <2>4. CASE AnswerLost
    BY <2>2, <2>4 DEF AnswerLost, SInv, TInv, TypeOK
  <2> QED
    BY <2>1, <2>3, <2>4 DEF Next, Select, Flush, ScanLost, Ask, LoadEvent
<1> QED
  BY <1>1, SInvAlways, PTL DEF Spec, UnchangedQueuesNothing

(* No change of value is stored without its question: a row whose payload a  *)
(* commit has changed to one of enough value has a planner job of it, which  *)
(* the same commit stored or an earlier one (events.py, Enqueued).           *)
THEOREM ChangesAreAsked == ASSUME OneScanner PROVE Spec => ChangeIsAsked
<1>1. SInv /\ [Next]_vars =>
        [event'.payload # event.payload /\ Enabled /\ event'.score >= TriggerScore
           => planner'[event'.payload] # "absent"]_vars
  <2> SUFFICES ASSUME SInv, Next, event'.payload # event.payload, Enabled,
                      event'.score >= TriggerScore
               PROVE  planner'[event'.payload] # "absent"
    OBVIOUS
  <2>1. ASSUME NEW s \in Scanners, Commit(s) PROVE planner'[event'.payload] # "absent"
    <3> DEFINE l == sseen[s]
               p == sobs[s][1]
               v == sobs[s][2]
    <3>1. TInv /\ Marked
      BY DEF SInv
    <3>2. spc[s] = "open" /\ Stores(s) /\ p \in Payloads
      BY <2>1, <3>1, CommitStores
    <3>3. Current(s)
      BY <3>2 DEF SInv, Same
    <3>4. l.payload # p /\ event'.payload = p
      BY <2>1, <3>1, <3>3, CommitStores DEF Current
    <3>5. event'.score = Score(l, p, v)
      BY <2>1, <3>2, <3>3 DEF Commit, Written, Column, Stores, Ingested, Current
    <3>6. CASE ShouldQueue(l, p, v)
      BY <2>1, <3>2, <3>4, <3>6 DEF Commit, Enqueued, Stores
    <3>7. CASE ~ShouldQueue(l, p, v)
      <4>1. IsNew(l) \/ Changed(l, p)
        BY <3>4 DEF Changed
      <4>2. event.queued = p
        BY <3>3, <3>5, <3>7, <4>1 DEF ShouldQueue, Current
      <4>3. planner[p] # "absent"
        BY <3>1, <3>2, <4>2 DEF Marked
      <4> QED
        BY <2>1, <3>1, <3>2, <3>4, <4>3, CommitQueues
    <3> QED
      BY <3>6, <3>7
  <2>2. ASSUME NEW verdict \in {"candidate", "rejected"}, Answer(verdict)
        PROVE  event'.payload = event.payload
    BY <2>2 DEF Answer, SInv, TInv, TypeOK, Rows
  <2> QED
    BY <2>1, <2>2 DEF Next, Select, Flush, ScanLost, Ask, LoadEvent, AnswerLost
<1> QED
  BY <1>1, SInvAlways, PTL DEF Spec, ChangeIsAsked

-----------------------------------------------------------------------------
(* The LLM worker that has loaded the row of the payload it answers about    *)
(* knows that it waits.                                                      *)
Loaded ==
  /\ lpc = "loaded" /\ ljob = event.payload /\ ~returned /\ event.status = "llm_queued"
  => lseen.status = "llm_queued"
WInv == SInv /\ WaitingIsHonest /\ Loaded

LEMMA WInvInit == Init => WInv
BY SInvInit DEF Init, WInv, WaitingIsHonest, Loaded, NoRow

(* A commit changes the payload, to one that is queued or was there before,  *)
(* or it leaves payload and status alone.                                    *)
LEMMA CommitWaits ==
  ASSUME OneScanner, SInv, NEW s \in Scanners, Commit(s)
  PROVE  \/ event'.payload = event.payload /\ event'.status = event.status
         \/ /\ event'.payload # event.payload
            /\ event'.status = "llm_queued" /\ ~returned'
                 => planner[event'.payload] = "absent" /\ planner'[event'.payload] = "queued"
<1> DEFINE l == sseen[s]
           p == sobs[s][1]
           v == sobs[s][2]
<1>1. TInv /\ Known
  BY DEF SInv
<1>2. spc[s] = "open" /\ Stores(s) /\ p \in Payloads
  BY <1>1, CommitStores
<1>3. Current(s)
  BY <1>2 DEF SInv, Same
<1>4. CASE l.payload = p
  <2>1. ~IsNew(l) /\ ~Changed(l, p)
    BY <1>2, <1>4, PayloadTypes DEF IsNew, Changed, NoRow
  <2>2. snew[s].status = l.status /\ snew[s].payload = l.payload
    BY <1>2, <1>4, <2>1 DEF Stores, Ingested, Status, Unasked, ShouldQueue
  <2> QED
    BY <2>2 DEF Commit, Written, Column
<1>5. CASE l.payload # p
  <2>1. event'.payload = p /\ event.payload # p
    BY <1>1, <1>3, <1>5, CommitStores DEF Current
  <2>2. ASSUME event'.status = "llm_queued", ~returned'
        PROVE  planner[p] = "absent" /\ planner'[p] = "queued"
    <3>2. ShouldQueue(l, p, v)
      <4> SUFFICES ASSUME ~ShouldQueue(l, p, v) PROVE FALSE
        OBVIOUS
      <4>1. snew[s].status \in {"observed", "changed"} /\ snew[s].queued = l.queued
        BY <1>2, <1>5 DEF Stores, Ingested, Status, Unasked, Changed
      <4>2. event'.status = Column(l.status, snew[s].status, event.status)
        BY <4>1 DEF Commit, Written
      <4> QED
        BY <1>3, <2>2, <4>1, <4>2 DEF Column, Current
    <3>3. p \in squeue[s]
      BY <1>2, <3>2 DEF Stores
    <3>4. p \notin past
      BY <2>1, <2>2 DEF Commit
    <3>5. planner[p] = "absent"
      BY <1>1, <1>2, <3>4 DEF Known
    <3> QED
      BY <1>2, <3>3, <3>5 DEF Commit, Enqueued
  <2> QED
    BY <2>1, <2>2
<1> QED
  BY <1>4, <1>5

LEMMA CommitIsHonest ==
  ASSUME OneScanner, WInv, NEW s \in Scanners, Commit(s) PROVE WaitingIsHonest' /\ Loaded'
<1>1. SInv /\ TInv
  BY DEF WInv, SInv
<1>2. returned' = FALSE => ~returned
  BY Zenon DEF Commit
<1>3. returned \in BOOLEAN /\ returned' \in BOOLEAN
  BY <1>1, CommitType DEF TInv, TypeOK
<1>4. ~returned' => ~returned
  BY <1>2, <1>3
<1>5. UNCHANGED <<lpc, ljob, lseen>>
  BY DEF Commit, llm
<1>6. event'.payload \in Payloads
  BY <1>1, CommitStores
<1>7. lpc = "loaded" => ljob \in Payloads /\ planner[ljob] = "queued"
  BY <1>1 DEF TInv, Asked
<1>8. CASE event'.payload = event.payload /\ event'.status = event.status
  <2>1. planner'[event.payload] = planner[event.payload] \/ planner[event.payload] = "absent"
    BY <1>1, <1>6, <1>8, CommitQueues
  <2>2. WaitingIsHonest'
    BY <1>4, <1>8, <2>1 DEF WInv, WaitingIsHonest
  <2>3. Loaded'
    BY <1>4, <1>5, <1>8 DEF WInv, Loaded
  <2> QED
    BY <2>2, <2>3
<1>9. CASE event'.status = "llm_queued" /\ ~returned'
            => planner[event'.payload] = "absent" /\ planner'[event'.payload] = "queued"
  <2>1. WaitingIsHonest'
    BY <1>9 DEF WaitingIsHonest
  <2>2. Loaded'
    BY <1>5, <1>7, <1>9 DEF Loaded
  <2> QED
    BY <2>1, <2>2
<1> QED
  BY <1>1, <1>8, <1>9, CommitWaits

LEMMA WInvNext == OneScanner /\ WInv /\ [Next]_vars => WInv'
<1> SUFFICES ASSUME OneScanner, WInv, [Next]_vars PROVE WaitingIsHonest' /\ Loaded'
  BY SInvNext DEF WInv
<1>0. TInv
  BY DEF WInv, SInv
<1>1. ASSUME NEW s \in Scanners, Commit(s) PROVE WaitingIsHonest' /\ Loaded'
  BY <1>1, CommitIsHonest
<1>2. CASE LoadEvent
  BY <1>2 DEF LoadEvent, WInv, WaitingIsHonest, Loaded
<1>3. ASSUME NEW verdict \in {"candidate", "rejected"}, Answer(verdict)
      PROVE  WaitingIsHonest' /\ Loaded'
  <2>1. lpc = "loaded" /\ lpc' = "idle" /\ UNCHANGED returned
    BY <1>3 DEF Answer, LeaveLLM
  <2>2. event'.payload = event.payload /\ event'.status = Column(lseen.status, verdict, event.status)
    BY <1>0, <1>3 DEF Answer, TInv, TypeOK, Rows
  <2>3. planner' = [planner EXCEPT ![ljob] = "completed"]
    BY <1>3 DEF Answer, CompletedJob
  <2>4. ASSUME event'.status = "llm_queued", ~returned
        PROVE  planner'[event.payload] \in {"queued", "dead"}
    <3>1. lseen.status # "llm_queued" /\ event.status = "llm_queued"
      BY <2>2, <2>4 DEF Column
    <3>2. ljob # event.payload
      BY <2>1, <2>4, <3>1 DEF WInv, Loaded
    <3>3. planner[event.payload] \in {"queued", "dead"}
      BY <2>4, <3>1 DEF WInv, WaitingIsHonest
    <3> QED
      BY <1>0, <2>3, <3>2, <3>3 DEF TInv, TypeOK
  <2>5. WaitingIsHonest'
    BY <2>1, <2>2, <2>4 DEF WaitingIsHonest
  <2>6. Loaded'
    BY <2>1 DEF Loaded
  <2> QED
    BY <2>5, <2>6
<1>4. CASE AnswerLost
  <2>1. lpc' = "idle" /\ UNCHANGED <<event, returned>>
    BY <1>4 DEF AnswerLost, LeaveLLM
  <2>2. \A p \in Payloads :
          planner[p] \in {"queued", "dead"} => planner'[p] \in {"queued", "dead"}
    BY <1>0, <1>4 DEF AnswerLost, TInv, TypeOK
  <2>3. event.status = "llm_queued" => event.payload \in Payloads
    BY <1>0 DEF TInv, Rowless, NoRow
  <2> QED
    BY <2>1, <2>2, <2>3 DEF WInv, WaitingIsHonest, Loaded
<1>5. ASSUME NEW p \in Payloads, Ask(p) PROVE WaitingIsHonest' /\ Loaded'
  BY <1>5 DEF Ask, WInv, WaitingIsHonest, Loaded
<1>6. ASSUME UNCHANGED <<event, planner, lpc, ljob, lseen, returned>> PROVE WaitingIsHonest' /\ Loaded'
  BY <1>6 DEF WInv, WaitingIsHonest, Loaded
<1> QED
  BY <1>1, <1>2, <1>3, <1>4, <1>5, <1>6 DEF Next, Select, Flush, ScanLost, vars, llm

(* An event shown as llm_queued has a planner job, queued or dead, about     *)
(* what it shows, unless its payload had been there before, although answers *)
(* about earlier payloads write the status late (workflow.py), for any       *)
(* number of payloads and of attempts that fail; where one worker scans.     *)
THEOREM WaitingEventsAreQueued == ASSUME OneScanner PROVE Spec => []WaitingIsHonest
<1>1. WInv => WaitingIsHonest
  BY DEF WInv
<1> QED
  BY <1>1, WInvInit, WInvNext, PTL DEF Spec
=============================================================================
