-------------------------- MODULE ChunkRangesProofs --------------------------
(***************************************************************************)
(* The byte arithmetic of era.rs is right for every device size, chunk     *)
(* size and width of the era counter. Two arguments meet:                  *)
(*                                                                         *)
(*   - what the loop of ranges_since returns for any era array (LoopInv,   *)
(*     by induction over its iterations), in terms of the chunk borders    *)
(*     Edge(0) < Edge(1) < ... < Edge(NrChunks) = DevSize, so that the     *)
(*     multiplications are met once, in EdgeFacts;                         *)
(*   - what the era array says of the writes (IInv, by induction over the  *)
(*     steps), modulo the width of the counter.                            *)
(***************************************************************************)
EXTENDS ChunkRanges, SequenceTheorems, WellFoundedInduction, NaturalsInduction, TLAPS

-----------------------------------------------------------------------------
(* Arithmetic.                                                             *)

\* Division with remainder.
LEMMA DivMod ==
  ASSUME NEW a \in Nat, NEW g \in Nat \ {0}
  PROVE  /\ a \div g \in Nat /\ a % g \in 0 .. g - 1
         /\ a = ((a \div g) * g) + (a % g)
BY Z3

\* The next multiple is a whole divisor away.
LEMMA MulMono ==
  ASSUME NEW x \in Nat, NEW y \in Nat, NEW g \in Nat \ {0}, x < y
  PROVE  (x * g) + g <= y * g
<1>1. PICK d \in Nat : y = (x + 1) + d
  <2>1. y - (x + 1) \in Nat
    OBVIOUS
  <2> QED
    BY <2>1
<1>2. y * g = ((x * g) + g) + (d * g)
  BY <1>1
<1>3. x * g \in Nat /\ d * g \in Nat
  OBVIOUS
<1> QED
  BY <1>2, <1>3

\* Quotient and remainder are determined by the multiple below.
LEMMA DivUnique ==
  ASSUME NEW a \in Nat, NEW q \in Nat, NEW g \in Nat \ {0}, q * g <= a, a < (q * g) + g
  PROVE  a \div g = q /\ a % g = a - (q * g)
<1> DEFINE p == a \div g
<1>0. q * g \in Nat /\ p * g \in Nat
  BY DivMod
<1>1. p \in Nat /\ p * g <= a /\ a < (p * g) + g /\ a % g = a - (p * g)
  BY <1>0, DivMod
<1> HIDE DEF p
<1>2. ~ (p < q)
  BY <1>0, <1>1, MulMono
<1>3. ~ (q < p)
  BY <1>0, <1>1, MulMono
<1>4. p = q
  BY <1>1, <1>2, <1>3
<1> QED
  BY <1>1, <1>4 DEF p

\* Division is monotonic.
LEMMA DivMono ==
  ASSUME NEW a \in Nat, NEW b \in Nat, NEW g \in Nat \ {0}, a <= b
  PROVE  a \div g <= b \div g
<1> DEFINE p == a \div g  q == b \div g
<1>1. /\ p \in Nat /\ p * g \in Nat /\ p * g <= a /\ a < (p * g) + g
      /\ q \in Nat /\ q * g \in Nat /\ q * g <= b /\ b < (q * g) + g
  BY DivMod
<1> HIDE DEF p, q
<1>2. ~ (q < p)
  BY <1>1, MulMono
<1>3. p <= q
  BY <1>1, <1>2
<1> QED
  BY <1>3 DEF p, q

\* A counter taken modulo its width at every step is the count modulo it.
LEMMA ModNext ==
  ASSUME NEW x \in Nat, NEW g \in Nat \ {0, 1}
  PROVE  ((x % g) + 1) % g = (x + 1) % g
<1> DEFINE q == x \div g  r == x % g
<1>0. q \in Nat /\ r \in 0 .. g - 1 /\ x = (q * g) + r
  BY DivMod
<1> HIDE DEF q, r
<1>1. q * g \in Nat /\ (q + 1) * g = (q * g) + g /\ 0 * g = 0 /\ 1 * g = g /\ g \in Nat \ {0}
  BY <1>0
<1>2. CASE r + 1 < g
  <2>1. x + 1 \in Nat /\ q * g <= x + 1 /\ x + 1 < (q * g) + g
    BY <1>0, <1>1, <1>2
  <2>2. (x + 1) % g = (x + 1) - (q * g)
    BY <1>0, <1>1, <2>1, DivUnique
  <2>3. r + 1 \in Nat /\ 0 * g <= r + 1 /\ r + 1 < (0 * g) + g
    BY <1>0, <1>1, <1>2
  <2>4. (r + 1) % g = (r + 1) - (0 * g)
    BY <1>1, <2>3, DivUnique
  <2>5. (r + 1) % g = (x + 1) % g
    BY <1>0, <1>1, <2>2, <2>4
  <2> QED
    BY <2>5 DEF r
<1>3. CASE r + 1 = g
  <2>1. x + 1 \in Nat /\ (q + 1) * g <= x + 1 /\ x + 1 < ((q + 1) * g) + g
    BY <1>0, <1>1, <1>3
  <2>2. (x + 1) % g = (x + 1) - ((q + 1) * g)
    BY <1>0, <1>1, <2>1, DivUnique
  <2>3. r + 1 \in Nat /\ 1 * g <= r + 1 /\ r + 1 < (1 * g) + g
    BY <1>0, <1>1, <1>3
  <2>4. (r + 1) % g = (r + 1) - (1 * g)
    BY <1>1, <2>3, DivUnique
  <2>5. (r + 1) % g = (x + 1) % g
    BY <1>0, <1>1, <1>3, <2>2, <2>4
  <2> QED
    BY <2>5 DEF r
<1> QED
  BY <1>0, <1>2, <1>3

\* If a count c is less than a cycle old and its residue is below the one of
\* the present count e, then the counter has not wrapped between them.
LEMMA SameCycle ==
  ASSUME NEW c \in Nat, NEW w \in Nat, NEW e \in Nat, NEW g \in Nat \ {0, 1},
         c < w, w <= e, e - c <= g, c % g < e % g
  PROVE  c % g < w % g
<1> DEFINE q == c \div g  p == e \div g
<1>1. /\ q \in Nat /\ q * g \in Nat /\ q * g <= c /\ c < (q * g) + g /\ c % g = c - (q * g)
      /\ p \in Nat /\ p * g \in Nat /\ p * g <= e /\ e < (p * g) + g /\ e % g = e - (p * g)
  BY DivMod
<1> HIDE DEF p, q
<1>2. ~ (p < q)
  BY <1>1, MulMono
<1>3. ~ (q < p)
  BY <1>1, MulMono
<1>4. p = q
  BY <1>1, <1>2, <1>3
<1>5. w % g = w - (q * g)
  <2>1. q * g <= w /\ w < (q * g) + g /\ g \in Nat \ {0}
    BY <1>1, <1>4
  <2> QED
    BY <1>1, <2>1, DivUnique
<1> QED
  BY <1>1, <1>5

\* A nonempty set of natural numbers has a least element.
LEMMA LeastNatural ==
  ASSUME NEW S \in SUBSET Nat, S # {}
  PROVE  \E x \in S : \A y \in S : x <= y
<1> DEFINE Less == {mn \in Nat \X Nat : mn[1] < mn[2]}
<1>1. IsWellFoundedOn(Less, Nat)
  BY NatLessThanWellFounded, SMT DEF OpToRel
<1> HIDE DEF Less
<1>2. PICK x \in S : \A y \in S : ~ (<<y, x>> \in Less)
  BY <1>1, WFMin
<1>3. \A y \in S : ~ (y < x)
  BY <1>2 DEF Less
<1> QED
  BY <1>3

-----------------------------------------------------------------------------
(* The borders of the chunks.                                              *)

\* The first byte of chunk n, or the end of the device after the last one.
Edge(n) == IF n * Granularity <= DevSize THEN n * Granularity ELSE DevSize

\* The number of chunks is the device size divided by the chunk size, rounded up.
LEMMA ChunkCount ==
  /\ NrChunks \in Nat \ {0}
  /\ NrChunks * Granularity >= DevSize
  /\ \A n \in 0 .. NrChunks - 1 : n * Granularity \in Nat /\ n * Granularity < DevSize
<1> DEFINE a == (DevSize + Granularity) - 1
<1> USE SizesAssumption
<1>1. a \in Nat /\ NrChunks = a \div Granularity
  BY DEF NrChunks
<1>2. /\ NrChunks \in Nat /\ NrChunks * Granularity \in Nat
      /\ NrChunks * Granularity <= a /\ a < (NrChunks * Granularity) + Granularity
  BY <1>1, DivMod
<1>3. NrChunks * Granularity >= DevSize
  BY <1>2
<1>4. 0 * Granularity = 0
  OBVIOUS
<1>5. NrChunks # 0
  BY <1>3, <1>4
<1>6. ASSUME NEW n \in 0 .. NrChunks - 1
      PROVE  n * Granularity \in Nat /\ n * Granularity < DevSize
  <2>1. n \in Nat /\ n < NrChunks
    BY <1>2
  <2>2. n * Granularity \in Nat
    BY <2>1
  <2>3. (n * Granularity) + Granularity <= NrChunks * Granularity
    BY <1>2, <2>1, MulMono
  <2> QED
    BY <1>2, <2>2, <2>3
<1> QED
  BY <1>2, <1>3, <1>5, <1>6

\* What the rest of the proof uses of the borders and of the chunk of a byte.
LEMMA EdgeFacts ==
  /\ \A n \in 0 .. NrChunks : Edge(n) \in 0 .. DevSize
  /\ Edge(NrChunks) = DevSize
  /\ \A n \in 0 .. NrChunks - 1 :
       /\ Edge(n) = n * Granularity
       /\ ChunkLen(n) \in Nat \ {0}
       /\ Edge(n) + ChunkLen(n) = Edge(n + 1)
  /\ \A m, n \in 0 .. NrChunks : m < n => Edge(m) < Edge(n)
  /\ \A b \in Sectors : b \div Granularity \in 0 .. NrChunks - 1
  /\ \A b \in Sectors, n \in 0 .. NrChunks - 1 :
       (Edge(n) <= b /\ b < Edge(n + 1)) <=> b \div Granularity = n
<1> USE SizesAssumption
<1>1. /\ NrChunks \in Nat \ {0} /\ NrChunks * Granularity >= DevSize
      /\ \A n \in 0 .. NrChunks - 1 : n * Granularity \in Nat /\ n * Granularity < DevSize
  BY ChunkCount
<1>2. \A n \in 0 .. NrChunks : n * Granularity \in Nat
  BY <1>1
<1>3. \A n \in 0 .. NrChunks : Edge(n) \in 0 .. DevSize
  BY <1>2 DEF Edge
<1>4. NrChunks * Granularity \in Nat /\ Edge(NrChunks) = DevSize
  BY <1>1 DEF Edge
<1>5. ASSUME NEW n \in 0 .. NrChunks - 1
      PROVE  /\ Edge(n) = n * Granularity
             /\ ChunkLen(n) \in Nat \ {0}
             /\ Edge(n) + ChunkLen(n) = Edge(n + 1)
             /\ Edge(n + 1) <= (n * Granularity) + Granularity
             /\ Edge(n + 1) # DevSize => Edge(n + 1) = (n * Granularity) + Granularity
  <2>1. (n + 1) * Granularity = (n * Granularity) + Granularity
    BY <1>1
  <2> QED
    BY <1>1, <2>1 DEF Edge, ChunkLen
<1>6. ASSUME NEW m \in 0 .. NrChunks, NEW n \in 0 .. NrChunks, m < n
      PROVE  Edge(m) < Edge(n)
  <2>1. m \in Nat /\ n \in Nat /\ m \in 0 .. NrChunks - 1
    BY <1>1, <1>6
  <2>2. (m * Granularity) + Granularity <= n * Granularity
    BY <1>6, <2>1, MulMono
  <2>3. m * Granularity \in Nat /\ n * Granularity \in Nat /\ m * Granularity < DevSize
    BY <1>1, <1>2, <2>1
  <2> QED
    BY <2>2, <2>3 DEF Edge
<1>7. ASSUME NEW b \in Sectors
      PROVE  b \div Granularity \in 0 .. NrChunks - 1
  <2> DEFINE q == b \div Granularity
  <2>1. /\ b \in Nat /\ b < DevSize
        /\ q \in Nat /\ q * Granularity \in Nat /\ q * Granularity <= b
    BY DivMod DEF Sectors
  <2> HIDE DEF q
  <2>2. ~ (NrChunks < q)
    BY <1>1, <1>4, <2>1, MulMono
  <2>3. q # NrChunks
    BY <1>1, <2>1
  <2>4. q \in 0 .. NrChunks - 1
    BY <1>1, <2>1, <2>2, <2>3
  <2> QED
    BY <2>4 DEF q
<1>8. ASSUME NEW b \in Sectors, NEW n \in 0 .. NrChunks - 1
      PROVE  (Edge(n) <= b /\ b < Edge(n + 1)) <=> b \div Granularity = n
  <2>1. b \in Nat /\ b < DevSize /\ n \in Nat /\ n * Granularity \in Nat
    BY <1>1 DEF Sectors
  <2>2. ASSUME Edge(n) <= b, b < Edge(n + 1)
        PROVE  b \div Granularity = n
    <3>1. n * Granularity <= b /\ b < (n * Granularity) + Granularity
      <4>1. Edge(n + 1) \in Nat
        BY <1>1, <1>3
      <4> QED
        BY <1>5, <2>1, <2>2, <4>1
    <3> QED
      BY <2>1, <3>1, DivUnique
  <2>3. ASSUME b \div Granularity = n
        PROVE  Edge(n) <= b /\ b < Edge(n + 1)
    <3>1. b = (n * Granularity) + (b % Granularity) /\ b % Granularity \in 0 .. Granularity - 1
      BY <2>1, <2>3, DivMod
    <3>2. n * Granularity <= b /\ b < (n * Granularity) + Granularity
      BY <2>1, <3>1
    <3> QED
      BY <1>5, <2>1, <3>2
  <2> QED
    BY <2>2, <2>3
<1>9. \A n \in 0 .. NrChunks - 1 :
        /\ Edge(n) = n * Granularity
        /\ ChunkLen(n) \in Nat \ {0}
        /\ Edge(n) + ChunkLen(n) = Edge(n + 1)
  BY <1>5
<1> QED
  BY <1>3, <1>4, <1>6, <1>7, <1>8, <1>9

-----------------------------------------------------------------------------
(* The loop of ranges_since.                                               *)

DirtyRange == [offset : Nat, len : Nat]

EndOf(r) == r.offset + r.len

CoveredBy(rs, b) == \E k \in 1 .. Len(rs) : rs[k].offset <= b /\ b < EndOf(rs[k])

\* Every range is a nonempty run of whole chunks among the first n.
WholeChunks(rs, n) ==
  \A k \in 1 .. Len(rs) :
    \E a \in 0 .. n - 1, m \in 1 .. n :
      a < m /\ rs[k].offset = Edge(a) /\ EndOf(rs[k]) = Edge(m)

\* Between two ranges there is a gap.
Apart(rs) == \A k \in 1 .. Len(rs) : k < Len(rs) => EndOf(rs[k]) < rs[k + 1].offset

\* The ranges cover the bytes of the newer chunks among the first n.
Exact(rs, n, since) ==
  \A b \in Sectors :
    CoveredBy(rs, b) <=> (b \div Granularity < n /\ eras[(b \div Granularity) + 1] > since)

LoopInv(rs, n, since) ==
  rs \in Seq(DirtyRange) /\ WholeChunks(rs, n) /\ Apart(rs) /\ Exact(rs, n, since)

\* A chunk that is not newer changes nothing.
LEMMA SkipChunk ==
  ASSUME TypeOK, NEW since \in Nat, NEW n \in 0 .. NrChunks - 1, NEW rs, LoopInv(rs, n, since),
         eras[n + 1] <= since
  PROVE  LoopInv(rs, n + 1, since)
<1>1. NrChunks \in Nat
  BY ChunkCount
<1>2. WholeChunks(rs, n + 1)
  BY <1>1 DEF LoopInv, WholeChunks
<1>3. ASSUME NEW b \in Sectors
      PROVE  CoveredBy(rs, b) <=> (b \div Granularity < n + 1 /\ eras[(b \div Granularity) + 1] > since)
  <2> DEFINE q == b \div Granularity
  <2>1. q \in 0 .. NrChunks - 1
    BY EdgeFacts
  <2>2. CoveredBy(rs, b) <=> (q < n /\ eras[q + 1] > since)
    BY DEF LoopInv, Exact
  <2> HIDE DEF q
  <2>3. eras[n + 1] \in Nat
    BY <1>1, EraAssumption DEF TypeOK
  <2>4. q = n => ~ (eras[q + 1] > since)
    BY <2>3
  <2>5. q < n + 1 <=> q < n \/ q = n
    BY <1>1, <2>1
  <2>6. CoveredBy(rs, b) <=> (q < n + 1 /\ eras[q + 1] > since)
    BY <1>1, <2>1, <2>2, <2>4, <2>5
  <2> QED
    BY <2>6 DEF q
<1> QED
  BY <1>2, <1>3 DEF LoopInv, Exact

\* If the covered bytes grow by those of a newer chunk n, they are exact for n + 1.
LEMMA ExactStep ==
  ASSUME NEW since \in Nat, NEW n \in 0 .. NrChunks - 1, NEW rs, NEW new,
         Exact(rs, n, since), eras[n + 1] > since,
         \A b \in Sectors : CoveredBy(new, b) <=> CoveredBy(rs, b) \/ (Edge(n) <= b /\ b < Edge(n + 1))
  PROVE  Exact(new, n + 1, since)
<1>1. NrChunks \in Nat
  BY ChunkCount
<1>2. ASSUME NEW b \in Sectors
      PROVE  CoveredBy(new, b) <=> (b \div Granularity < n + 1 /\ eras[(b \div Granularity) + 1] > since)
  <2> DEFINE q == b \div Granularity
  <2>1. q \in 0 .. NrChunks - 1 /\ ((Edge(n) <= b /\ b < Edge(n + 1)) <=> q = n)
    BY EdgeFacts
  <2>2. CoveredBy(rs, b) <=> (q < n /\ eras[q + 1] > since)
    BY DEF Exact
  <2> HIDE DEF q
  <2>3. CoveredBy(new, b) <=> (q < n /\ eras[q + 1] > since) \/ q = n
    BY <2>1, <2>2
  <2>4. CoveredBy(new, b) <=> (q < n + 1 /\ eras[q + 1] > since)
    BY <1>1, <2>1, <2>3
  <2> QED
    BY <2>4 DEF q
<1> QED
  BY <1>2 DEF Exact

\* A newer chunk that does not begin at the end of the last range starts a range.
LEMMA PushChunk ==
  ASSUME TypeOK, NEW since \in Nat, NEW n \in 0 .. NrChunks - 1, NEW rs, LoopInv(rs, n, since),
         eras[n + 1] > since,
         ~ (Len(rs) > 0 /\ EndOf(rs[Len(rs)]) = Edge(n))
  PROVE  LoopInv(Append(rs, [offset |-> Edge(n), len |-> ChunkLen(n)]), n + 1, since)
<1> DEFINE r == [offset |-> Edge(n), len |-> ChunkLen(n)]
           new == Append(rs, r)
<1>1. /\ NrChunks \in Nat /\ Edge(n) \in Nat /\ ChunkLen(n) \in Nat \ {0} /\ n + 1 \in 0 .. NrChunks
      /\ EndOf(r) = Edge(n + 1)
  BY ChunkCount, EdgeFacts, SizesAssumption DEF EndOf
<1>2. /\ rs \in Seq(DirtyRange) /\ r \in DirtyRange
      /\ new \in Seq(DirtyRange) /\ Len(rs) \in Nat /\ Len(new) = Len(rs) + 1
      /\ new[Len(rs) + 1] = r /\ \A k \in 1 .. Len(rs) : new[k] = rs[k]
  <2>1. rs \in Seq(DirtyRange) /\ r \in DirtyRange
    BY <1>1 DEF LoopInv, DirtyRange
  <2> QED
    BY <2>1, AppendProperties
<1>3. r.offset = Edge(n)
  OBVIOUS
<1> HIDE DEF r, new
<1>4. WholeChunks(new, n + 1)
  <2> SUFFICES ASSUME NEW k \in 1 .. Len(new)
               PROVE  \E a \in 0 .. (n + 1) - 1, m \in 1 .. n + 1 :
                        a < m /\ new[k].offset = Edge(a) /\ EndOf(new[k]) = Edge(m)
    BY DEF WholeChunks
  <2>1. CASE k \in 1 .. Len(rs)
    BY <1>1, <1>2, <2>1 DEF LoopInv, WholeChunks
  <2>2. CASE k = Len(rs) + 1
    <3>1. n \in 0 .. (n + 1) - 1 /\ n + 1 \in 1 .. n + 1 /\ n < n + 1
      BY <1>1
    <3> QED
      BY <1>1, <1>2, <1>3, <2>2, <3>1
  <2> QED
    BY <1>2, <2>1, <2>2
<1>5. Apart(new)
  <2> SUFFICES ASSUME NEW k \in 1 .. Len(new), k < Len(new)
               PROVE  EndOf(new[k]) < new[k + 1].offset
    BY DEF Apart
  <2>1. k \in 1 .. Len(rs) /\ new[k] = rs[k]
    BY <1>2
  <2>2. CASE k < Len(rs)
    BY <1>2, <2>1, <2>2 DEF LoopInv, Apart
  <2>3. CASE k = Len(rs)
    <3>1. PICK m \in 1 .. n : EndOf(rs[k]) = Edge(m)
      BY <2>1 DEF LoopInv, WholeChunks
    <3>2. m # n /\ m \in 0 .. NrChunks /\ n \in 0 .. NrChunks /\ m < n
      BY <1>1, <1>2, <2>1, <2>3, <3>1
    <3>3. Edge(m) < Edge(n)
      BY <3>2, EdgeFacts
    <3> QED
      BY <1>2, <1>3, <2>1, <2>3, <3>1, <3>3
  <2> QED
    BY <1>2, <2>1, <2>2, <2>3
<1>6. ASSUME NEW b \in Sectors
      PROVE  CoveredBy(new, b) <=> CoveredBy(rs, b) \/ (Edge(n) <= b /\ b < Edge(n + 1))
  <2>1. 1 .. Len(new) = 1 .. Len(rs) \cup {Len(rs) + 1}
    BY <1>2
  <2>2. CoveredBy(new, b) <=> \/ \E k \in 1 .. Len(rs) : new[k].offset <= b /\ b < EndOf(new[k])
                              \/ r.offset <= b /\ b < EndOf(r)
    BY <1>2, <2>1 DEF CoveredBy
  <2> QED
    BY <1>1, <1>2, <1>3, <2>2 DEF CoveredBy
<1>7. Exact(new, n + 1, since)
  BY <1>6, ExactStep DEF LoopInv
<1> QED
  BY <1>2, <1>4, <1>5, <1>7 DEF LoopInv, new, r

\* A newer chunk that begins at the end of the last range extends it.
LEMMA ExtendRange ==
  ASSUME TypeOK, NEW since \in Nat, NEW n \in 0 .. NrChunks - 1, NEW rs, LoopInv(rs, n, since),
         eras[n + 1] > since,
         Len(rs) > 0, EndOf(rs[Len(rs)]) = Edge(n)
  PROVE  LoopInv([rs EXCEPT ![Len(rs)].len = @ + ChunkLen(n)], n + 1, since)
<1> DEFINE l == Len(rs)
           r == [rs[l] EXCEPT !.len = @ + ChunkLen(n)]
           new == [rs EXCEPT ![l] = r]
<1>1. /\ NrChunks \in Nat /\ Edge(n) \in Nat /\ ChunkLen(n) \in Nat \ {0} /\ n + 1 \in 0 .. NrChunks
      /\ Edge(n) + ChunkLen(n) = Edge(n + 1)
  BY ChunkCount, EdgeFacts, SizesAssumption
<1>2. /\ rs \in Seq(DirtyRange) /\ l \in Nat /\ l \in 1 .. l /\ rs[l] \in DirtyRange
      /\ r \in DirtyRange /\ r.offset = rs[l].offset /\ r.len = rs[l].len + ChunkLen(n)
  <2>1. rs \in Seq(DirtyRange)
    BY DEF LoopInv
  <2>2. l \in Nat /\ l \in 1 .. l
    BY <2>1
  <2>3. rs[l] \in DirtyRange
    BY <2>1, <2>2
  <2>4. rs[l] \in [offset : Nat, len : Nat]
    BY <2>3 DEF DirtyRange
  <2>5. r \in [offset : Nat, len : Nat] /\ r.offset = rs[l].offset /\ r.len = rs[l].len + ChunkLen(n)
    BY <1>1, <2>4
  <2> QED
    BY <2>1, <2>2, <2>3, <2>5 DEF DirtyRange
<1>3. /\ new \in Seq(DirtyRange) /\ Len(new) = l /\ new[l] = r
      /\ \A k \in 1 .. l : k # l => new[k] = rs[k]
  BY <1>2
<1>4. EndOf(r) = Edge(n + 1)
  BY <1>1, <1>2 DEF EndOf, DirtyRange
<1>5. new = [rs EXCEPT ![Len(rs)].len = @ + ChunkLen(n)]
  OBVIOUS
<1> HIDE DEF r, new
<1>6. PICK a \in 0 .. n - 1, m \in 1 .. n : a < m /\ rs[l].offset = Edge(a)
  BY <1>2 DEF LoopInv, WholeChunks
<1>7. WholeChunks(new, n + 1)
  <2> SUFFICES ASSUME NEW k \in 1 .. Len(new)
               PROVE  \E i \in 0 .. (n + 1) - 1, j \in 1 .. n + 1 :
                        i < j /\ new[k].offset = Edge(i) /\ EndOf(new[k]) = Edge(j)
    BY DEF WholeChunks
  <2>1. CASE k # l
    <3>1. k \in 1 .. Len(rs) /\ new[k] = rs[k]
      BY <1>3, <2>1
    <3>2. PICK i \in 0 .. n - 1, j \in 1 .. n :
            i < j /\ rs[k].offset = Edge(i) /\ EndOf(rs[k]) = Edge(j)
      BY <3>1 DEF LoopInv, WholeChunks
    <3>3. i \in 0 .. (n + 1) - 1 /\ j \in 1 .. n + 1
      BY <1>1, <3>2
    <3> QED
      BY <3>1, <3>2, <3>3
  <2>2. CASE k = l
    <3>1. a \in 0 .. (n + 1) - 1 /\ n + 1 \in 1 .. n + 1 /\ a < n + 1
      BY <1>1, <1>6
    <3> QED
      BY <1>2, <1>3, <1>4, <1>6, <2>2, <3>1
  <2> QED
    BY <2>1, <2>2
<1>8. Apart(new)
  <2> SUFFICES ASSUME NEW k \in 1 .. Len(new), k < Len(new)
               PROVE  EndOf(new[k]) < new[k + 1].offset
    BY DEF Apart
  <2>1. new[k] = rs[k] /\ k + 1 \in 1 .. l /\ new[k + 1].offset = rs[k + 1].offset
    BY <1>2, <1>3
  <2> QED
    BY <1>2, <1>3, <2>1 DEF LoopInv, Apart
<1>9. ASSUME NEW b \in Sectors
      PROVE  CoveredBy(new, b) <=> CoveredBy(rs, b) \/ (Edge(n) <= b /\ b < Edge(n + 1))
  <2>1. b \in Nat /\ Edge(a) \in Nat /\ Edge(n + 1) \in Nat /\ Edge(a) <= Edge(n) /\ Edge(n) < Edge(n + 1)
    <3>1. a \in 0 .. NrChunks /\ n \in 0 .. NrChunks /\ a < n
      BY <1>1, <1>6
    <3>2. Edge(a) \in 0 .. DevSize /\ Edge(n + 1) \in 0 .. DevSize /\ Edge(a) < Edge(n)
      BY <1>1, <3>1, EdgeFacts
    <3> QED
      BY <1>1, <3>2, SizesAssumption DEF Sectors
  <2>2. (r.offset <= b /\ b < EndOf(r)) <=>
        \/ rs[l].offset <= b /\ b < EndOf(rs[l])
        \/ Edge(n) <= b /\ b < Edge(n + 1)
    BY <1>1, <1>2, <1>4, <1>6, <2>1
  <2> QED
    BY <1>2, <1>3, <2>2 DEF CoveredBy
<1>10. Exact(new, n + 1, since)
  BY <1>9, ExactStep DEF LoopInv
<1> QED
  BY <1>3, <1>5, <1>7, <1>8, <1>10 DEF LoopInv

\* An iteration of the loop keeps its invariant.
LEMMA LoopStep ==
  ASSUME TypeOK, NEW since \in Nat, NEW n \in 0 .. NrChunks - 1, NEW rs, LoopInv(rs, n, since)
  PROVE  LoopInv(Visit(rs, n, since), n + 1, since)
<1>1. eras[n + 1] \in Nat /\ Edge(n) = n * Granularity
  BY ChunkCount, EdgeFacts, EraAssumption DEF TypeOK
<1>2. CASE eras[n + 1] <= since
  BY <1>2, SkipChunk DEF Visit
<1>3. CASE ~ (eras[n + 1] <= since)
  <2>1. eras[n + 1] > since
    BY <1>1, <1>3
  <2>2. Visit(rs, n, since) = AppendChunk(rs, n)
    BY <1>3 DEF Visit
  <2>3. CASE Len(rs) > 0 /\ EndOf(rs[Len(rs)]) = Edge(n)
    <3>1. AppendChunk(rs, n) = [rs EXCEPT ![Len(rs)].len = @ + ChunkLen(n)]
      BY <1>1, <2>3 DEF AppendChunk, EndOf
    <3>2. LoopInv([rs EXCEPT ![Len(rs)].len = @ + ChunkLen(n)], n + 1, since)
      BY <2>1, <2>3, ExtendRange
    <3> QED
      BY <2>2, <3>1, <3>2
  <2>4. CASE ~ (Len(rs) > 0 /\ EndOf(rs[Len(rs)]) = Edge(n))
    <3>1. AppendChunk(rs, n) = Append(rs, [offset |-> Edge(n), len |-> ChunkLen(n)])
      BY <1>1, <2>4 DEF AppendChunk, EndOf
    <3> QED
      BY <2>1, <2>2, <2>4, <3>1, PushChunk
  <2> QED
    BY <2>3, <2>4
<1> QED
  BY <1>2, <1>3

-----------------------------------------------------------------------------
(* The result of ranges_since.                                             *)

\* The recursive definition has a solution, so RangesUpTo satisfies it.
LEMMA LoopUnfolds ==
  ASSUME NEW since
  PROVE  RangesUpTo(since) =
           [n \in 0 .. NrChunks |-> IF n = 0 THEN <<>> ELSE Visit(RangesUpTo(since)[n - 1], n - 1, since)]
<1> DEFINE Solves(f, k) ==
             f = [n \in 0 .. k |-> IF n = 0 THEN <<>> ELSE Visit(f[n - 1], n - 1, since)]
           Unsolved == {k \in 0 .. NrChunks : ~ \E f : Solves(f, k)}
<1>1. NrChunks \in Nat
  BY ChunkCount
<1>2. Unsolved = {}
  <2> SUFFICES ASSUME Unsolved # {} PROVE FALSE
    OBVIOUS
  <2>1. PICK x \in Unsolved : \A y \in Unsolved : x <= y
    <3>1. Unsolved \in SUBSET Nat
      OBVIOUS
    <3> HIDE DEF Unsolved
    <3> QED
      BY <3>1, LeastNatural
  <2>2. x \in 0 .. NrChunks /\ ~ \E f : Solves(f, x)
    BY <2>1
  <2>3. CASE x = 0
    <3> DEFINE z == [n \in 0 .. 0 |-> <<>>]
    <3>1. Solves(z, 0)
      <4>1. \A n \in 0 .. 0 : n = 0
        OBVIOUS
      <4> QED
        BY <4>1
    <3> HIDE DEF Solves, z
    <3> QED
      BY <2>2, <2>3, <3>1
  <2>4. CASE x # 0
    <3>1. x - 1 \in 0 .. NrChunks /\ ~ (x <= x - 1)
      BY <1>1, <2>2, <2>4
    <3>2. x - 1 \notin Unsolved
      BY <2>1, <3>1
    <3>3. PICK f : Solves(f, x - 1)
      BY <3>1, <3>2
    <3> DEFINE step == Visit(f[x - 1], x - 1, since)
               g == [n \in 0 .. x |-> IF n = x THEN step ELSE f[n]]
    <3>4. ASSUME NEW n \in 0 .. x
          PROVE  g[n] = IF n = 0 THEN <<>> ELSE Visit(g[n - 1], n - 1, since)
      <4>1. CASE n = x
        <5>1. n # 0 /\ n - 1 \in 0 .. x /\ n - 1 # x
          BY <1>1, <2>2, <2>4, <4>1
        <5>2. g[n - 1] = f[n - 1]
          BY <5>1
        <5>3. g[n] = step
          BY <4>1
        <5> QED
          BY <4>1, <5>1, <5>2, <5>3
      <4>2. CASE n # x
        <5>1. n \in 0 .. x - 1
          BY <1>1, <2>2, <4>2
        <5>2. g[n] = f[n]
          BY <4>2
        <5>3. f[n] = IF n = 0 THEN <<>> ELSE Visit(f[n - 1], n - 1, since)
          BY <3>3, <5>1
        <5>4. n # 0 => g[n - 1] = f[n - 1]
          <6>1. n # 0 => n - 1 \in 0 .. x /\ n - 1 # x
            BY <1>1, <2>2, <5>1
          <6> QED
            BY <6>1
        <5> HIDE DEF g
        <5> QED
          BY <5>2, <5>3, <5>4
      <4> QED
        BY <4>1, <4>2
    <3>5. g = [n \in 0 .. x |-> g[n]]
      OBVIOUS
    <3>6. Solves(g, x)
      <4> HIDE DEF g
      <4> QED
        BY <3>4, <3>5
    <3> HIDE DEF Solves, g
    <3> QED
      BY <2>2, <3>6
  <2> QED
    BY <2>3, <2>4
<1>3. \E f : Solves(f, NrChunks)
  <2> HIDE DEF Solves
  <2>1. NrChunks \in 0 .. NrChunks
    BY <1>1
  <2> QED
    BY <1>2, <2>1
<1> QED
  BY <1>3, Zenon DEF RangesUpTo

\* ranges_since returns the changed chunks: merged, apart and exact.
LEMMA RangesExact ==
  ASSUME TypeOK, NEW since \in Nat
  PROVE  LoopInv(RangesSince(since), NrChunks, since)
<1> DEFINE f == RangesUpTo(since)
           Broken == {k \in 0 .. NrChunks : ~ LoopInv(f[k], k, since)}
<1>1. NrChunks \in Nat
  BY ChunkCount
<1>2. \A n \in 0 .. NrChunks : f[n] = IF n = 0 THEN <<>> ELSE Visit(f[n - 1], n - 1, since)
  <2>1. f = [n \in 0 .. NrChunks |-> IF n = 0 THEN <<>> ELSE Visit(f[n - 1], n - 1, since)]
    BY LoopUnfolds
  <2> HIDE DEF f
  <2> QED
    BY <2>1
<1> HIDE DEF f
<1>3. Broken = {}
  <2> SUFFICES ASSUME Broken # {} PROVE FALSE
    OBVIOUS
  <2>1. PICK x \in Broken : \A y \in Broken : x <= y
    <3>1. Broken \in SUBSET Nat
      OBVIOUS
    <3> HIDE DEF Broken
    <3> QED
      BY <3>1, LeastNatural
  <2>2. x \in 0 .. NrChunks /\ ~ LoopInv(f[x], x, since)
    BY <2>1
  <2>3. CASE x = 0
    <3>1. f[0] = <<>>
      BY <1>1, <1>2
    <3>2. LoopInv(<<>>, 0, since)
      <4>1. ASSUME NEW b \in Sectors
            PROVE  ~ (b \div Granularity < 0)
        BY EdgeFacts, ChunkCount
      <4>2. <<>> \in Seq(DirtyRange) /\ Len(<<>>) = 0
        OBVIOUS
      <4> QED
        BY <4>1, <4>2 DEF LoopInv, WholeChunks, Apart, Exact, CoveredBy
    <3> QED
      BY <2>2, <2>3, <3>1, <3>2
  <2>4. CASE x # 0
    <3>1. x - 1 \in 0 .. NrChunks - 1 /\ x - 1 \in 0 .. NrChunks /\ ~ (x <= x - 1) /\ (x - 1) + 1 = x
      BY <1>1, <2>2, <2>4
    <3>2. LoopInv(f[x - 1], x - 1, since)
      BY <2>1, <3>1
    <3>3. LoopInv(Visit(f[x - 1], x - 1, since), (x - 1) + 1, since)
      BY <3>1, <3>2, LoopStep
    <3> QED
      BY <1>2, <2>2, <2>4, <3>1, <3>3
  <2> QED
    BY <2>3, <2>4
<1> QED
  BY <1>1, <1>3 DEF RangesSince, f

\* The bytes reported are those of the chunks newer than `since`.
LEMMA CoveredExact ==
  ASSUME TypeOK, NEW since \in Nat, NEW b \in Sectors
  PROVE  b \in Covered(since) <=> eras[(b \div Granularity) + 1] > since
<1> DEFINE rs == RangesSince(since)
<1>1. Exact(rs, NrChunks, since)
  BY RangesExact DEF LoopInv
<1>2. b \div Granularity < NrChunks
  BY EdgeFacts, ChunkCount
<1>3. b \in Covered(since) <=> CoveredBy(rs, b)
  BY DEF Covered, CoveredBy, EndOf
<1> HIDE DEF rs
<1> QED
  BY <1>1, <1>2, <1>3 DEF Exact

-----------------------------------------------------------------------------
(* The inductive invariant.                                                *)

\* The counter is the count of eras, modulo its width.
CounterWraps == currentEra = epoch % EraCycle

\* A written sector's chunk has at least the stamp of its last write.
StampsKept ==
  \A b \in Sectors : lastWrite[b] % EraCycle <= eras[(b \div Granularity) + 1]

\* Until the counter wraps, a stamp is no newer than a write in its chunk.
StampsEarned ==
  epoch < EraCycle =>
    \A i \in 1 .. NrChunks :
      eras[i] > 0 => \E d \in Sectors : d \div Granularity = i - 1 /\ eras[i] <= lastWrite[d]

IInv == TypeOK /\ CounterWraps /\ StampsKept /\ StampsEarned

\* A fresh map satisfies the invariant.
LEMMA InitInv ==
  Init => IInv
<1> SUFFICES ASSUME Init PROVE IInv
  OBVIOUS
<1> USE EraAssumption, SizesAssumption DEF Init
<1>1. TypeOK
  BY ChunkCount DEF TypeOK
<1>2. 1 % EraCycle = 1 /\ 0 % EraCycle = 0
  <2>1. 0 * EraCycle = 0 /\ EraCycle \in Nat \ {0} /\ 1 < EraCycle
    OBVIOUS
  <2> QED
    BY <2>1, DivUnique
<1>3. StampsKept
  <2> SUFFICES ASSUME NEW b \in Sectors
               PROVE  lastWrite[b] % EraCycle <= eras[(b \div Granularity) + 1]
    BY DEF StampsKept
  <2> DEFINE q == b \div Granularity
  <2>0. q \in 0 .. NrChunks - 1 /\ NrChunks \in Nat
    BY EdgeFacts, ChunkCount
  <2> HIDE DEF q
  <2>1. q + 1 \in 1 .. NrChunks
    BY <2>0
  <2>2. eras[q + 1] = 0 /\ lastWrite[b] = 0
    BY <2>1
  <2> QED
    BY <1>2, <2>2 DEF q
<1>4. StampsEarned
  BY DEF StampsEarned
<1> QED
  BY <1>1, <1>2, <1>3, <1>4 DEF IInv, CounterWraps

\* mark_write stamps the chunk of every byte of its range.
LEMMA StampsAll ==
  ASSUME NEW offset \in 0 .. DevSize, NEW len \in 0 .. DevSize, offset + len <= DevSize,
         NEW b \in Sectors, b \in offset .. (offset + len) - 1
  PROVE  b \div Granularity \in Stamped(offset, len)
<1> USE SizesAssumption
<1>1. /\ offset \in Nat /\ b \in Nat /\ (offset + len) - 1 \in Nat
      /\ offset <= b /\ b <= (offset + len) - 1 /\ len # 0
  BY DEF Sectors
<1>2. b \div Granularity \in 0 .. NrChunks - 1
  BY EdgeFacts
<1>3. /\ MarkFirst(offset, len) <= b \div Granularity
      /\ b \div Granularity <= MarkLast(offset, len)
  <2>1. (offset + len) - 1 = offset + len - 1
    BY <1>1
  <2> QED
    BY <1>1, <2>1, DivMono DEF MarkFirst, MarkLast
<1>4. MarkFirst(offset, len) \in Nat /\ NrChunks \in Nat
  BY <1>1, DivMod, ChunkCount DEF MarkFirst
<1>5. ~ (MarkFirst(offset, len) >= NrChunks)
  BY <1>2, <1>3, <1>4
<1> QED
  BY <1>1, <1>2, <1>3, <1>5 DEF Stamped

\* Each chunk mark_write stamps holds a byte of its range.
LEMMA StampsOnly ==
  ASSUME NEW offset \in 0 .. DevSize, NEW len \in 0 .. DevSize, offset + len <= DevSize,
         NEW c \in Stamped(offset, len)
  PROVE  \E d \in Sectors : d \in offset .. (offset + len) - 1 /\ d \div Granularity = c
<1> USE SizesAssumption
<1> DEFINE last == (offset + len) - 1
<1>1. /\ len # 0 /\ c \in 0 .. NrChunks - 1 /\ c \in Nat
      /\ MarkFirst(offset, len) <= c /\ c <= MarkLast(offset, len)
  BY ChunkCount DEF Stamped
<1>2. offset \in Nat /\ last \in Nat /\ offset <= last /\ last < DevSize
  BY <1>1
<1> DEFINE p == offset \div Granularity  q == last \div Granularity
<1>3. p <= c /\ c <= q
  BY <1>1, <1>2 DEF MarkFirst, MarkLast
<1>4. /\ p \in Nat /\ p * Granularity \in Nat /\ p * Granularity <= offset
      /\ offset < (p * Granularity) + Granularity
      /\ q \in Nat /\ q * Granularity \in Nat /\ q * Granularity <= last
  <2>1. /\ p \in Nat /\ offset % Granularity \in 0 .. Granularity - 1
        /\ offset = (p * Granularity) + (offset % Granularity)
    BY <1>2, DivMod
  <2>2. /\ q \in Nat /\ last % Granularity \in 0 .. Granularity - 1
        /\ last = (q * Granularity) + (last % Granularity)
    BY <1>2, DivMod
  <2> HIDE DEF p, q, last
  <2>3. p * Granularity \in Nat /\ q * Granularity \in Nat
    BY <2>1, <2>2
  <2> QED
    BY <1>2, <2>1, <2>2, <2>3
<1> HIDE DEF p, q, last
<1>5. c * Granularity \in Nat /\ c * Granularity <= last
  <2>1. CASE c < q
    <3>1. c * Granularity \in Nat /\ (c * Granularity) + Granularity <= q * Granularity
      BY <1>1, <1>4, <2>1, MulMono
    <3> QED
      BY <1>2, <1>4, <3>1
  <2>2. CASE c = q
    BY <1>4, <2>2
  <2> QED
    BY <1>1, <1>3, <1>4, <2>1, <2>2
<1>6. offset < (c * Granularity) + Granularity
  <2>1. CASE p < c
    <3>1. (p * Granularity) + Granularity <= c * Granularity
      BY <1>1, <1>4, <2>1, MulMono
    <3> QED
      BY <1>2, <1>4, <1>5, <3>1
  <2>2. CASE p = c
    BY <1>4, <2>2
  <2> QED
    BY <1>1, <1>3, <1>4, <2>1, <2>2
<1> DEFINE d == IF offset <= c * Granularity THEN c * Granularity ELSE offset
<1>7. d \in Nat /\ c * Granularity <= d /\ d < (c * Granularity) + Granularity /\ offset <= d /\ d <= last
  BY <1>2, <1>5, <1>6
<1> HIDE DEF d
<1>8. d \div Granularity = c
  BY <1>1, <1>7, DivUnique
<1>9. d \in Sectors /\ d \in offset .. last
  BY <1>2, <1>7 DEF Sectors
<1> QED
  BY <1>8, <1>9 DEF last

\* A write keeps the invariant.
LEMMA MarkWriteInv ==
  ASSUME IInv, NEW offset \in 0 .. DevSize, NEW len \in 0 .. DevSize, MarkWrite(offset, len)
  PROVE  IInv'
<1> USE SizesAssumption, EraAssumption
<1>1. /\ TypeOK /\ currentEra' = currentEra /\ epoch' = epoch /\ NrChunks \in Nat
      /\ offset + len <= DevSize /\ (offset + len) - 1 = offset + len - 1
  BY ChunkCount DEF IInv, MarkWrite
<1>2. \A i \in 1 .. NrChunks :
        /\ eras[i] \in Nat /\ eras'[i] \in Nat
        /\ eras[i] <= eras'[i]
        /\ i - 1 \in Stamped(offset, len) => currentEra <= eras'[i]
        /\ eras'[i] # eras[i] => i - 1 \in Stamped(offset, len) /\ eras'[i] = currentEra
  BY <1>1 DEF MarkWrite, TypeOK
<1>3. \A b \in Sectors :
        /\ lastWrite[b] \in 0 .. epoch /\ lastWrite'[b] \in 0 .. epoch
        /\ b \in offset .. (offset + len) - 1 => lastWrite'[b] = epoch
        /\ b \notin offset .. (offset + len) - 1 => lastWrite'[b] = lastWrite[b]
  BY <1>1 DEF MarkWrite, TypeOK
<1>4. TypeOK'
  BY <1>1 DEF MarkWrite, TypeOK
<1>5. CounterWraps'
  BY <1>1 DEF IInv, CounterWraps
<1>6. StampsKept'
  <2> SUFFICES ASSUME NEW b \in Sectors
               PROVE  lastWrite'[b] % EraCycle <= eras'[(b \div Granularity) + 1]
    BY DEF StampsKept
  <2> DEFINE q == b \div Granularity
  <2>1. q \in 0 .. NrChunks - 1 /\ q + 1 \in 1 .. NrChunks /\ (q + 1) - 1 = q
    BY <1>1, EdgeFacts
  <2>2. lastWrite[b] % EraCycle <= eras[q + 1]
    BY DEF IInv, StampsKept
  <2>3. b \in offset .. (offset + len) - 1 => q \in Stamped(offset, len)
    BY <1>1, StampsAll
  <2> HIDE DEF q
  <2>4. CASE b \in offset .. (offset + len) - 1
    <3>1. lastWrite'[b] % EraCycle = currentEra
      BY <1>3, <2>4 DEF IInv, CounterWraps
    <3>2. currentEra <= eras'[q + 1]
      BY <1>2, <2>1, <2>3, <2>4
    <3> QED
      BY <3>1, <3>2 DEF q
  <2>5. CASE b \notin offset .. (offset + len) - 1
    <3>1. lastWrite'[b] = lastWrite[b]
      BY <1>3, <2>5
    <3>2. lastWrite[b] % EraCycle \in Nat
      <4>1. lastWrite[b] \in Nat /\ EraCycle \in Nat \ {0}
        BY <1>1, <1>3 DEF TypeOK
      <4> QED
        BY <4>1, DivMod
    <3>3. lastWrite[b] % EraCycle <= eras'[q + 1]
      BY <1>2, <2>1, <2>2, <3>2
    <3> QED
      BY <3>1, <3>3 DEF q
  <2> QED
    BY <2>4, <2>5
<1>7. StampsEarned'
  <2> SUFFICES ASSUME epoch < EraCycle, NEW i \in 1 .. NrChunks, eras'[i] > 0
               PROVE  \E d \in Sectors : d \div Granularity = i - 1 /\ eras'[i] <= lastWrite'[d]
    BY <1>1 DEF StampsEarned
  <2>1. epoch \in Nat /\ currentEra = epoch
    <3>1. epoch \in Nat /\ 0 * EraCycle = 0 /\ EraCycle \in Nat \ {0}
      BY <1>1 DEF TypeOK
    <3>2. 0 * EraCycle <= epoch /\ epoch < (0 * EraCycle) + EraCycle
      BY <3>1
    <3>3. epoch % EraCycle = epoch - (0 * EraCycle)
      BY <3>1, <3>2, DivUnique
    <3> QED
      BY <3>1, <3>3 DEF IInv, CounterWraps
  <2>2. CASE eras'[i] = eras[i]
    <3>1. PICK d \in Sectors : d \div Granularity = i - 1 /\ eras[i] <= lastWrite[d]
      BY <2>2 DEF IInv, StampsEarned
    <3>2. eras'[i] <= lastWrite'[d]
      BY <1>2, <1>3, <2>1, <2>2, <3>1
    <3> QED
      BY <3>1, <3>2
  <2>3. CASE eras'[i] # eras[i]
    <3>1. i - 1 \in Stamped(offset, len) /\ eras'[i] = epoch
      BY <1>2, <2>1, <2>3
    <3>2. PICK d \in Sectors : d \in offset .. (offset + len) - 1 /\ d \div Granularity = i - 1
      BY <1>1, <3>1, StampsOnly
    <3>3. lastWrite'[d] = epoch
      BY <1>3, <3>2
    <3> QED
      BY <2>1, <3>1, <3>2, <3>3
  <2> QED
    BY <2>2, <2>3
<1> QED
  BY <1>4, <1>5, <1>6, <1>7 DEF IInv

\* A checkpoint keeps the invariant, at the wrap of the counter too.
LEMMA CheckpointInv ==
  ASSUME IInv, Checkpoint
  PROVE  IInv'
<1> USE EraAssumption
<1>1. /\ epoch \in Nat /\ epoch <= MaxClosed /\ epoch' = epoch + 1
      /\ eras' = eras /\ lastWrite' = lastWrite
      /\ currentEra' = ((epoch % EraCycle) + 1) % EraCycle
  BY DEF IInv, TypeOK, CounterWraps, Checkpoint
<1>2. currentEra' = (epoch + 1) % EraCycle
  BY <1>1, ModNext
<1>3. CounterWraps'
  BY <1>1, <1>2 DEF CounterWraps
<1>4. TypeOK'
  <2>1. currentEra' \in 0 .. EraCycle - 1
    <3>1. epoch + 1 \in Nat /\ EraCycle \in Nat \ {0}
      BY <1>1
    <3> QED
      BY <1>2, <3>1, DivMod
  <2> QED
    BY <1>1, <2>1 DEF IInv, TypeOK
<1>5. StampsKept'
  BY <1>1 DEF IInv, StampsKept
<1>6. StampsEarned'
  BY <1>1 DEF IInv, StampsEarned
<1> QED
  BY <1>3, <1>4, <1>5, <1>6 DEF IInv

\* Every step keeps the invariant.
LEMMA NextInv ==
  IInv /\ [Next]_vars => IInv'
<1> SUFFICES ASSUME IInv, [Next]_vars PROVE IInv'
  OBVIOUS
<1>1. CASE \E offset \in 0 .. DevSize, len \in 0 .. DevSize : MarkWrite(offset, len)
  BY <1>1, MarkWriteInv
<1>2. CASE Checkpoint
  BY <1>2, CheckpointInv
<1>3. CASE UNCHANGED vars
  BY <1>3 DEF vars, IInv, TypeOK, CounterWraps, StampsKept, StampsEarned
<1> QED
  BY <1>1, <1>2, <1>3 DEF Next

-----------------------------------------------------------------------------
(* The theorems.                                                           *)

\* The inductive invariant holds in every reachable state.
THEOREM Invariance == Spec => []IInv
<1> QED
  BY InitInv, NextInv, PTL DEF Spec

\* Era values fit their width in every reachable state, however many
\* checkpoints there were and whatever the width (checkpoint, mark_write).
THEOREM TypeCorrect == Spec => []TypeOK
<1>1. IInv => TypeOK
  BY DEF IInv
<1> QED
  BY <1>1, Invariance, PTL

\* ranges_since never leaves out a sector changed after an accepted cursor that
\* is younger than a cycle of the counter: for every device and chunk size, and
\* however often the counter has wrapped.
THEOREM NothingMissed == Spec => []NoSectorMissed
<1>1. IInv => NoSectorMissed
  <2> SUFFICES ASSUME IInv, NEW c \in Cursors, NEW b \in Sectors, lastWrite[b] > c
               PROVE  b \in Covered(c % EraCycle)
    BY DEF NoSectorMissed
  <2> USE EraAssumption
  <2>1. /\ TypeOK /\ epoch \in Nat /\ c \in Nat /\ c < epoch /\ epoch - c <= EraCycle
        /\ lastWrite[b] \in Nat /\ lastWrite[b] <= epoch /\ c < lastWrite[b]
        /\ c % EraCycle < epoch % EraCycle
    BY DEF IInv, TypeOK, Cursors, Accepted, CounterWraps
  <2>2. c % EraCycle < lastWrite[b] % EraCycle
    BY <2>1, SameCycle
  <2> DEFINE q == b \div Granularity
  <2>3. lastWrite[b] % EraCycle <= eras[q + 1]
    BY DEF IInv, StampsKept
  <2>4. c % EraCycle \in Nat /\ lastWrite[b] % EraCycle \in Nat
    <3>1. EraCycle \in Nat \ {0}
      OBVIOUS
    <3> QED
      BY <2>1, <3>1, DivMod
  <2>5. eras[q + 1] \in Nat
    <3>1. q \in 0 .. NrChunks - 1 /\ NrChunks \in Nat
      BY EdgeFacts, ChunkCount
    <3> HIDE DEF q
    <3> QED
      BY <2>1, <3>1 DEF TypeOK
  <2>6. eras[q + 1] > c % EraCycle
    BY <2>2, <2>3, <2>4, <2>5
  <2> QED
    BY <2>1, <2>4, <2>6, CoveredExact
<1> QED
  BY <1>1, Invariance, PTL

\* Until the counter wraps, ranges_since reports no chunk in which no sector
\* changed after `since`: mark_write stamps no chunk outside its range.
THEOREM NothingExtra == Spec => []OnlyChangedChunks
<1>1. IInv => OnlyChangedChunks
  <2> SUFFICES ASSUME IInv, epoch < EraCycle, NEW since \in 0 .. currentEra, NEW b \in Covered(since)
               PROVE  \E d \in Sectors : d \div Granularity = b \div Granularity /\ lastWrite[d] > since
    BY DEF OnlyChangedChunks
  <2> DEFINE q == b \div Granularity
  <2>1. TypeOK /\ since \in Nat /\ b \in Sectors
    BY EraAssumption DEF IInv, TypeOK, Covered
  <2>2. eras[q + 1] > since
    BY <2>1, CoveredExact
  <2>3. q \in 0 .. NrChunks - 1 /\ NrChunks \in Nat
    BY <2>1, EdgeFacts, ChunkCount
  <2> HIDE DEF q
  <2>4. q + 1 \in 1 .. NrChunks /\ (q + 1) - 1 = q /\ eras[q + 1] \in Nat
    BY <2>1, <2>3, EraAssumption DEF TypeOK
  <2>5. eras[q + 1] > 0
    BY <2>1, <2>2, <2>4
  <2>6. PICK d \in Sectors : d \div Granularity = q /\ eras[q + 1] <= lastWrite[d]
    BY <2>4, <2>5 DEF IInv, StampsEarned
  <2>7. lastWrite[d] \in Nat
    BY <2>1 DEF TypeOK
  <2>8. lastWrite[d] > since
    BY <2>1, <2>2, <2>4, <2>6, <2>7
  <2> QED
    BY <2>6, <2>8 DEF q
<1> QED
  BY <1>1, Invariance, PTL

\* The ranges of ranges_since ascend with gaps between them, are chunk-aligned
\* except at the end of the device, and lie inside it.
THEOREM Canonical == Spec => []RangesCanonical
<1>1. TypeOK => RangesCanonical
  <2> SUFFICES ASSUME TypeOK, NEW since \in 0 .. EraCycle - 1, NEW k \in 1 .. Len(RangesSince(since))
               PROVE  LET rs == RangesSince(since)
                          End(i) == rs[i].offset + rs[i].len
                      IN  /\ rs[k].len > 0
                          /\ rs[k].offset % Granularity = 0
                          /\ End(k) % Granularity = 0 \/ End(k) = DevSize
                          /\ End(k) <= DevSize
                          /\ k < Len(rs) => End(k) < rs[k + 1].offset
    BY DEF RangesCanonical
  <2> USE SizesAssumption
  <2> DEFINE rs == RangesSince(since)
  <2>1. LoopInv(rs, NrChunks, since)
    BY RangesExact, EraAssumption
  <2> HIDE DEF rs
  <2>2. PICK a \in 0 .. NrChunks - 1, m \in 1 .. NrChunks :
          a < m /\ rs[k].offset = Edge(a) /\ rs[k].offset + rs[k].len = Edge(m)
    BY <2>1 DEF LoopInv, WholeChunks, EndOf, rs
  <2>3. rs[k].offset \in Nat /\ rs[k].len \in Nat
    <3>1. rs[k] \in DirtyRange
      BY <2>1 DEF LoopInv, rs
    <3> QED
      BY <3>1 DEF DirtyRange
  <2>4. /\ NrChunks \in Nat /\ a \in 0 .. NrChunks /\ m \in 0 .. NrChunks
        /\ Edge(a) < Edge(m) /\ Edge(m) \in 0 .. DevSize
    <3>1. NrChunks \in Nat /\ a \in 0 .. NrChunks /\ m \in 0 .. NrChunks
      BY <2>2, ChunkCount
    <3> QED
      BY <2>2, <3>1, EdgeFacts
  <2>5. \A n \in 0 .. NrChunks - 1 : Edge(n) % Granularity = 0
    <3> SUFFICES ASSUME NEW n \in 0 .. NrChunks - 1 PROVE Edge(n) % Granularity = 0
      OBVIOUS
    <3>1. n \in Nat /\ n * Granularity \in Nat /\ Edge(n) = n * Granularity
      BY ChunkCount, EdgeFacts
    <3>2. n * Granularity <= n * Granularity /\ n * Granularity < (n * Granularity) + Granularity
      BY <3>1
    <3>3. (n * Granularity) % Granularity = (n * Granularity) - (n * Granularity)
      BY <3>1, <3>2, DivUnique
    <3> QED
      BY <3>1, <3>3
  <2>6. Edge(m) % Granularity = 0 \/ Edge(m) = DevSize
    <3>1. m \in 0 .. NrChunks - 1 \/ m = NrChunks
      BY <2>4
    <3> QED
      BY <2>5, <3>1, EdgeFacts
  <2>7. rs[k].len > 0
    BY <2>2, <2>3, <2>4
  <2>8. rs[k].offset % Granularity = 0
    BY <2>2, <2>5
  <2>9. k < Len(rs) => rs[k].offset + rs[k].len < rs[k + 1].offset
    BY <2>1 DEF LoopInv, Apart, EndOf, rs
  <2>10. rs[k].offset + rs[k].len <= DevSize
    BY <2>2, <2>4
  <2> QED
    BY <2>2, <2>6, <2>7, <2>8, <2>9, <2>10 DEF rs
<1> QED
  BY <1>1, TypeCorrect, PTL

=============================================================================
