--------------------------- MODULE FaultDiskProofs ---------------------------
(***************************************************************************)
(* Proofs about the disk of the fault device: what overlaying entries in   *)
(* arrival order computes, what a write-back past the capacity leaves, and *)
(* from these the contract of FaultDiskContract, for any device size,      *)
(* capacity and set of values.                                             *)
(*                                                                         *)
(* The library's induction theorems have an operator as a parameter; what  *)
(* is needed of them here is that a nonempty set of naturals has a least   *)
(* element (LeastExists), which follows from WFMin, which has none.        *)
(***************************************************************************)
EXTENDS FaultDiskContract, FiniteSetTheorems, SequenceTheorems, TLAPS

-----------------------------------------------------------------------------
(* Bounds of sets of naturals.                                             *)

Below == {mn \in Nat \X Nat : mn[1] < mn[2]}

\* A nonempty set of natural numbers has a least element.
LEMMA LeastExists ==
  ASSUME NEW S \in SUBSET Nat, S # {}
  PROVE  \E x \in S : \A y \in S : x <= y
<1>1. IsWellFoundedOn(Below, Nat)
  BY NatLessThanWellFounded, SMT DEF OpToRel, Below
<1>2. PICK x \in S : \A y \in S : ~ (<<y, x>> \in Below)
  BY <1>1, WFMin
<1>3. \A y \in S : ~ (y < x)
  BY <1>2 DEF Below
<1> QED
  BY <1>3

\* The maximum of a nonempty set of indices is one of them and bounds them.
LEMMA MaxIndex ==
  ASSUME NEW n \in Nat, NEW S \in SUBSET (1 .. n), S # {}
  PROVE  Max(S) \in S /\ \A y \in S : y <= Max(S)
<1> DEFINE Bounds == {m \in Nat : \A y \in S : y <= m}
<1>1. PICK x \in Bounds : \A m \in Bounds : x <= m
  <2>1. n \in Bounds
    OBVIOUS
  <2> QED
    BY <2>1, LeastExists
<1>2. x \in S
  <2>1. CASE x = 0
    <3>1. PICK y \in S : TRUE
      OBVIOUS
    <3> QED
      BY <2>1, <3>1
  <2>2. CASE x > 0 /\ x \notin S
    <3>1. x - 1 \in Bounds
      BY <2>2
    <3> QED
      BY <1>1, <2>2, <3>1
  <2> QED
    BY <2>1, <2>2
<1>3. \E i \in S : \A y \in S : i >= y
  BY <1>2
<1> QED
  BY <1>3 DEF Max

-----------------------------------------------------------------------------
(* Overlays.                                                               *)

\* A block no entry covers keeps its content.
LEMMA OverlayNone ==
  ASSUME NEW image, NEW s \in Seq(Requests), NEW cover, NEW b \in Blocks,
         \A i \in 1 .. Len(s) : b \notin cover[i]
  PROVE  Overlay(image, s, cover)[b] = image[b]
<1>1. DOMAIN s = 1 .. Len(s)
  OBVIOUS
<1> QED
  BY <1>1 DEF Overlay

\* The last entry that covers a block determines its content.
LEMMA OverlayLast ==
  ASSUME NEW image, NEW s \in Seq(Requests), NEW cover, NEW b \in Blocks,
         NEW i \in 1 .. Len(s), b \in cover[i],
         \A j \in i + 1 .. Len(s) : b \notin cover[j]
  PROVE  Overlay(image, s, cover)[b] = s[i].val
<1> DEFINE on == {j \in DOMAIN s : b \in cover[j]}
<1>1. DOMAIN s = 1 .. Len(s) /\ Len(s) \in Nat
  OBVIOUS
<1>2. on \in SUBSET (1 .. Len(s)) /\ i \in on
  BY <1>1
<1>3. Max(on) \in on /\ \A j \in on : j <= Max(on)
  BY <1>1, <1>2, MaxIndex
<1>4. Max(on) = i
  <2>1. Max(on) \in 1 .. Len(s) /\ b \in cover[Max(on)] /\ i <= Max(on)
    BY <1>1, <1>2, <1>3
  <2> QED
    BY <1>1, <2>1
<1> QED
  BY <1>2, <1>4 DEF Overlay

\* One of the two cases holds.
LEMMA LastCover ==
  ASSUME NEW s \in Seq(Requests), NEW cover, NEW b,
         \E i \in 1 .. Len(s) : b \in cover[i]
  PROVE  \E i \in 1 .. Len(s) : /\ b \in cover[i]
                                /\ \A j \in i + 1 .. Len(s) : b \notin cover[j]
<1> DEFINE on == {j \in 1 .. Len(s) : b \in cover[j]}
<1>1. Len(s) \in Nat
  OBVIOUS
<1>2. Max(on) \in on /\ \A j \in on : j <= Max(on)
  BY <1>1, MaxIndex
<1>3. Max(on) \in 1 .. Len(s) /\ b \in cover[Max(on)]
  BY <1>2
<1>4. \A j \in Max(on) + 1 .. Len(s) : b \notin cover[j]
  BY <1>1, <1>2, <1>3
<1> QED
  BY <1>3, <1>4

\* The same for whole entries: what applying a sequence of them leaves.
LEMMA ApplyNone ==
  ASSUME NEW image, NEW s \in Seq(Requests), NEW b \in Blocks,
         \A i \in 1 .. Len(s) : b \notin Extent(s[i])
  PROVE  ApplyAll(image, s)[b] = image[b]
<1> DEFINE cover == [i \in DOMAIN s |-> Extent(s[i])]
<1>1. \A i \in 1 .. Len(s) : b \notin cover[i]
  OBVIOUS
<1> HIDE DEF cover
<1>2. Overlay(image, s, cover)[b] = image[b]
  BY <1>1, OverlayNone
<1> QED
  BY <1>2 DEF ApplyAll, cover

\* What applying a sequence leaves on a block that one of its entries covers.
LEMMA ApplyLast ==
  ASSUME NEW image, NEW s \in Seq(Requests), NEW b \in Blocks,
         NEW i \in 1 .. Len(s), b \in Extent(s[i]),
         \A j \in i + 1 .. Len(s) : b \notin Extent(s[j])
  PROVE  ApplyAll(image, s)[b] = s[i].val
<1> DEFINE cover == [j \in DOMAIN s |-> Extent(s[j])]
<1>1. b \in cover[i] /\ \A j \in i + 1 .. Len(s) : b \notin cover[j]
  OBVIOUS
<1> HIDE DEF cover
<1>2. Overlay(image, s, cover)[b] = s[i].val
  BY <1>1, OverlayLast
<1> QED
  BY <1>2 DEF ApplyAll, cover

\* Of the entries that cover a block one is the last.
LEMMA LastEntry ==
  ASSUME NEW s \in Seq(Requests), NEW b,
         \E i \in 1 .. Len(s) : b \in Extent(s[i])
  PROVE  \E i \in 1 .. Len(s) : /\ b \in Extent(s[i])
                                /\ \A j \in i + 1 .. Len(s) : b \notin Extent(s[j])
<1> DEFINE cover == [j \in DOMAIN s |-> Extent(s[j])]
<1>1. \A j \in 1 .. Len(s) : cover[j] = Extent(s[j])
  OBVIOUS
<1> HIDE DEF cover
<1>0. \E i \in 1 .. Len(s) : b \in cover[i]
  BY <1>1
<1>2. PICK i \in 1 .. Len(s) : b \in cover[i] /\ \A j \in i + 1 .. Len(s) : b \notin cover[j]
  BY <1>0, LastCover
<1>3. \A j \in i + 1 .. Len(s) : j \in 1 .. Len(s)
  OBVIOUS
<1> QED
  BY <1>1, <1>2, <1>3

\* The result of applying entries, and of a power loss, is an image.
LEMMA OverlayType ==
  ASSUME NEW image \in [Blocks -> Values], NEW s \in Seq(Requests), NEW cover
  PROVE  Overlay(image, s, cover) \in [Blocks -> Values]
<1>1. \A b \in Blocks : Overlay(image, s, cover)[b] \in Values
  <2> TAKE b \in Blocks
  <2>1. CASE \A i \in 1 .. Len(s) : b \notin cover[i]
    BY <2>1, OverlayNone
  <2>2. CASE \E i \in 1 .. Len(s) : b \in cover[i]
    <3>1. PICK i \in 1 .. Len(s) : b \in cover[i] /\ \A j \in i + 1 .. Len(s) : b \notin cover[j]
      BY <2>2, LastCover
    <3>2. Overlay(image, s, cover)[b] = s[i].val
      BY <3>1, OverlayLast
    <3>3. s[i] \in Requests
      OBVIOUS
    <3> QED
      BY <3>2, <3>3 DEF Requests, Entries
  <2> QED
    BY <2>1, <2>2
<1> QED
  BY <1>1 DEF Overlay

\* One more entry is applied on top of what the others left.
LEMMA ApplyAppend ==
  ASSUME NEW image, NEW s \in Seq(Requests), NEW e \in Requests
  PROVE  ApplyAll(image, Append(s, e)) = Apply(ApplyAll(image, s), e)
<1> DEFINE all == Append(s, e)
<1>1. /\ all \in Seq(Requests) /\ Len(all) = Len(s) + 1 /\ Len(s) \in Nat
      /\ all[Len(s) + 1] = e
      /\ \A i \in 1 .. Len(s) : all[i] = s[i]
  OBVIOUS
<1> HIDE DEF all
<1>2. \A b \in Blocks : ApplyAll(image, all)[b] = Apply(ApplyAll(image, s), e)[b]
  <2> TAKE b \in Blocks
  <2>1. CASE b \in Extent(e)
    <3>1. ApplyAll(image, all)[b] = all[Len(s) + 1].val
      BY <1>1, <2>1, ApplyLast
    <3> QED
      BY <1>1, <2>1, <3>1 DEF Apply
  <2>2. CASE b \notin Extent(e) /\ \A i \in 1 .. Len(s) : b \notin Extent(s[i])
    <3>1. \A i \in 1 .. Len(all) : b \notin Extent(all[i])
      BY <1>1, <2>2
    <3>2. ApplyAll(image, all)[b] = image[b] /\ ApplyAll(image, s)[b] = image[b]
      BY <1>1, <2>2, <3>1, ApplyNone
    <3> QED
      BY <2>2, <3>2 DEF Apply
  <2>3. CASE b \notin Extent(e) /\ \E i \in 1 .. Len(s) : b \in Extent(s[i])
    <3>1. PICK i \in 1 .. Len(s) : /\ b \in Extent(s[i])
                                    /\ \A j \in i + 1 .. Len(s) : b \notin Extent(s[j])
      BY <2>3, LastEntry
    <3>2. /\ i \in 1 .. Len(all) /\ b \in Extent(all[i])
          /\ \A j \in i + 1 .. Len(all) : b \notin Extent(all[j])
      BY <1>1, <2>3, <3>1
    <3>3. ApplyAll(image, all)[b] = all[i].val
      BY <1>1, <3>2, ApplyLast
    <3>4. ApplyAll(image, s)[b] = s[i].val
      BY <3>1, ApplyLast
    <3> QED
      BY <1>1, <2>3, <3>3, <3>4 DEF Apply
  <2> QED
    BY <2>1, <2>2, <2>3
<1>3. ApplyAll(image, all) = [b \in Blocks |-> ApplyAll(image, all)[b]]
  BY DEF ApplyAll, Overlay
<1>4. Apply(ApplyAll(image, s), e) = [b \in Blocks |-> Apply(ApplyAll(image, s), e)[b]]
  BY DEF Apply
<1> QED
  BY <1>2, <1>3, <1>4 DEF all

\* Writing a prefix back and keeping the rest shows the same content.
LEMMA ApplyInTwo ==
  ASSUME NEW image, NEW s \in Seq(Requests), NEW n \in 0 .. Len(s)
  PROVE  ApplyAll(ApplyAll(image, SubSeq(s, 1, n)), SubSeq(s, n + 1, Len(s)))
           = ApplyAll(image, s)
<1> DEFINE l == SubSeq(s, 1, n)
           r == SubSeq(s, n + 1, Len(s))
           mid == ApplyAll(image, l)
<1>1. /\ l \in Seq(Requests) /\ Len(l) = n
      /\ \A i \in 1 .. n : l[i] = s[i]
  OBVIOUS
<1>2. /\ r \in Seq(Requests) /\ Len(r) = Len(s) - n /\ Len(s) \in Nat
      /\ \A i \in 1 .. Len(s) - n : r[i] = s[n + i]
  OBVIOUS
<1> HIDE DEF l, r, mid
<1>3. \A b \in Blocks : ApplyAll(mid, r)[b] = ApplyAll(image, s)[b]
  <2> TAKE b \in Blocks
  <2>1. CASE \A i \in 1 .. Len(s) : b \notin Extent(s[i])
    <3>0. \A i \in 1 .. Len(l) : b \notin Extent(l[i])
      BY <1>1, <2>1
    <3>1. \A i \in 1 .. Len(r) : b \notin Extent(r[i])
      <4> TAKE i \in 1 .. Len(r)
      <4>1. n + i \in 1 .. Len(s)
        BY <1>2
      <4>2. r[i] = s[n + i]
        BY <1>2
      <4> QED
        BY <2>1, <4>1, <4>2
    <3>2. ApplyAll(mid, r)[b] = mid[b] /\ mid[b] = image[b]
      BY <1>1, <1>2, <3>0, <3>1, ApplyNone DEF mid
    <3> QED
      BY <2>1, <3>2, ApplyNone
  <2>2. CASE \E i \in 1 .. Len(s) : b \in Extent(s[i])
    <3>1. PICK i \in 1 .. Len(s) : /\ b \in Extent(s[i])
                                    /\ \A j \in i + 1 .. Len(s) : b \notin Extent(s[j])
      BY <2>2, LastEntry
    <3>2. ApplyAll(image, s)[b] = s[i].val
      BY <3>1, ApplyLast
    <3>3. CASE i <= n
      <4>1. \A j \in 1 .. Len(r) : b \notin Extent(r[j])
        <5> TAKE j \in 1 .. Len(r)
        <5>1. n + j \in i + 1 .. Len(s)
          BY <1>2, <3>3
        <5>2. r[j] = s[n + j]
          BY <1>2
        <5> QED
          BY <3>1, <5>1, <5>2
      <4>2. /\ i \in 1 .. Len(l) /\ b \in Extent(l[i])
            /\ \A j \in i + 1 .. Len(l) : b \notin Extent(l[j])
        BY <1>1, <3>1, <3>3
      <4>3. mid[b] = l[i].val
        BY <1>1, <4>2, ApplyLast DEF mid
      <4>4. ApplyAll(mid, r)[b] = mid[b]
        BY <1>2, <4>1, ApplyNone
      <4> QED
        BY <1>1, <3>2, <3>3, <4>3, <4>4
    <3>4. CASE i > n
      <4>1. i - n \in 1 .. Len(r) /\ r[i - n] = s[i]
        BY <1>2, <3>4
      <4>2. \A j \in i - n + 1 .. Len(r) : b \notin Extent(r[j])
        <5> TAKE j \in i - n + 1 .. Len(r)
        <5>1. n + j \in i + 1 .. Len(s) /\ r[j] = s[n + j]
          BY <1>2, <3>4
        <5> QED
          BY <3>1, <5>1
      <4>3. ApplyAll(mid, r)[b] = r[i - n].val
        BY <1>2, <3>1, <4>1, <4>2, ApplyLast
      <4> QED
        BY <3>2, <4>1, <4>3
    <3> QED
      BY <3>3, <3>4
  <2> QED
    BY <2>1, <2>2
<1>4. ApplyAll(mid, r) = [b \in Blocks |-> ApplyAll(mid, r)[b]]
  BY DEF ApplyAll, Overlay
<1>5. ApplyAll(image, s) = [b \in Blocks |-> ApplyAll(image, s)[b]]
  BY DEF ApplyAll, Overlay
<1> QED
  BY <1>3, <1>4, <1>5 DEF l, r, mid

-----------------------------------------------------------------------------
(* The size of the cache.                                                  *)

\* A suffix of a suffix.
LEMMA SuffixOfSuffix ==
  ASSUME NEW s \in Seq(Requests), NEW n \in 0 .. Len(s), NEW k \in 1 .. Len(s) - n
  PROVE  SubSeq(SubSeq(s, n + 1, Len(s)), k, Len(s) - n) = SubSeq(s, n + k, Len(s))
<1> DEFINE r == SubSeq(s, n + 1, Len(s))
           u == SubSeq(r, k, Len(s) - n)
           w == SubSeq(s, n + k, Len(s))
<1>1. /\ r \in Seq(Requests) /\ Len(r) = Len(s) - n /\ Len(s) \in Nat
      /\ \A i \in 1 .. Len(s) - n : r[i] = s[n + i]
  OBVIOUS
<1> HIDE DEF r
<1>2. /\ u \in Seq(Requests) /\ Len(u) = Len(s) - n - k + 1
      /\ \A i \in 1 .. Len(s) - n - k + 1 : u[i] = r[k + i - 1]
  BY <1>1
<1>3. /\ w \in Seq(Requests) /\ Len(w) = Len(s) - n - k + 1
      /\ \A i \in 1 .. Len(s) - n - k + 1 : w[i] = s[n + k + i - 1]
  BY <1>1
<1> HIDE DEF u, w
<1>4. ASSUME NEW i \in 1 .. Len(u)
      PROVE  u[i] = w[i]
  <2>1. k + i - 1 \in 1 .. Len(s) - n /\ n + (k + i - 1) = n + k + i - 1
    BY <1>1, <1>2
  <2>2. u[i] = r[k + i - 1] /\ r[k + i - 1] = s[n + (k + i - 1)]
    BY <1>1, <1>2, <2>1
  <2>3. w[i] = s[n + k + i - 1]
    BY <1>2, <1>3
  <2> QED
    BY <2>1, <2>2, <2>3
<1>5. u = w
  BY <1>2, <1>3, <1>4, SeqEqual
<1> QED
  BY <1>5 DEF u, w, r

\* A suffix of a sequence that has got one more entry.
LEMMA SuffixOfAppend ==
  ASSUME NEW s \in Seq(Requests), NEW e \in Requests, NEW m \in 1 .. Len(s) + 1
  PROVE  /\ SubSeq(s, m, Len(s)) \in Seq(Requests)
         /\ Len(SubSeq(s, m, Len(s))) = Len(s) - m + 1
         /\ SubSeq(Append(s, e), m, Len(s) + 1) = Append(SubSeq(s, m, Len(s)), e)
<1> DEFINE all == Append(s, e)
           r == SubSeq(s, m, Len(s))
           u == SubSeq(all, m, Len(s) + 1)
           w == Append(r, e)
<1>1. /\ all \in Seq(Requests) /\ Len(all) = Len(s) + 1 /\ Len(s) \in Nat
      /\ all[Len(s) + 1] = e /\ \A i \in 1 .. Len(s) : all[i] = s[i]
  OBVIOUS
<1>2. /\ r \in Seq(Requests) /\ Len(r) = Len(s) - m + 1
      /\ \A i \in 1 .. Len(s) - m + 1 : r[i] = s[m + i - 1]
  BY <1>1
<1> HIDE DEF all, r
<1>3. /\ u \in Seq(Requests) /\ Len(u) = Len(s) - m + 2
      /\ \A i \in 1 .. Len(s) - m + 2 : u[i] = all[m + i - 1]
  BY <1>1
<1>4. /\ w \in Seq(Requests) /\ Len(w) = Len(s) - m + 2
      /\ w[Len(s) - m + 2] = e /\ \A i \in 1 .. Len(s) - m + 1 : w[i] = r[i]
  BY <1>1, <1>2
<1> HIDE DEF u, w
<1>5. ASSUME NEW i \in 1 .. Len(u)
      PROVE  u[i] = w[i]
  <2>1. CASE i = Len(s) - m + 2
    <3>1. m + i - 1 = Len(s) + 1 /\ i \in 1 .. Len(s) - m + 2
      BY <1>1, <2>1
    <3> QED
      BY <1>1, <1>3, <1>4, <2>1, <3>1
  <2>2. CASE i \in 1 .. Len(s) - m + 1
    <3>1. m + i - 1 \in 1 .. Len(s) /\ i \in 1 .. Len(s) - m + 2
      BY <1>1, <2>2
    <3>2. u[i] = s[m + i - 1]
      BY <1>1, <1>3, <3>1
    <3>3. w[i] = s[m + i - 1]
      BY <1>2, <1>4, <2>2
    <3> QED
      BY <3>2, <3>3
  <2> QED
    BY <1>1, <1>3, <2>1, <2>2
<1>6. u = w
  BY <1>3, <1>4, <1>5, SeqEqual
<1> QED
  BY <1>2, <1>6 DEF u, w, r, all

\* An entry is a nonempty interval of blocks of the device.
LEMMA EntryExtent ==
  ASSUME NEW e \in Requests
  PROVE  /\ e.off \in Blocks /\ e.len \in 1 .. NrBlocks /\ e.val \in Values
         /\ Extent(e) \subseteq Blocks /\ e.off \in Extent(e)
         /\ IsFiniteSet(Extent(e)) /\ Cardinality(Extent(e)) = e.len
<1>1. /\ e.off \in Blocks /\ e.len \in 1 .. NrBlocks /\ e.val \in Values
      /\ e.off + e.len <= NrBlocks /\ NrBlocks \in Nat
  BY SizesAssumption DEF Requests, Entries
<1>2. /\ IsFiniteSet(e.off .. e.off + e.len - 1)
      /\ Cardinality(e.off .. e.off + e.len - 1) = e.len
  <2>1. e.off \in Int /\ e.off + e.len - 1 \in Int
    BY <1>1 DEF Blocks
  <2>2. /\ IsFiniteSet(e.off .. e.off + e.len - 1)
        /\ Cardinality(e.off .. e.off + e.len - 1) =
             IF e.off > e.off + e.len - 1 THEN 0 ELSE (e.off + e.len - 1) - e.off + 1
    BY <2>1, FS_Interval
  <2> QED
    BY <1>1, <2>1, <2>2
<1> QED
  BY <1>1, <1>2 DEF Extent, Blocks

\* The cells of a sequence of entries are finitely many.
LEMMA CellsFinite ==
  ASSUME NEW s \in Seq(Requests)
  PROVE  IsFiniteSet(Cells(s)) /\ Bytes(s) \in Nat
<1>1. DOMAIN s = 1 .. Len(s) /\ Len(s) \in Nat
  OBVIOUS
<1>2. IsFiniteSet(1 .. Len(s)) /\ IsFiniteSet(Blocks)
  BY <1>1, SizesAssumption, FS_Interval DEF Blocks
<1>3. IsFiniteSet((1 .. Len(s)) \X Blocks)
  BY <1>2, FS_Product
<1>4. Cells(s) \in SUBSET ((1 .. Len(s)) \X Blocks)
  BY <1>1 DEF Cells
<1>5. IsFiniteSet(Cells(s))
  BY <1>3, <1>4, FS_Subset
<1> QED
  BY <1>5, FS_CardinalityType DEF Bytes

\* An empty cache holds nothing.
LEMMA BytesEmpty == Bytes(<<>>) = 0
<1>1. Cells(<<>>) = {}
  BY DEF Cells
<1> QED
  BY <1>1, FS_EmptySet DEF Bytes

\* One more entry adds its length.
LEMMA BytesAppend ==
  ASSUME NEW s \in Seq(Requests), NEW e \in Requests
  PROVE  Bytes(Append(s, e)) = Bytes(s) + e.len
<1> DEFINE all == Append(s, e)
           new == {Len(s) + 1} \X Extent(e)
<1>1. /\ all \in Seq(Requests) /\ DOMAIN all = 1 .. Len(s) + 1
      /\ DOMAIN s = 1 .. Len(s) /\ Len(s) \in Nat
      /\ all[Len(s) + 1] = e
      /\ \A i \in 1 .. Len(s) : all[i] = s[i]
  OBVIOUS
<1> HIDE DEF all
<1>2. Cells(all) = Cells(s) \cup new
  <2>1. ASSUME NEW i \in 1 .. Len(s) + 1, NEW b \in Blocks
        PROVE  <<i, b>> \in Cells(all) <=> <<i, b>> \in Cells(s) \cup new
    <3>1. CASE i = Len(s) + 1
      BY <1>1, <3>1 DEF Cells
    <3>2. CASE i \in 1 .. Len(s)
      BY <1>1, <3>2 DEF Cells
    <3> QED
      BY <1>1, <3>1, <3>2
  <2>2. Cells(all) \subseteq (1 .. Len(s) + 1) \X Blocks
    BY <1>1 DEF Cells
  <2>3. Cells(s) \cup new \subseteq (1 .. Len(s) + 1) \X Blocks
    BY <1>1, EntryExtent DEF Cells
  <2> QED
    BY <2>1, <2>2, <2>3
<1>3. Cells(s) \cap new = {}
  BY <1>1 DEF Cells
<1>4. IsFiniteSet(new) /\ Cardinality(new) = e.len
  <2>1. IsFiniteSet({Len(s) + 1}) /\ Cardinality({Len(s) + 1}) = 1
    BY FS_Singleton
  <2>2. IsFiniteSet(new) /\ Cardinality(new) = 1 * Cardinality(Extent(e))
    BY <2>1, EntryExtent, FS_Product
  <2>3. e.len \in Nat
    BY EntryExtent, SizesAssumption
  <2> QED
    BY <2>2, <2>3, EntryExtent
<1>5. Cardinality(Cells(s) \cup new) = Cardinality(Cells(s)) + e.len - 0
  BY <1>3, <1>4, CellsFinite, FS_Union, FS_EmptySet
<1>6. Cardinality(Cells(s)) \in Nat /\ e.len \in Nat
  BY CellsFinite, EntryExtent, SizesAssumption DEF Bytes
<1> QED
  BY <1>2, <1>5, <1>6 DEF Bytes, all

\* A suffix is no larger than the whole.
LEMMA BytesSuffix ==
  ASSUME NEW s \in Seq(Requests), NEW k \in 1 .. Len(s)
  PROVE  Bytes(SubSeq(s, k, Len(s))) <= Bytes(s)
<1> DEFINE r == SubSeq(s, k, Len(s))
           f == [ib \in Cells(r) |-> <<ib[1] + k - 1, ib[2]>>]
<1>1. /\ r \in Seq(Requests) /\ DOMAIN r = 1 .. Len(s) - k + 1
      /\ DOMAIN s = 1 .. Len(s) /\ Len(s) \in Nat
      /\ \A i \in 1 .. Len(s) - k + 1 : r[i] = s[i + k - 1]
  OBVIOUS
<1> HIDE DEF r
<1>2. \A ib \in Cells(r) : /\ ib[1] \in 1 .. Len(s) - k + 1 /\ ib = <<ib[1], ib[2]>>
                           /\ <<ib[1] + k - 1, ib[2]>> \in Cells(s)
  <2> TAKE ib \in Cells(r)
  <2>1. /\ ib[1] \in 1 .. Len(s) - k + 1 /\ ib[2] \in Blocks /\ ib = <<ib[1], ib[2]>>
        /\ ib[2] \in Extent(r[ib[1]])
    BY <1>1 DEF Cells
  <2>2. ib[1] + k - 1 \in DOMAIN s /\ r[ib[1]] = s[ib[1] + k - 1]
    BY <1>1, <2>1
  <2> QED
    BY <2>1, <2>2 DEF Cells
<1>3. f \in Injection(Cells(r), Cells(s))
  <2>1. f \in [Cells(r) -> Cells(s)]
    BY <1>2
  <2>2. ASSUME NEW c \in Cells(r), NEW d \in Cells(r), f[c] = f[d]
        PROVE  c = d
    <3>1. c[1] + k - 1 = d[1] + k - 1 /\ c[2] = d[2]
      BY <2>2
    <3>2. c[1] = d[1]
      <4>1. c[1] \in Int /\ d[1] \in Int /\ k \in Int
        BY <1>1 DEF Cells
      <4> QED
        BY <3>1, <4>1
    <3> QED
      BY <1>2, <3>1, <3>2
  <2> QED
    BY <2>1, <2>2 DEF Injection, IsInjective
<1> QED
  BY <1>1, <1>3, CellsFinite, FS_Injection DEF Bytes, r

\* A cache that holds an entry holds at least one block.
LEMMA BytesPositive ==
  ASSUME NEW s \in Seq(Requests), s # <<>>
  PROVE  Bytes(s) > 0
<1>1. 1 \in DOMAIN s /\ s[1] \in Requests
  OBVIOUS
<1>2. <<1, s[1].off>> \in Cells(s)
  BY <1>1, EntryExtent DEF Cells
<1> QED
  BY <1>2, CellsFinite, FS_EmptySet DEF Bytes

\* What is written back is a prefix, and the rest fits the capacity.
LEMMA OverflowFits ==
  ASSUME NEW s \in Seq(Requests)
  PROVE  /\ Overflow(s) \in 0 .. Len(s)
         /\ Bytes(SubSeq(s, Overflow(s) + 1, Len(s))) <= CacheCap
<1> DEFINE Fits(n) == Bytes(SubSeq(s, n + 1, Len(s))) <= CacheCap
           fitting == {n \in 0 .. Len(s) : Fits(n)}
<1>1. Len(s) \in Nat /\ SubSeq(s, Len(s) + 1, Len(s)) = <<>>
  OBVIOUS
<1>2. Len(s) \in fitting
  <2>1. Bytes(SubSeq(s, Len(s) + 1, Len(s))) = 0
    BY <1>1, BytesEmpty
  <2> QED
    BY <1>1, <2>1, SizesAssumption
<1>3. fitting \in SUBSET Nat
  BY <1>1
<1> HIDE DEF fitting
<1>4. PICK n \in fitting : \A m \in fitting : n <= m
  BY <1>2, <1>3, LeastExists
<1>5. n \in 0 .. Len(s) /\ Fits(n) /\ \A m \in 0 .. n - 1 : m \in 0 .. Len(s) /\ ~ Fits(m)
  BY <1>1, <1>4 DEF fitting
<1>6. \A m \in 0 .. Len(s) : Bytes(SubSeq(s, m + 1, Len(s))) \in Nat
  <2> TAKE m \in 0 .. Len(s)
  <2>1. SubSeq(s, m + 1, Len(s)) \in Seq(Requests)
    BY <1>1
  <2> QED
    BY <2>1, CellsFinite
<1>7. \A m \in 0 .. n - 1 : Bytes(SubSeq(s, m + 1, Len(s))) > CacheCap
  <2> TAKE m \in 0 .. n - 1
  <2> DEFINE left == Bytes(SubSeq(s, m + 1, Len(s)))
  <2>1. left \in Nat /\ ~ (left <= CacheCap)
    BY <1>5, <1>6
  <2> HIDE DEF left
  <2>2. left > CacheCap
    BY <2>1, SizesAssumption
  <2> QED
    BY <2>2 DEF left
<1>8. \E k \in 0 .. Len(s) :
         /\ Bytes(SubSeq(s, k + 1, Len(s))) <= CacheCap
         /\ \A m \in 0 .. k - 1 : Bytes(SubSeq(s, m + 1, Len(s))) > CacheCap
  BY <1>5, <1>7
<1> QED
  BY <1>8 DEF Overflow

-----------------------------------------------------------------------------
(* The contract.                                                           *)

\* Whatever a write-back or a torn crash could commit, the contract allows.
CacheAllowed ==
  \A b \in Blocks : \A i \in 1 .. Len(volatile) :
    b \in Extent(volatile[i]) => volatile[i].val \in allowed[b]

LastOn(b, k) ==
  /\ b \in Extent(volatile[k])
  /\ \A j \in k + 1 .. Len(volatile) : b \notin Extent(volatile[j])

\* While a block's last write is cached, what was pushed since and with it is
\* the end of the cache that begins with it.
CacheEnd ==
  \A b \in Blocks : \A k \in 1 .. Len(volatile) :
    LastOn(b, k) => newer[b] = Bytes(SubSeq(volatile, k, Len(volatile)))

IInv == TypeOK /\ ReadYourWrites /\ FlushedSurvives /\ CacheAllowed /\ CacheEnd

\* What a push does to the disk: the cache is a suffix of the old one with
\* the new entry, it fits, a read shows the entry on top of what it showed,
\* and the medium changes only to what some entry of the cache held.
LEMMA PushStep ==
  ASSUME DiskType, NEW e \in Requests, PushVolatile(e)
  PROVE  /\ DiskType'
         /\ ApplyAll(committed, volatile)' = Apply(ApplyAll(committed, volatile), e)
         /\ \E n \in 0 .. Len(volatile) + 1 :
              volatile' = SubSeq(Append(volatile, e), n + 1, Len(volatile) + 1)
         /\ \A b \in Blocks :
              \/ committed'[b] = committed[b]
              \/ b \in Extent(e) /\ committed'[b] = e.val
              \/ \E i \in 1 .. Len(volatile) :
                   b \in Extent(volatile[i]) /\ committed'[b] = volatile[i].val
<1> DEFINE all == Append(volatile, e)
           n == Overflow(all)
           l == SubSeq(all, 1, n)
<1>1. /\ all \in Seq(Requests) /\ Len(all) = Len(volatile) + 1
      /\ Len(volatile) \in Nat
      /\ all[Len(volatile) + 1] = e
      /\ \A i \in 1 .. Len(volatile) : all[i] = volatile[i]
  BY DEF DiskType
<1> HIDE DEF all
<1>2. n \in 0 .. Len(all) /\ Bytes(SubSeq(all, n + 1, Len(all))) <= CacheCap
  BY <1>1, OverflowFits
<1>3. committed' = ApplyAll(committed, l) /\ volatile' = SubSeq(all, n + 1, Len(all))
  BY DEF PushVolatile, all
<1> HIDE DEF n
<1>4. l \in Seq(Requests) /\ Len(l) = n /\ \A i \in 1 .. n : l[i] = all[i]
  BY <1>1, <1>2
<1> HIDE DEF l
<1>5. DiskType'
  <2>1. committed' \in [Blocks -> Values]
    BY <1>3, <1>4, OverlayType DEF DiskType, ApplyAll
  <2>2. SubSeq(all, n + 1, Len(all)) \in Seq(Requests)
    BY <1>1, <1>2
  <2> QED
    BY <1>2, <1>3, <2>1, <2>2 DEF DiskType, Bytes, Cells, Blocks, Extent, Requests, Entries
<1>6. ApplyAll(committed, volatile)' = Apply(ApplyAll(committed, volatile), e)
  <2>1. ApplyAll(committed', volatile') = ApplyAll(committed, all)
    BY <1>1, <1>2, <1>3, ApplyInTwo DEF l
  <2>2. ApplyAll(committed, all) = Apply(ApplyAll(committed, volatile), e)
    BY ApplyAppend DEF DiskType, all
  <2> QED
    BY <2>1, <2>2 DEF ApplyAll, Overlay, Blocks, Extent
<1>7. ASSUME NEW b \in Blocks
      PROVE  \/ committed'[b] = committed[b]
             \/ b \in Extent(e) /\ committed'[b] = e.val
             \/ \E i \in 1 .. Len(volatile) :
                  b \in Extent(volatile[i]) /\ committed'[b] = volatile[i].val
  <2>1. CASE \A i \in 1 .. Len(l) : b \notin Extent(l[i])
    BY <1>3, <1>4, <2>1, ApplyNone
  <2>2. CASE \E i \in 1 .. Len(l) : b \in Extent(l[i])
    <3>1. PICK i \in 1 .. Len(l) : /\ b \in Extent(l[i])
                                    /\ \A j \in i + 1 .. Len(l) : b \notin Extent(l[j])
      BY <1>4, <2>2, LastEntry
    <3>2. committed'[b] = l[i].val
      <4>1. ApplyAll(committed, l)[b] = l[i].val
        BY <1>4, <3>1, ApplyLast
      <4> QED
        BY <1>3, <4>1
    <3>3. i \in 1 .. Len(volatile) + 1 /\ l[i] = all[i]
      BY <1>1, <1>2, <1>4
    <3>4. CASE i = Len(volatile) + 1
      BY <1>1, <3>1, <3>2, <3>3, <3>4
    <3>5. CASE i \in 1 .. Len(volatile)
      BY <1>1, <3>1, <3>2, <3>3, <3>5
    <3> QED
      BY <1>1, <3>3, <3>4, <3>5
  <2> QED
    BY <2>1, <2>2
<1> QED
  BY <1>1, <1>2, <1>3, <1>5, <1>6, <1>7 DEF all

\* A push and its history preserve the invariant.
LEMMA PushInv ==
  ASSUME IInv, NEW e \in Requests, PushVolatile(e), Pushed(e)
  PROVE  IInv'
<1> DEFINE all == Append(volatile, e)
           L == Len(volatile)
<1>0. /\ DiskType /\ latest \in [Blocks -> Values] /\ allowed \in [Blocks -> SUBSET Values]
      /\ newer \in [Blocks -> 0 .. CacheCap + NrBlocks]
      /\ volatile \in Seq(Requests) /\ L \in Nat
      /\ e.len \in 1 .. NrBlocks /\ e.val \in Values
  BY EntryExtent DEF IInv, TypeOK, DiskType
<1>1. /\ DiskType'
      /\ ApplyAll(committed, volatile)' = Apply(ApplyAll(committed, volatile), e)
      /\ \A b \in Blocks :
           \/ committed'[b] = committed[b]
           \/ b \in Extent(e) /\ committed'[b] = e.val
           \/ \E i \in 1 .. L : b \in Extent(volatile[i]) /\ committed'[b] = volatile[i].val
  BY <1>0, PushStep
<1>2. PICK n \in 0 .. L + 1 : volatile' = SubSeq(all, n + 1, L + 1)
  BY <1>0, PushStep
<1>3. /\ all \in Seq(Requests) /\ Len(all) = L + 1
      /\ all[L + 1] = e /\ \A i \in 1 .. L : all[i] = volatile[i]
  BY <1>0
<1>4. /\ Len(volatile') = (L + 1) - n
      /\ \A i \in 1 .. (L + 1) - n : volatile'[i] = all[n + i]
  BY <1>0, <1>2, <1>3
<1>5. TypeOK'
  <2>1. latest' \in [Blocks -> Values]
    BY <1>0 DEF Pushed, Apply
  <2>2. allowed' \in [Blocks -> SUBSET Values]
    BY <1>0 DEF Pushed
  <2>3. newer' \in [Blocks -> 0 .. CacheCap + NrBlocks]
    BY <1>0, SizesAssumption DEF Pushed
  <2> QED
    BY <1>1, <2>1, <2>2, <2>3 DEF TypeOK
<1>6. ReadYourWrites'
  BY <1>1 DEF IInv, ReadYourWrites, Read, Pushed, Apply
<1>7. FlushedSurvives'
  BY <1>0, <1>1 DEF IInv, FlushedSurvives, CacheAllowed, Pushed
<1>8. CacheAllowed'
  <2> SUFFICES ASSUME NEW b \in Blocks, NEW i \in 1 .. (L + 1) - n, b \in Extent(volatile'[i])
               PROVE  volatile'[i].val \in allowed'[b]
    BY <1>4 DEF CacheAllowed, Extent
  <2>1. n + i \in 1 .. L + 1 /\ volatile'[i] = all[n + i]
    BY <1>0, <1>4
  <2>2. CASE n + i = L + 1
    BY <1>0, <1>3, <2>1, <2>2 DEF Pushed
  <2>3. CASE n + i \in 1 .. L
    BY <1>0, <1>3, <2>1, <2>3 DEF Pushed, IInv, CacheAllowed
  <2>4. n + i = L + 1 \/ n + i \in 1 .. L
    <3>1. n + i \in 1 .. L + 1 /\ L \in Nat
      BY <1>0, <2>1, Zenon
    <3> HIDE DEF L
    <3> QED
      BY <3>1
  <2> QED
    BY <2>2, <2>3, <2>4
<1>9. CacheEnd'
  <2> SUFFICES ASSUME NEW b \in Blocks, NEW k \in 1 .. (L + 1) - n, LastOn(b, k)'
               PROVE  newer'[b] = Bytes(SubSeq(volatile', k, (L + 1) - n))
    BY <1>4 DEF CacheEnd
  <2> DEFINE m == n + k
  <2>1. m \in 1 .. L + 1 /\ volatile'[k] = all[m] /\ b \in Extent(all[m])
    <3> HIDE DEF L, all
    <3>1. m \in 1 .. L + 1 /\ volatile'[k] = all[m]
      BY <1>0, <1>4
    <3>2. b \in Extent(volatile'[k])
      BY DEF LastOn
    <3> QED
      BY <3>1, <3>2
  <2>2. \A j \in m + 1 .. L + 1 : b \notin Extent(all[j])
    <3> TAKE j \in m + 1 .. L + 1
    <3>1. j - n \in k + 1 .. (L + 1) - n /\ j - n \in 1 .. (L + 1) - n /\ n + (j - n) = j
      BY <1>0, <2>1
    <3>2. volatile'[j - n] = all[j]
      BY <1>4, <3>1
    <3> QED
      BY <1>4, <3>1, <3>2 DEF LastOn, Extent
  <2>3. SubSeq(volatile', k, (L + 1) - n) = SubSeq(all, m, L + 1)
    <3> HIDE DEF all, L
    <3>1. n \in 0 .. Len(all) /\ k \in 1 .. Len(all) - n
      BY <1>0, <1>3
    <3>2. SubSeq(SubSeq(all, n + 1, Len(all)), k, Len(all) - n) = SubSeq(all, n + k, Len(all))
      BY <1>3, <3>1, SuffixOfSuffix, Zenon
    <3>3. SubSeq(volatile', k, (L + 1) - n) = SubSeq(SubSeq(all, n + 1, L + 1), k, (L + 1) - n)
      BY <1>2, Zenon
    <3>4. SubSeq(SubSeq(all, n + 1, L + 1), k, (L + 1) - n) = SubSeq(all, m, L + 1)
      <4>1. Len(all) = L + 1
        BY <1>3
      <4> QED
        BY <3>2, <4>1
    <3> QED
      BY <3>3, <3>4, Zenon
  <2> HIDE DEF m
  <2>4. CASE m = L + 1
    <3>1. SubSeq(all, m, L + 1) = Append(<<>>, e) /\ <<>> \in Seq(Requests)
      <4>1. SubSeq(volatile, L + 1, L) = <<>>
        BY <1>0
      <4>2. L + 1 \in 1 .. Len(volatile) + 1 /\ <<>> \in Seq(Requests)
        BY <1>0
      <4>3. SubSeq(all, L + 1, L + 1) = Append(SubSeq(volatile, L + 1, L), e)
        BY <1>0, <4>2, SuffixOfAppend, Zenon
      <4> QED
        BY <2>4, <4>1, <4>2, <4>3, Zenon
    <3>2. Bytes(Append(<<>>, e)) = 0 + e.len
      BY <3>1, BytesAppend, BytesEmpty
    <3> QED
      <4>1. b \in Extent(e)
        BY <1>3, <2>1, <2>4
      <4>2. newer'[b] = e.len
        BY <4>1 DEF Pushed
      <4>3. 0 + e.len = e.len
        BY <1>0, SizesAssumption
      <4> QED
        BY <2>3, <3>1, <3>2, <4>2, <4>3, Zenon
  <2>5. CASE m \in 1 .. L
    <3> DEFINE r == SubSeq(volatile, m, L)
    <3>1. r \in Seq(Requests) /\ r # <<>> /\ SubSeq(all, m, L + 1) = Append(r, e)
      <4>1. /\ r \in Seq(Requests) /\ Len(r) = L - m + 1
            /\ SubSeq(all, m, L + 1) = Append(r, e)
        <5>1. m \in 1 .. Len(volatile) + 1
          BY <1>0, <2>5
        <5> QED
          BY <1>0, <5>1, SuffixOfAppend, Zenon
      <4>2. Len(r) > 0
        <5> HIDE DEF r, L
        <5> QED
          BY <1>0, <2>5, <4>1
      <4> HIDE DEF r
      <4>3. r # <<>>
        BY <4>2
      <4> QED
        BY <4>1, <4>3, Zenon
    <3>2. b \notin Extent(e)
      BY <1>0, <1>3, <2>2, <2>5
    <3>3. LastOn(b, m)
      BY <1>0, <1>3, <2>1, <2>2, <2>5 DEF LastOn
    <3>4. newer[b] = Bytes(r)
      BY <2>5, <3>3 DEF IInv, CacheEnd
    <3>5. Bytes(r) > 0 /\ Bytes(r) \in Nat /\ Bytes(volatile) \in Nat
      BY <1>0, <3>1, BytesPositive, CellsFinite
    <3>6. Bytes(r) <= Bytes(volatile) /\ Bytes(volatile) <= CacheCap
      BY <1>0, <2>5, BytesSuffix DEF DiskType
    <3> HIDE DEF r
    <3>7. newer'[b] = newer[b] + e.len
      BY <3>2, <3>4, <3>5, <3>6, SizesAssumption DEF Pushed
    <3> QED
      BY <2>3, <3>1, <3>4, <3>7, BytesAppend
  <2> QED
    <3>0. m \in 1 .. L + 1 /\ L \in Nat
      BY <1>0, <2>1, Zenon
    <3> HIDE DEF L
    <3>1. m = L + 1 \/ m \in 1 .. L
      BY <3>0
    <3> QED
      BY <2>4, <2>5, <3>1
<1> QED
  BY <1>5, <1>6, <1>7, <1>8, <1>9 DEF IInv

\* A read of a device with an empty cache shows the medium.
LEMMA ReadEmpty ==
  ASSUME NEW image, NEW b \in Blocks
  PROVE  ApplyAll(image, <<>>)[b] = image[b]
<1>1. <<>> \in Seq(Requests) /\ Len(<<>>) = 0
  OBVIOUS
<1>2. \A i \in 1 .. Len(<<>>) : b \notin Extent(<<>>[i])
  BY <1>1
<1> QED
  BY <1>1, <1>2, ApplyNone, Zenon

\* The cache is empty after an honest flush and after a crash, so only what is
\* on the medium has to be shown.
LEMMA EmptiedInv ==
  ASSUME volatile' = <<>>, committed' \in [Blocks -> Values],
         latest' \in [Blocks -> Values], allowed' \in [Blocks -> SUBSET Values],
         newer' \in [Blocks -> 0 .. CacheCap + NrBlocks],
         \A b \in Blocks : committed'[b] = latest'[b] /\ committed'[b] \in allowed'[b]
  PROVE  IInv'
<1>1. <<>> \in Seq(Requests) /\ Bytes(<<>>) <= CacheCap /\ Len(<<>>) = 0
  BY BytesEmpty, SizesAssumption
<1>2. TypeOK'
  BY <1>1 DEF TypeOK, DiskType
<1>3. \A b \in Blocks : ApplyAll(committed', <<>>)[b] = committed'[b]
  BY ReadEmpty
<1>4. ReadYourWrites'
  BY <1>3 DEF ReadYourWrites, Read
<1>5. FlushedSurvives'
  BY DEF FlushedSurvives
<1>6. CacheAllowed' /\ CacheEnd'
  BY <1>1 DEF CacheAllowed, CacheEnd
<1> QED
  BY <1>2, <1>4, <1>5, <1>6 DEF IInv

\* An honest flush commits what a read showed.
LEMMA FlushInv == IInv /\ Flush /\ Flushed => IInv'
<1> SUFFICES ASSUME IInv, Flush, Flushed
             PROVE  IInv'
  OBVIOUS
<1>1. /\ latest \in [Blocks -> Values] /\ volatile \in Seq(Requests)
      /\ committed \in [Blocks -> Values] /\ latest' = latest
      /\ allowed' = [b \in Blocks |-> {latest[b]}] /\ newer' = [b \in Blocks |-> 0]
      /\ volatile' = <<>> /\ committed' = ApplyAll(committed, volatile)
  BY DEF IInv, TypeOK, DiskType, Flush, Flushed
<1>2. committed' \in [Blocks -> Values]
  BY <1>1, OverlayType DEF ApplyAll
<1>3. \A b \in Blocks : committed'[b] = latest[b]
  BY <1>1 DEF IInv, ReadYourWrites, Read
<1>4. newer' \in [Blocks -> 0 .. CacheCap + NrBlocks]
  BY <1>1, SizesAssumption
<1> QED
  BY <1>1, <1>2, <1>3, <1>4, EmptiedInv

\* A crash commits, block by block, what the medium or some entry held.
LEMMA CrashStep ==
  ASSUME DiskType, NEW kept \in Survivors, Crash(kept)
  PROVE  /\ committed' \in [Blocks -> Values] /\ volatile' = <<>>
         /\ \A b \in Blocks :
              \/ committed'[b] = committed[b]
              \/ \E i \in 1 .. Len(volatile) :
                   b \in Extent(volatile[i]) /\ committed'[b] = volatile[i].val
<1>1. volatile \in Seq(Requests)
  BY DEF DiskType
<1>2. committed' = Overlay(committed, volatile, kept) /\ volatile' = <<>>
  BY DEF Crash, CrashImage
<1>3. committed' \in [Blocks -> Values]
  BY <1>1, <1>2, OverlayType DEF DiskType
<1>4. ASSUME NEW b \in Blocks
      PROVE  \/ committed'[b] = committed[b]
             \/ \E i \in 1 .. Len(volatile) :
                  b \in Extent(volatile[i]) /\ committed'[b] = volatile[i].val
  <2>1. CASE \A i \in 1 .. Len(volatile) : b \notin kept[i]
    <3>1. Overlay(committed, volatile, kept)[b] = committed[b]
      BY <1>1, <2>1, OverlayNone
    <3> QED
      BY <1>2, <3>1
  <2>2. CASE \E i \in 1 .. Len(volatile) : b \in kept[i]
    <3>1. PICK i \in 1 .. Len(volatile) :
                 b \in kept[i] /\ \A j \in i + 1 .. Len(volatile) : b \notin kept[j]
      BY <1>1, <2>2, LastCover
    <3>2. Overlay(committed, volatile, kept)[b] = volatile[i].val
      BY <1>1, <3>1, OverlayLast
    <3>3. b \in Extent(volatile[i])
      BY <1>1, <3>1 DEF Survivors
    <3> QED
      BY <1>2, <3>2, <3>3
  <2> QED
    BY <2>1, <2>2
<1> QED
  BY <1>2, <1>3, <1>4

\* A crash and its history preserve the invariant.
LEMMA CrashInv ==
  ASSUME IInv, NEW kept \in Survivors, Crash(kept), Crashed
  PROVE  IInv'
<1>1. /\ DiskType /\ allowed \in [Blocks -> SUBSET Values]
      /\ latest' = committed' /\ newer' = [b \in Blocks |-> 0] /\ allowed' = allowed
  BY DEF IInv, TypeOK, Crashed
<1>2. /\ committed' \in [Blocks -> Values] /\ volatile' = <<>>
      /\ \A b \in Blocks :
           \/ committed'[b] = committed[b]
           \/ \E i \in 1 .. Len(volatile) :
                b \in Extent(volatile[i]) /\ committed'[b] = volatile[i].val
  BY <1>1, CrashStep
<1>3. \A b \in Blocks : committed'[b] \in allowed'[b]
  BY <1>1, <1>2 DEF IInv, FlushedSurvives, CacheAllowed
<1>4. newer' \in [Blocks -> 0 .. CacheCap + NrBlocks]
  BY <1>1, SizesAssumption
<1> QED
  BY <1>1, <1>2, <1>3, <1>4, EmptiedInv

\* A step that changes nothing, an acknowledged lie among them.
LEMMA StutterInv == IInv /\ UNCHANGED vars => IInv'
BY DEF IInv, TypeOK, DiskType, ReadYourWrites, Read, FlushedSurvives, CacheAllowed,
       CacheEnd, LastOn, vars, disk

\* An empty cache over a blank medium satisfies the invariant.
LEMMA InitInv == ContractInit => IInv
<1> SUFFICES ASSUME ContractInit
             PROVE  IInv
  OBVIOUS
<1>1. /\ volatile = <<>> /\ committed = [b \in Blocks |-> 0] /\ latest = committed
      /\ allowed = [b \in Blocks |-> {0}] /\ newer = [b \in Blocks |-> 0]
  BY DEF ContractInit, Init
<1>2. <<>> \in Seq(Requests) /\ Bytes(<<>>) <= CacheCap /\ Len(<<>>) = 0
  BY BytesEmpty, SizesAssumption
<1>3. TypeOK
  BY <1>1, <1>2, SizesAssumption, ValuesAssumption DEF TypeOK, DiskType
<1>4. ReadYourWrites
  BY <1>1, ReadEmpty DEF ReadYourWrites, Read
<1>5. FlushedSurvives /\ CacheAllowed /\ CacheEnd
  BY <1>1, <1>2 DEF FlushedSurvives, CacheAllowed, CacheEnd
<1> QED
  BY <1>3, <1>4, <1>5 DEF IInv

\* Every request, flush, crash and write-back keeps the invariant.
LEMMA NextInv == IInv /\ [Next]_vars => IInv'
<1> SUFFICES ASSUME IInv, [Next]_vars
             PROVE  IInv'
  OBVIOUS
<1>1. ASSUME NEW e \in Requests, Write(e), Pushed(e)
      PROVE  IInv'
  BY <1>1, PushInv DEF Write
<1>2. ASSUME NEW e \in Requests, NEW keep \in 0 .. e.len, WriteError(e, keep), Failed(e, keep)
      PROVE  IInv'
  <2>1. CASE keep > 0
    <3> DEFINE p == [e EXCEPT !.len = keep]
    <3>1. p \in Requests
      <4>1. e \in Entries /\ e.off + e.len <= NrBlocks /\ NrBlocks \in Nat
        BY SizesAssumption DEF Requests
      <4>2. /\ e.off \in Int /\ e.len \in 1 .. NrBlocks /\ keep \in 1 .. NrBlocks
            /\ e.off + keep <= NrBlocks
        BY <2>1, <4>1 DEF Entries, Blocks
      <4> QED
        BY <4>1, <4>2 DEF Requests, Entries
    <3>2. PushVolatile(p) /\ Pushed(p)
      BY <1>2, <2>1 DEF WriteError, Failed, Write
    <3> QED
      BY <3>1, <3>2, PushInv
  <2>2. CASE ~ (keep > 0)
    BY <1>2, <2>2, StutterInv DEF WriteError, Failed, vars
  <2> QED
    BY <2>1, <2>2
<1>3. CASE FlushLie /\ UNCHANGED <<latest, allowed, newer>>
  BY <1>3, StutterInv DEF FlushLie, vars
<1>4. CASE UNCHANGED vars
  BY <1>4, StutterInv
<1> QED
  BY <1>1, <1>2, <1>3, <1>4, FlushInv, CrashInv DEF Next

\* The contract's invariant holds for every device size, cache capacity and
\* set of values.
THEOREM Invariance == Spec => []IInv
BY InitInv, NextInv, PTL DEF Spec

\* Types; and push_volatile never leaves the cache above its capacity,
\* whatever the sizes of the requests.
THEOREM TypeCorrect == Spec => []TypeOK
<1>1. IInv => TypeOK
  BY DEF IInv
<1> QED
  BY <1>1, Invariance, PTL

\* read shows the last write that reached the cache, whatever was written
\* back, flushed, lied about or lost meanwhile.
THEOREM ReadBack == Spec => []ReadYourWrites
<1>1. IInv => ReadYourWrites
  BY DEF IInv
<1> QED
  BY <1>1, Invariance, PTL

\* The medium holds the content of the last honest flush or one written since,
\* so no crash loses what was flushed.
THEOREM Durable == Spec => []FlushedSurvives
<1>1. IInv => FlushedSurvives
  BY DEF IInv
<1> QED
  BY <1>1, Invariance, PTL

\* A write that has more than a cache of writes behind it is on the medium:
\* the oldest entries are the ones push_volatile writes back.
THEOREM CrashWindow == Spec => []RecentWindow
<1>1. IInv => RecentWindow
  <2> SUFFICES ASSUME IInv, NEW b \in Blocks, newer[b] > CacheCap
               PROVE  committed[b] = latest[b]
    BY DEF RecentWindow
  <2>1. volatile \in Seq(Requests) /\ Bytes(volatile) <= CacheCap
    BY DEF IInv, TypeOK, DiskType
  <2>2. \A i \in 1 .. Len(volatile) : b \notin Extent(volatile[i])
    <3> SUFFICES ASSUME \E i \in 1 .. Len(volatile) : b \in Extent(volatile[i])
                 PROVE  FALSE
      OBVIOUS
    <3>1. PICK k \in 1 .. Len(volatile) : LastOn(b, k)
      BY <2>1, LastEntry DEF LastOn
    <3> DEFINE end == SubSeq(volatile, k, Len(volatile))
    <3>2. newer[b] = Bytes(end)
      BY <3>1 DEF IInv, CacheEnd
    <3>3. end \in Seq(Requests)
      BY <2>1
    <3>4. Bytes(end) <= Bytes(volatile)
      BY <2>1, BytesSuffix
    <3> HIDE DEF end
    <3>5. Bytes(end) \in Nat /\ Bytes(volatile) \in Nat
      BY <2>1, <3>3, CellsFinite
    <3> QED
      BY <2>1, <3>2, <3>4, <3>5, SizesAssumption
  <2>3. Read(b) = committed[b]
    BY <2>1, <2>2, ApplyNone DEF Read
  <2> QED
    BY <2>3 DEF IInv, ReadYourWrites
<1> QED
  BY <1>1, Invariance, PTL

=============================================================================
