-------------------------- MODULE ShardLoad_proofs --------------------------
(***************************************************************************)
(* Proofs about ShardLoad, for any layers, checkpoints and numbers of      *)
(* ranks, and tensors in any order: what a rank keeps is whole blocks and  *)
(* its own, the ranks make up the layer, and what cuts exactly is served.  *)
(***************************************************************************)
EXTENDS ShardLoad, FiniteSetTheorems, WellFoundedInduction, TLAPS

(***************************************************************************)
(* Arithmetic of blocks.                                                    *)
(***************************************************************************)
LEMMA Sizes ==
    /\ HadBlock \in Nat \ {0} /\ Tile \in Nat \ {0} /\ VocabPad \in Nat \ {0}
    /\ Tolerance \in 0 .. 49 /\ HadBlock % Tile = 0 /\ HadBlock % VocabPad = 0
BY ShardAssumption DEF Divides

LEMMA Quotient ==
    ASSUME NEW n \in Int, NEW d \in Nat \ {0}
    PROVE  /\ n \div d \in Int /\ n % d \in 0 .. d - 1
           /\ n = d * (n \div d) + (n % d)
           /\ n >= 0 => n \div d \in Nat
<1>1. n \div d \in Int /\ n % d \in 0 .. d - 1 /\ n = d * (n \div d) + (n % d)
  OBVIOUS
<1>2. PICK q \in Int : q = n \div d
  BY <1>1
<1>3. PICK w \in 0 .. d - 1 : n = d * q + w
  BY <1>1, <1>2
<1>4. ASSUME n >= 0, q < 0 PROVE FALSE
  <2>1. PICK k \in Nat : q = -1 - k
    BY <1>4, -1 - q \in Nat
  <2>2. d * q = -d - d * k /\ d * k \in Nat
    BY <2>1
  <2>3. PICK x \in Nat : d * q = -d - x
    BY <2>2
  <2>4. n = w - d - x
    BY <1>3, <2>3
  <2> QED BY <1>4, <2>4
<1>5. n >= 0 => q \in Nat
  BY <1>4
<1> QED BY <1>1, <1>2, <1>5

LEMMA QuotientOnly ==
    ASSUME NEW d \in Nat \ {0}, NEW a \in Int, NEW b \in Int, NEW w \in 0 .. d - 1, d * a = d * b + w
    PROVE  a = b /\ w = 0
<1>1. CASE a > b
  <2>1. PICK k \in Nat : a = b + 1 + k
    BY <1>1, a - b - 1 \in Nat
  <2>2. d * a = d * b + d + d * k
    BY <2>1
  <2>3. d * k >= 0
    OBVIOUS
  <2> QED BY <2>2, <2>3
<1>2. CASE a < b
  <2>1. PICK k \in Nat : b = a + 1 + k
    BY <1>2, b - a - 1 \in Nat
  <2>2. d * b = d * a + d + d * k
    BY <2>1
  <2>3. d * k >= 0
    OBVIOUS
  <2> QED BY <2>2, <2>3
<1>3. CASE a = b
  <2>1. d * a \in Int
    OBVIOUS
  <2> QED BY <1>3, <2>1
<1> QED BY <1>1, <1>2, <1>3

\* Divisibility as a product.
LEMMA Multiple ==
    ASSUME NEW d \in Nat \ {0}, NEW n \in Int
    PROVE  n % d = 0 <=> \E q \in Int : n = d * q
<1>1. ASSUME n % d = 0 PROVE \E q \in Int : n = d * q
  <2>1. PICK q \in Int : q = n \div d
    BY Quotient
  <2>2. n = d * q + 0
    BY <1>1, <2>1, Quotient
  <2>3. n = d * q
    BY <2>2
  <2> QED BY <2>3
<1>2. ASSUME NEW q \in Int, n = d * q PROVE n % d = 0
  <2>1. PICK b \in Int : b = n \div d
    BY Quotient
  <2>2. PICK w \in 0 .. d - 1 : w = n % d
    BY Quotient
  <2>3. d * q = d * b + w
    BY <1>2, <2>1, <2>2, Quotient
  <2>4. w = 0
    BY <2>3, QuotientOnly
  <2> QED BY <2>2, <2>4
<1> QED BY <1>1, <1>2

LEMMA MultipleDiv ==
    ASSUME NEW d \in Nat \ {0}, NEW q \in Int
    PROVE  (d * q) \div d = q /\ (d * q) % d = 0 /\ d * q \in Int
<1>1. d * q \in Int
  OBVIOUS
<1>2. d * q = d * ((d * q) \div d) + ((d * q) % d)
  BY <1>1, Quotient
<1>3. (d * q) \div d \in Int /\ (d * q) % d \in 0 .. d - 1
  BY <1>1, Quotient
<1> QED BY <1>1, <1>2, <1>3, QuotientOnly

\* Sums, products and part of aligned numbers.
LEMMA AlignedIs ==
    ASSUME NEW n \in Int
    PROVE  Aligned(n) <=> \E q \in Int : n = HadBlock * q
BY Sizes, Multiple DEF Aligned

LEMMA AlignedSum ==
    ASSUME NEW a \in Int, NEW b \in Int, Aligned(a), Aligned(b)
    PROVE  Aligned(a + b) /\ Aligned(a - b)
<1>1. PICK p \in Int : a = HadBlock * p
  BY AlignedIs
<1>2. PICK q \in Int : b = HadBlock * q
  BY AlignedIs
<1>3. a + b = HadBlock * (p + q) /\ a - b = HadBlock * (p - q)
  BY <1>1, <1>2, Sizes
<1> QED BY <1>3, AlignedIs

LEMMA AlignedTimes ==
    ASSUME NEW a \in Int, NEW k \in Int, Aligned(a)
    PROVE  Aligned(k * a) /\ k * a \in Int
<1>1. PICK p \in Int : a = HadBlock * p
  BY AlignedIs
<1>2. k * a = HadBlock * (k * p) /\ k * p \in Int /\ k * a \in Int
  BY <1>1, Sizes
<1> QED BY <1>2, AlignedIs

LEMMA AlignedNat ==
    ASSUME NEW a \in Nat, NEW b \in Nat, NEW k \in Nat, Aligned(a)
    PROVE  /\ k * a \in Nat /\ Aligned(k * a)
           /\ Aligned(b) => a + b \in Nat /\ Aligned(a + b)
<1>1. a \in Int /\ b \in Int /\ k \in Int
  OBVIOUS
<1>2. Aligned(k * a)
  BY <1>1, AlignedTimes
<1>3. Aligned(b) => Aligned(a + b)
  BY <1>1, AlignedSum
<1>4. k * a \in Nat /\ a + b \in Nat
  OBVIOUS
<1> QED BY <1>2, <1>3, <1>4

LEMMA TilesWhole ==
    ASSUME NEW n \in Int, Aligned(n)
    PROVE  Tiles(n) = n
<1>1. PICK p \in Int : n = HadBlock * p
  BY AlignedIs
<1>2. PICK k \in Int : HadBlock = Tile * k
  <2>1. HadBlock \in Int /\ Tile \in Nat \ {0} /\ HadBlock % Tile = 0
    BY Sizes
  <2>2. HadBlock % Tile = 0 <=> \E q \in Int : HadBlock = Tile * q
    BY <2>1, Multiple, Zenon
  <2> QED BY <2>1, <2>2
<1>3. n = Tile * (k * p) /\ k * p \in Int
  BY <1>1, <1>2, Sizes
<1>4. n \div Tile = k * p
  BY <1>3, MultipleDiv, Sizes
<1> QED BY <1>3, <1>4, Sizes DEF Tiles

LEMMA Padding ==
    ASSUME NEW n \in Nat
    PROVE  /\ PadDim(n) \in Nat /\ Aligned(PadDim(n)) /\ n <= PadDim(n) /\ PadDim(n) < n + HadBlock
           /\ n > 0 => PadDim(n) >= HadBlock
           /\ Aligned(n) => PadDim(n) = n
<1>1. HadBlock \in Nat \ {0}
  BY Sizes
<1>2. PICK x \in Nat : x = n + HadBlock - 1
  BY <1>1
<1>3. PICK q \in Nat : q = x \div HadBlock
  BY <1>1, Quotient
<1>4. PICK w \in 0 .. HadBlock - 1 : w = x % HadBlock
  BY <1>1, Quotient
<1>5. x = HadBlock * q + w
  BY <1>1, <1>3, <1>4, Quotient
<1>6. q \in Nat /\ w \in 0 .. HadBlock - 1 /\ n + HadBlock - 1 = HadBlock * q + w
  BY <1>2, <1>5
<1>7. PadDim(n) = HadBlock * q
  BY <1>1, <1>2, <1>3 DEF PadDim, Up
<1>8. HadBlock * q \in Nat
  BY <1>1, <1>6
<1>9. Aligned(PadDim(n))
  BY <1>6, <1>7, <1>8, AlignedIs
<1>10. n > 0 => PadDim(n) >= HadBlock
  <2>1. CASE q = 0
    BY <1>1, <1>6, <2>1
  <2>2. CASE q > 0
    <3>1. PICK k \in Nat : q = 1 + k
      BY <1>6, <2>2, q - 1 \in Nat
    <3>2. HadBlock * q = HadBlock + HadBlock * k /\ HadBlock * k \in Nat
      BY <1>1, <3>1
    <3> QED BY <1>1, <1>7, <3>2
  <2> QED BY <1>6, <2>1, <2>2
<1>11. ASSUME Aligned(n) PROVE PadDim(n) = n
  <2>1. PICK p \in Int : n = HadBlock * p
    BY <1>11, AlignedIs
  <2>2. HadBlock * (p + 1) = HadBlock * q + (w + 1) /\ w + 1 \in 1 .. HadBlock
    BY <1>1, <1>6, <2>1
  <2>3. CASE w + 1 < HadBlock
    <3>1. PICK a \in Int, b \in 1 .. HadBlock - 1 : HadBlock * a = HadBlock * q + b
      BY <1>1, <1>6, <2>1, <2>2, <2>3
    <3>2. b \in 0 .. HadBlock - 1 /\ q \in Int
      BY <1>1, <1>6
    <3>3. b = 0
      BY <1>1, <3>1, <3>2, QuotientOnly
    <3> QED BY <1>1, <3>3
  <2>4. CASE w + 1 = HadBlock
    <3>1. HadBlock * p = HadBlock * q
      BY <1>1, <1>6, <2>1, <2>2, <2>4
    <3> QED BY <1>7, <2>1, <3>1
  <2> QED BY <1>1, <2>2, <2>3, <2>4
<1> QED BY <1>1, <1>6, <1>7, <1>8, <1>9, <1>10, <1>11

LEMMA MinOfTwo ==
    ASSUME NEW a \in Int, NEW b \in Int
    PROVE  Min({a, b}) = IF a <= b THEN a ELSE b
BY DEF Min

LEMMA MaxOfTwo ==
    ASSUME NEW a \in Int, NEW b \in Int
    PROVE  Max({a, b}) = IF a <= b THEN b ELSE a
BY DEF Max

\* Where a slice starts and stops.
LEMMA CutIs ==
    ASSUME NEW n \in Nat, NEW first \in Nat, NEW last \in Nat, first <= last
    PROVE  /\ Cut(n, first, last)[1] = IF first <= n THEN first ELSE n
           /\ Cut(n, first, last)[2] = IF last <= n THEN last ELSE n
<1>1. Min({first, n}) = IF first <= n THEN first ELSE n
  BY MinOfTwo
<1>2. Min({last, n}) = IF last <= n THEN last ELSE n
  BY MinOfTwo
<1>3. Max({Min({first, n}), Min({last, n})}) = IF last <= n THEN last ELSE n
  BY <1>1, <1>2, MaxOfTwo
<1> QED BY <1>1, <1>3 DEF Cut

LEMMA CutSound ==
    ASSUME NEW n \in Nat, NEW first \in Nat, NEW last \in Nat, first <= last
    PROVE  LET c == Cut(n, first, last)
           IN  /\ 0 <= c[1] /\ c[1] <= c[2] /\ c[2] <= n /\ c[1] \in Nat /\ c[2] \in Nat
               /\ Aligned(n) /\ Aligned(first) /\ Aligned(last) => Aligned(c[1]) /\ Aligned(c[2])
BY CutIs

(***************************************************************************)
(* Sums.  Total counts one unit per part of a value.                        *)
(***************************************************************************)
Units(f) == UNION {{x} \X (1 .. f[x]) : x \in DOMAIN f}

LEMMA UnitsAre == ASSUME NEW f PROVE \A z : z \in Units(f) <=> \E x \in DOMAIN f : \E n \in 1 .. f[x] : z = <<x, n>>
BY DEF Units

LEMMA UnitsFinite ==
    ASSUME NEW f, IsFiniteSet(DOMAIN f), \A x \in DOMAIN f : f[x] \in Nat
    PROVE  IsFiniteSet(Units(f)) /\ Total(f) = Cardinality(Units(f)) /\ Total(f) \in Nat
<1> DEFINE pile == [x \in DOMAIN f |-> {x} \X (1 .. f[x])]
           piles == {{x} \X (1 .. f[x]) : x \in DOMAIN f}
<1>1. pile \in Surjection(DOMAIN f, piles)
  BY DEF Surjection
<1>2. IsFiniteSet(piles)
  <2> HIDE DEF pile, piles
  <2> QED BY <1>1, FS_Surjection
<1>3. \A T \in piles : IsFiniteSet(T)
  <2>1. ASSUME NEW x \in DOMAIN f PROVE IsFiniteSet({x} \X (1 .. f[x]))
    <3>1. PICK n \in Int : f[x] = n
      OBVIOUS
    <3>2. IsFiniteSet(1 .. n)
      BY FS_Interval
    <3>3. IsFiniteSet({x})
      BY FS_Singleton
    <3> QED BY <3>1, <3>2, <3>3, FS_Product
  <2> QED BY <2>1
<1>4. IsFiniteSet(Units(f))
  <2> HIDE DEF piles
  <2>1. IsFiniteSet(UNION piles)
    BY <1>2, <1>3, FS_UNION
  <2> QED BY <2>1 DEF Units, piles
<1> QED BY <1>4, FS_CardinalityType DEF Total, Units

\* A multiple of every value sums up to the multiple of the sum.
LEMMA TotalTimes ==
    ASSUME NEW f, NEW g, IsFiniteSet(DOMAIN g), DOMAIN f = DOMAIN g, NEW k \in Nat \ {0},
           \A x \in DOMAIN g : g[x] \in Nat /\ f[x] = k * g[x]
    PROVE  Total(f) = k * Total(g) /\ Total(f) \in Nat /\ Total(g) \in Nat
<1> DEFINE parts == Units(g) \X (1 .. k)
           place(u, n) == k * (u[2] - 1) + n
           join == [p \in parts |-> <<p[1][1], place(p[1], p[2])>>]
<1>1. ASSUME NEW x \in DOMAIN f PROVE f[x] \in Nat
  <2>1. PICK v \in Nat : v = g[x]
    OBVIOUS
  <2>2. k * v \in Nat
    OBVIOUS
  <2> QED BY <2>1, <2>2
<1>2. /\ IsFiniteSet(Units(g)) /\ Total(g) = Cardinality(Units(g)) /\ Total(g) \in Nat
      /\ IsFiniteSet(Units(f)) /\ Total(f) = Cardinality(Units(f)) /\ Total(f) \in Nat
  BY <1>1, UnitsFinite
<1>3. IsFiniteSet(1 .. k) /\ Cardinality(1 .. k) = k
  BY FS_Interval
<1>4. IsFiniteSet(parts) /\ Cardinality(parts) = Cardinality(Units(g)) * k
  <2>1. IsFiniteSet(parts) /\ Cardinality(parts) = Cardinality(Units(g)) * Cardinality(1 .. k)
    BY <1>2, <1>3, FS_Product
  <2> QED BY <1>3, <2>1, Zenon
<1>5. ASSUME NEW p \in parts PROVE join[p] \in Units(f)
  <2>1. PICK x \in DOMAIN g, n \in Nat, j \in 1 .. k : n \in 1 .. g[x] /\ p = <<<<x, n>>, j>>
    BY UnitsAre
  <2>2. PICK v \in Nat : v = g[x]
    OBVIOUS
  <2>3. PICK a \in Nat, b \in Nat : a = n - 1 /\ b = v - n
    BY <2>1, <2>2, n - 1 \in Nat, v - n \in Nat
  <2>4. v = a + b + 1 /\ f[x] = k * v
    BY <2>1, <2>2, <2>3
  <2>5. k * v = k * a + k * b + k /\ k * a \in Nat /\ k * b \in Nat
    BY <2>4
  <2>6. k * a + j \in 1 .. f[x]
    BY <2>4, <2>5
  <2>7. join[p] = <<x, k * a + j>>
    BY <2>1, <2>3
  <2> HIDE DEF join, place
  <2> QED BY <2>6, <2>7, UnitsAre
<1>6. ASSUME NEW p \in parts, NEW q \in parts, join[p] = join[q] PROVE p = q
  <2>1. PICK x \in DOMAIN g, n \in Nat, j \in 1 .. k : n \in 1 .. g[x] /\ p = <<<<x, n>>, j>>
    BY UnitsAre
  <2>2. PICK y \in DOMAIN g, m \in Nat, i \in 1 .. k : m \in 1 .. g[y] /\ q = <<<<y, m>>, i>>
    BY UnitsAre
  <2>3. x = y /\ k * (n - 1) + j = k * (m - 1) + i
    BY <1>6, <2>1, <2>2
  <2>4. PICK a \in Int, b \in Int : a = n - 1 /\ b = m - 1
    BY <2>1, <2>2
  <2>5. k * a + j = k * b + i
    BY <2>3, <2>4
  <2>6. a = b /\ i = j
    <3>1. CASE j >= i
      <4>1. PICK w \in 0 .. k - 1 : w = j - i
        BY <3>1
      <4>2. k * b = k * a + w
        BY <2>5, <4>1
      <4> QED BY <4>1, <4>2, QuotientOnly
    <3>2. CASE j < i
      <4>1. PICK w \in 0 .. k - 1 : w = i - j
        BY <3>2
      <4>2. k * a = k * b + w
        BY <2>5, <4>1
      <4> QED BY <4>1, <4>2, QuotientOnly
    <3> QED BY <3>1, <3>2
  <2> QED BY <2>1, <2>2, <2>3, <2>4, <2>6
<1>7. ASSUME NEW z \in Units(f) PROVE \E p \in parts : join[p] = z
  <2>1. PICK x \in DOMAIN f, c \in Nat : c \in 1 .. f[x] /\ z = <<x, c>>
    BY UnitsAre
  <2>2. PICK v \in Nat : v = g[x]
    OBVIOUS
  <2>3. PICK b \in Nat : b = (c - 1) \div k
    BY <2>1, <2>2, Quotient, c - 1 \in Int, c - 1 >= 0
  <2>4. PICK w \in 0 .. k - 1 : w = (c - 1) % k
    BY <2>1, <2>2, Quotient, c - 1 \in Int
  <2>5. c - 1 = k * b + w
    BY <2>1, <2>2, <2>3, <2>4, Quotient, c - 1 \in Int
  <2>6. b < v
    <3>1. SUFFICES ASSUME b >= v PROVE FALSE
      BY <2>2, <2>3
    <3>2. PICK e \in Nat : b = v + e
      BY <2>2, <2>3, <3>1, b - v \in Nat
    <3>3. k * b = k * v + k * e /\ k * e \in Nat /\ k * v \in Nat
      BY <2>2, <3>2
    <3>4. c <= k * v
      BY <2>1, <2>2
    <3> QED BY <2>1, <2>2, <2>5, <3>3, <3>4
  <2> DEFINE p == <<<<x, b + 1>>, w + 1>>
  <2>7. p \in parts
    BY <2>2, <2>3, <2>4, <2>6, UnitsAre
  <2>8. join[p] = <<x, k * b + w + 1>>
    BY <2>3, <2>4, <2>7
  <2>9. k * b + w + 1 = c
    BY <2>1, <2>2, <2>5
  <2> QED BY <2>1, <2>7, <2>8, <2>9
<1>8. join \in Bijection(parts, Units(f))
  <2>1. join \in [parts -> Units(f)]
    BY <1>5
  <2> HIDE DEF join, parts
  <2> QED BY <2>1, <1>6, <1>7 DEF Bijection, Injection, Surjection, IsInjective
<1>9. Cardinality(Units(f)) = Cardinality(parts)
  <2> HIDE DEF join, parts
  <2> QED BY <1>4, <1>8, FS_Bijection DEF ExistsBijection
<1> QED BY <1>2, <1>4, <1>9

LEMMA TotalAligned ==
    ASSUME NEW f, IsFiniteSet(DOMAIN f), \A x \in DOMAIN f : f[x] \in Nat /\ Aligned(f[x])
    PROVE  Total(f) \in Nat /\ Aligned(Total(f))
<1> DEFINE g == [x \in DOMAIN f |-> f[x] \div HadBlock]
<1>1. DOMAIN g = DOMAIN f
  OBVIOUS
<1>2. ASSUME NEW x \in DOMAIN g PROVE g[x] \in Nat /\ f[x] = HadBlock * g[x]
  <2>1. PICK v \in Nat : v = f[x] /\ Aligned(v)
    OBVIOUS
  <2>2. PICK q \in Nat : q = v \div HadBlock
    BY Quotient, Sizes
  <2>3. v = HadBlock * q + 0
    <3>1. v \in Int /\ HadBlock \in Nat \ {0} /\ v % HadBlock = 0
      BY <2>1, Sizes DEF Aligned
    <3>2. v = HadBlock * (v \div HadBlock) + (v % HadBlock)
      BY <3>1, Quotient
    <3> QED BY <2>2, <3>1, <3>2
  <2>4. v = HadBlock * q
    BY <2>3, Sizes
  <2> QED BY <2>1, <2>2, <2>4
<1> HIDE DEF g
<1>3. Total(f) = HadBlock * Total(g) /\ Total(f) \in Nat /\ Total(g) \in Nat
  BY <1>1, <1>2, TotalTimes, Sizes
<1> QED BY <1>3, AlignedIs

(***************************************************************************)
(* The layer at hand.                                                       *)
(***************************************************************************)
Fixed == layer \in Layers /\ ck \in Checkpoints(layer.kind)

LEMMA LayerIs ==
    ASSUME Fixed
    PROVE  /\ layer.kind \in {"column", "row", "merged", "qkv", "head", "moe"}
           /\ layer.tp \in Nat \ {0} /\ layer.in \in Nat \ {0} /\ layer.out \in Seq(Nat \ {0})
           /\ layer.stored \in Seq(Seq(Nat)) /\ layer.kvHeads \in Nat /\ layer.experts \in Nat
           /\ ck.narrow \in BOOLEAN /\ ck.lacks \subseteq Names
           /\ ck.scale \in Nat /\ ck.noise \in Seq(Int)
<1>1. layer \in LayerOf /\ ck \in CheckpointOf
  BY ShardAssumption DEF Fixed
<1> QED BY <1>1 DEF LayerOf, CheckpointOf, Names

LEMMA OutIs ==
    ASSUME Fixed
    PROVE  /\ layer.kind \in {"column", "row", "head", "moe"} => Len(layer.out) = 1
           /\ layer.kind \in {"column", "row", "head"} => layer.stored = <<<<1>>>>
           /\ layer.kind = "qkv" => /\ Len(layer.out) = 3 /\ layer.kvHeads > 0
                                    /\ layer.out[2] % layer.kvHeads = 0 /\ layer.out[2] = layer.out[3]
                                    /\ layer.kvHeads % layer.tp = 0 \/ layer.tp % layer.kvHeads = 0
           /\ layer.kind = "moe" => layer.experts > 0 /\ Len(ck.noise) = layer.experts
           /\ layer.kind \in {"column", "merged", "qkv"} =>
                \A i \in DOMAIN layer.out : layer.out[i] % layer.tp = 0
           /\ layer.kind = "row" => layer.in % layer.tp = 0
BY ShardAssumption DEF Fixed, Divides

\* The shards, or the expert's projection, that a module stores.
KeysOf(m) == IF layer.kind = "moe" THEN {m} ELSE ToSet(m)

LEMMA ModuleIs ==
    ASSUME Fixed, NEW m \in Modules
    PROVE  /\ layer.kind = "moe" => \E p \in {"w1", "w3", "w2"}, e \in Experts : m = <<p, e>>
           /\ layer.kind # "moe" => m \in Seq(Nat) /\ m # <<>> /\ Len(m) > 0
           /\ KeysOf(m) \subseteq Keys
           /\ layer.kind \in {"column", "row", "head"} => m = <<1>>
           /\ \A n \in Modules : KeysOf(m) \cap KeysOf(n) # {} => m = n
<1>1. CASE layer.kind = "moe"
  <2>1. Modules = {<<p, e>> : p \in ToSet(Projection), e \in Experts}
    BY <1>1 DEF Modules
  <2>2. ToSet(Projection) = {"w1", "w3", "w2"}
    BY DEF ToSet, Projection
  <2> QED BY <1>1, <2>1, <2>2 DEF KeysOf, Keys
<1>2. CASE layer.kind # "moe"
  <2>1. \A n \in Modules : n \in ToSet(layer.stored)
    BY <1>2 DEF Modules
  <2>2. ToSet(layer.stored) \subseteq Seq(Nat)
    BY LayerIs DEF ToSet
  <2>3. \A n \in ToSet(layer.stored) : n # <<>> /\ ToSet(n) \subseteq DOMAIN layer.out
    BY ShardAssumption DEF Fixed
  <2>4. \A n, o \in ToSet(layer.stored) : n = o \/ ToSet(n) \cap ToSet(o) = {}
    BY ShardAssumption DEF Fixed
  <2>5. layer.kind \in {"column", "row", "head"} => m = <<1>>
    <3>1. ToSet(<<<<1>>>>) = {<<1>>}
      BY DEF ToSet
    <3> QED BY <2>1, <3>1, OutIs
  <2>6. m \in Seq(Nat) /\ m # <<>>
    BY <2>1, <2>2, <2>3
  <2>7. Len(m) > 0
    BY <2>6
  <2> QED BY <1>2, <2>1, <2>3, <2>4, <2>5, <2>6, <2>7 DEF KeysOf, Keys
<1> QED BY <1>1, <1>2

LEMMA WidthsAre ==
    ASSUME Fixed, NEW i \in DOMAIN layer.out
    PROVE  OutSize(i) \in Nat /\ InSize \in Nat /\ Replicas \in Nat /\ layer.out[i] \in Nat \ {0}
<1>1. layer.out[i] \in Nat \ {0} /\ layer.tp \in Nat \ {0} /\ layer.in \in Nat \ {0} /\ layer.kvHeads \in Nat
  BY LayerIs
<1>2. 1 \in DOMAIN layer.out /\ layer.out[1] \in Nat \ {0}
  BY <1>1, LayerIs
<1>3. \A n \in Nat, d \in Nat \ {0} : n \div d \in Nat
  BY Quotient
<1>4. layer.kind = "qkv" => layer.kvHeads \in Nat \ {0}
  BY <1>1, OutIs
<1>5. Padded \in Nat
  <2>1. PICK n \in Nat : n = layer.out[1] + VocabPad - 1
    BY <1>2, Sizes
  <2>2. n \div VocabPad \in Nat
    BY <1>3, Sizes
  <2>3. (n \div VocabPad) * VocabPad \in Nat
    BY <2>2, Sizes
  <2> QED BY <2>1, <2>3 DEF Padded, Up
<1>6. InSize \in Nat
  BY <1>1, <1>3 DEF InSize
<1>7. Replicas \in Nat
  BY <1>1, <1>3, <1>4 DEF Replicas
<1>8. OutSize(i) \in Nat
  BY <1>1, <1>3, <1>4, <1>5 DEF OutSize
<1> QED BY <1>1, <1>6, <1>7, <1>8

\* A stored tensor is whole blocks: exllamav3 pads it.
LEMMA StoredIs ==
    ASSUME Fixed, NEW m \in Modules
    PROVE  /\ StoredIn(m) \in Nat /\ Aligned(StoredIn(m))
           /\ StoredOut(m) \in Nat /\ Aligned(StoredOut(m))
<1>1. layer.in \in Nat \ {0}
  BY LayerIs
<1>2. StoredIn(m) \in Nat /\ Aligned(StoredIn(m))
  <2>1. CASE layer.kind = "moe" /\ m[1] = "w2"
    <3>1. layer.out[1] \in Nat
      BY <2>1, LayerIs, OutIs
    <3> QED BY <2>1, <3>1, Padding DEF StoredIn
  <2>2. CASE ~(layer.kind = "moe" /\ m[1] = "w2")
    BY <1>1, <2>2, Padding DEF StoredIn
  <2> QED BY <2>1, <2>2
<1>3. CASE layer.kind = "moe"
  <2>1. layer.out[1] \in Nat
    BY <1>3, LayerIs, OutIs
  <2>2. StoredOut(m) = PadDim(IF m[1] = "w2" THEN layer.in ELSE layer.out[1])
    BY <1>3 DEF StoredOut
  <2>3. StoredOut(m) \in Nat /\ Aligned(StoredOut(m))
    BY <1>1, <2>1, <2>2, Padding
  <2> QED BY <1>2, <2>3
<1>4. CASE layer.kind # "moe"
  <2> DEFINE widths == [j \in DOMAIN m |-> layer.out[m[j]]]
  <2>1. m \in Seq(Nat) /\ Len(m) > 0 /\ ToSet(m) \subseteq DOMAIN layer.out
    BY <1>4, ModuleIs DEF KeysOf, Keys
  <2>2. DOMAIN m = 1 .. Len(m) /\ Len(m) \in Nat
    BY <2>1
  <2>3. \A j \in DOMAIN m : widths[j] \in Nat \ {0}
    BY <2>1, LayerIs DEF ToSet
  <2>4. DOMAIN widths = DOMAIN m /\ IsFiniteSet(DOMAIN widths) /\ 1 \in DOMAIN widths
    BY <2>1, <2>2, FS_Interval
  <2>5. StoredOut(m) = Narrower(PadDim(Total(widths)))
    BY <1>4 DEF StoredOut
  <2> HIDE DEF widths
  <2>6. IsFiniteSet(Units(widths)) /\ Total(widths) = Cardinality(Units(widths)) /\ Total(widths) \in Nat
    BY <2>3, <2>4, UnitsFinite
  <2>7. Total(widths) > 0
    <3>1. 1 \in 1 .. widths[1]
      BY <2>3, <2>4
    <3>2. <<1, 1>> \in Units(widths)
      BY <2>4, <3>1, UnitsAre
    <3>3. Cardinality(Units(widths)) # 0
      BY <2>6, <3>2, FS_EmptySet
    <3> QED BY <2>6, <3>3
  <2>8. PICK n \in Nat : n = PadDim(Total(widths))
    BY <2>6, Padding
  <2>9. Aligned(n) /\ n >= HadBlock
    BY <2>6, <2>7, <2>8, Padding
  <2>10. Aligned(HadBlock) /\ HadBlock \in Nat
    <3>1. HadBlock = HadBlock * 1
      BY Sizes
    <3> QED BY <3>1, Sizes, AlignedIs
  <2>11. n - HadBlock \in Nat /\ Aligned(n - HadBlock)
    BY <2>9, <2>10, AlignedSum
  <2>12. StoredOut(m) \in Nat /\ Aligned(StoredOut(m))
    BY <2>5, <2>8, <2>9, <2>11 DEF Narrower
  <2> QED BY <1>2, <2>12
<1> QED BY <1>3, <1>4
(***************************************************************************)
(* What a rank takes of a tensor, whichever loader it came through.         *)
(***************************************************************************)
Fuses(m) == layer.kind \in {"merged", "qkv"} /\ Len(m) > 1
ByRow(m) == layer.kind = "row" \/ (layer.kind = "moe" /\ m[1] = "w2")
SizeOf(m, i) ==
    IF layer.kind = "row" THEN InSize ELSE IF layer.kind = "moe" THEN SplitWidth(m) ELSE OutSize(i)
IndexOf(r, i) == IF layer.kind = "qkv" /\ i # 1 THEN KvIndex(r) ELSE r
FirstOf(m, r, i) ==
    IF Fuses(m) THEN FusedOffset(m, CHOOSE k \in DOMAIN m : m[k] = i) + r * OutSize(i)
    ELSE IndexOf(r, i) * SizeOf(m, i)
Unsplit(m) == layer.tp = 1 /\ ~Fuses(m)
Piece(name, m, r, i) ==
    IF Unsplit(m) THEN Whole(m)
    ELSE IF ByRow(m) THEN ShardRow(name, m, FirstOf(m, r, i), FirstOf(m, r, i) + SizeOf(m, i))
    ELSE ShardColumn(name, m, FirstOf(m, r, i), FirstOf(m, r, i) + SizeOf(m, i))

\* Experts' scales of the channels that are not split are read whole.
Replicated(name, m) == layer.kind = "moe" /\ name = IF m[1] = "w2" THEN "svh" ELSE "suh"
WellCut(m, r, i) ==
    Unsplit(m) \/ /\ FirstOf(m, r, i) \in Nat /\ Aligned(FirstOf(m, r, i))
                  /\ SizeOf(m, i) \in Nat /\ Aligned(SizeOf(m, i))

LEMMA TakenIs ==
    ASSUME Fixed, NEW name \in Names, NEW m \in Modules, NEW r, NEW i \in DOMAIN Taken(name, m, r)
    PROVE  /\ i \in KeysOf(m) /\ Taken(name, m, r)[i] = Piece(name, m, r, i)
           /\ Fuses(m) => \A j \in DOMAIN m : Aligned(OutSize(m[j]))
           /\ layer.kind = "moe" /\ ~Replicated(name, m) => CheckSplit(Intermediate(m))
<1>1. CASE layer.kind \in {"column", "head", "row"}
  <2>1. m = <<1>> /\ KeysOf(m) = {1}
    <3>1. layer.kind \in {"column", "head", "row"} => m = <<1>>
      BY ModuleIs
    <3>2. ToSet(<<1>>) = {1}
      BY DEF ToSet
    <3> QED BY <1>1, <3>1, <3>2 DEF KeysOf
  <2>2. ~Fuses(m) /\ layer.kind # "moe"
    BY <1>1 DEF Fuses
  <2>3. CASE layer.kind = "row"
    <3>1. Taken(name, m, r) = [k \in {1} |-> TakeRow(name, m, InSize, r)]
      BY <2>3 DEF Taken
    <3> HIDE DEF Taken
    <3> QED BY <2>1, <2>2, <2>3, <3>1 DEF TakeRow, Piece, Unsplit, ByRow, FirstOf, IndexOf, SizeOf
  <2>4. CASE layer.kind \in {"column", "head"}
    <3>1. Taken(name, m, r) = [k \in {1} |-> TakeColumn(name, m, OutSize(1), r)]
      BY <2>4 DEF Taken
    <3> HIDE DEF Taken
    <3> QED BY <2>1, <2>2, <2>4, <3>1 DEF TakeColumn, Piece, Unsplit, ByRow, FirstOf, IndexOf, SizeOf
  <2> QED BY <1>1, <2>3, <2>4
<1>2. CASE layer.kind \in {"merged", "qkv"}
  <2>1. KeysOf(m) = ToSet(m) /\ layer.kind # "moe"
    BY <1>2 DEF KeysOf
  <2>2. CASE Len(m) > 1
    <3>1. Taken(name, m, r) = Fused(name, m, r)
      BY <1>2, <2>2 DEF Taken, LoadMerged, LoadQkv
    <3>2. i \in DOMAIN Fused(name, m, r)
      BY <3>1
    <3>3. \A j \in DOMAIN m : Aligned(OutSize(m[j]))
      BY <3>2 DEF Fused, Refused
    <3> DEFINE first(k) == FusedOffset(m, CHOOSE j \in DOMAIN m : m[j] = k) + r * OutSize(k)
    <3>4. Taken(name, m, r) = [k \in ToSet(m) |-> ShardColumn(name, m, first(k), first(k) + OutSize(k))]
      BY <3>1, <3>3 DEF Fused
    <3>5. i \in ToSet(m) /\ Taken(name, m, r)[i] = ShardColumn(name, m, first(i), first(i) + OutSize(i))
      BY <3>4
    <3>6. Fuses(m) /\ ~ByRow(m) /\ ~Unsplit(m)
      BY <1>2, <2>2 DEF Fuses, ByRow, Unsplit
    <3>7. FirstOf(m, r, i) = first(i) /\ SizeOf(m, i) = OutSize(i)
      BY <1>2, <3>6 DEF FirstOf, SizeOf
    <3> HIDE DEF first
    <3> QED BY <2>1, <3>3, <3>5, <3>6, <3>7 DEF Piece
  <2>3. CASE ~(Len(m) > 1)
    <3>1. Taken(name, m, r) = [k \in ToSet(m) |-> TakeColumn(name, m, OutSize(k), IndexOf(r, k))]
      <4>1. CASE layer.kind = "merged"
        BY <2>3, <4>1 DEF Taken, LoadMerged, IndexOf
      <4>2. CASE layer.kind = "qkv"
        <5>1. Taken(name, m, r)
                = [k \in ToSet(m) |-> TakeColumn(name, m, OutSize(k), IF k = 1 THEN r ELSE KvIndex(r))]
          BY <2>3, <4>2 DEF Taken, LoadQkv
        <5>2. \A k : IndexOf(r, k) = IF k = 1 THEN r ELSE KvIndex(r)
          BY <4>2 DEF IndexOf
        <5> QED BY <5>1, <5>2
      <4> QED BY <1>2, <4>1, <4>2
    <3>2. i \in ToSet(m) /\ Taken(name, m, r)[i] = TakeColumn(name, m, OutSize(i), IndexOf(r, i))
      BY <3>1
    <3>3. ~Fuses(m) /\ ~ByRow(m) /\ SizeOf(m, i) = OutSize(i)
      BY <1>2, <2>3 DEF Fuses, ByRow, SizeOf
    <3> QED BY <2>1, <3>2, <3>3 DEF TakeColumn, Piece, Unsplit, FirstOf
  <2> QED BY <2>2, <2>3
<1>3. CASE layer.kind = "moe"
  <2>1. Taken(name, m, r) = LoadExpert(name, m, r)
    BY <1>3 DEF Taken
  <2>2. i \in DOMAIN LoadExpert(name, m, r)
    BY <2>1
  <2>3. ~Replicated(name, m) => CheckSplit(Intermediate(m))
    BY <1>3, <2>2 DEF LoadExpert, Refused, Replicated
  <2>4. Taken(name, m, r) = [k \in {m} |-> IF m[1] = "w2" THEN TakeRow(name, m, SplitWidth(m), r)
                                            ELSE TakeColumn(name, m, SplitWidth(m), r)]
    BY <1>3, <2>1, <2>3 DEF LoadExpert, Replicated
  <2>5. i = m /\ Taken(name, m, r)[i] = IF m[1] = "w2" THEN TakeRow(name, m, SplitWidth(m), r)
                                         ELSE TakeColumn(name, m, SplitWidth(m), r)
    BY <2>4
  <2>6. ~Fuses(m) /\ SizeOf(m, i) = SplitWidth(m) /\ IndexOf(r, i) = r /\ KeysOf(m) = {m}
    BY <1>3 DEF Fuses, SizeOf, IndexOf, KeysOf
  <2> QED BY <1>3, <2>3, <2>5, <2>6 DEF TakeColumn, TakeRow, Piece, Unsplit, ByRow, FirstOf
<1> QED BY <1>1, <1>2, <1>3, LayerIs

LEMMA QuotientPositive ==
    ASSUME NEW n \in Nat, NEW d \in Nat \ {0}, d <= n
    PROVE  n \div d > 0
<1>1. PICK q \in Nat : q = n \div d
  BY Quotient
<1>2. PICK w \in 0 .. d - 1 : w = n % d
  BY Quotient
<1>3. n = d * q + w
  BY <1>1, <1>2, Quotient
<1>4. CASE q = 0
  <2>1. n = w
    BY <1>3, <1>4
  <2> QED BY <2>1
<1> QED BY <1>1, <1>4

\* Ranks that share a KV head.
LEMMA ReplicasAre ==
    ASSUME Fixed
    PROVE  Replicas \in Nat \ {0} /\ \A r \in Rank : r \in Nat /\ KvIndex(r) \in Nat /\ IndexOf(r, 1) \in Nat
<1>1. Replicas \in Nat \ {0}
  <2>1. CASE layer.kind = "qkv" /\ layer.kvHeads < layer.tp
    <3>1. layer.kvHeads \in Nat \ {0} /\ layer.tp \in Nat \ {0} /\ layer.kvHeads <= layer.tp
      BY <2>1, LayerIs, OutIs
    <3>2. layer.tp \div layer.kvHeads \in Nat /\ layer.tp \div layer.kvHeads > 0
      <4>1. PICK n \in Nat : n = layer.tp
        BY <3>1
      <4>2. PICK d \in Nat \ {0} : d = layer.kvHeads /\ d <= n
        BY <3>1, <4>1
      <4>3. n \div d \in Nat
        BY Quotient, n \in Int, n >= 0
      <4>4. n \div d > 0
        BY <4>2, QuotientPositive
      <4> QED BY <4>1, <4>2, <4>3, <4>4
    <3> QED BY <2>1, <3>2 DEF Replicas
  <2>2. CASE ~(layer.kind = "qkv" /\ layer.kvHeads < layer.tp)
    BY <2>2 DEF Replicas
  <2> QED BY <2>1, <2>2
<1>2. ASSUME NEW r \in Rank PROVE r \in Nat /\ KvIndex(r) \in Nat
  <2>1. r \in Nat
    BY LayerIs DEF Rank
  <2>2. r \div Replicas \in Nat
    BY <1>1, <2>1, Quotient, r \in Int, r >= 0
  <2> QED BY <2>1, <2>2 DEF KvIndex
<1> QED BY <1>1, <1>2 DEF IndexOf

LEMMA SizeIs ==
    ASSUME Fixed, NEW m \in Modules, NEW i \in KeysOf(m)
    PROVE  SizeOf(m, i) \in Nat
<1>1. layer.tp \in Nat \ {0} /\ layer.in \in Nat
  BY LayerIs
<1>2. \A n \in Nat : n \div layer.tp \in Nat
  BY <1>1, Quotient
<1>3. CASE layer.kind = "row"
  BY <1>1, <1>2, <1>3 DEF SizeOf, InSize
<1>4. CASE layer.kind = "moe"
  BY <1>2, <1>4, StoredIs DEF SizeOf, SplitWidth, Intermediate
<1>5. CASE layer.kind \notin {"row", "moe"}
  <2>1. i \in DOMAIN layer.out
    BY <1>5, ModuleIs DEF Keys
  <2> QED BY <1>5, <2>1, WidthsAre DEF SizeOf
<1> QED BY <1>3, <1>4, <1>5

\* What the code checks makes every cut whole blocks.
LEMMA CutsAreBlocks ==
    ASSUME Fixed, ValidTp, NEW m \in Modules, NEW r \in Rank, NEW i \in KeysOf(m),
           Fuses(m) => \A j \in DOMAIN m : Aligned(OutSize(m[j])),
           layer.kind = "moe" => CheckSplit(Intermediate(m))
    PROVE  WellCut(m, r, i)
<1>1. layer.tp \in Nat \ {0} /\ r \in Nat
  BY LayerIs, ReplicasAre
<1>2. SizeOf(m, i) \in Nat
  BY SizeIs
<1>3. CASE Fuses(m)
  <2> DEFINE at == CHOOSE k \in DOMAIN m : m[k] = i
             before == [x \in 1 .. at - 1 |-> OutSize(m[x])]
  <2>1. layer.kind \in {"merged", "qkv"} /\ m \in Seq(Nat)
    BY <1>3, ModuleIs DEF Fuses
  <2>2. KeysOf(m) = ToSet(m) /\ ToSet(m) \subseteq DOMAIN layer.out
    BY <2>1, ModuleIs DEF KeysOf, Keys
  <2>3. at \in DOMAIN m /\ m[at] = i
    BY <2>2 DEF ToSet
  <2>4. \A x \in DOMAIN m : OutSize(m[x]) \in Nat /\ Aligned(OutSize(m[x]))
    BY <1>3, <2>2, WidthsAre DEF ToSet
  <2>5. at \in Nat /\ 1 .. at - 1 \subseteq DOMAIN m
    BY <2>1, <2>3
  <2>6. DOMAIN before = 1 .. at - 1 /\ IsFiniteSet(1 .. at - 1)
    BY <2>5, FS_Interval
  <2>7. \A x \in DOMAIN before : before[x] \in Nat /\ Aligned(before[x])
    BY <2>4, <2>5
  <2>8. FusedOffset(m, at) = layer.tp * Total(before)
    BY DEF FusedOffset
  <2>9. FirstOf(m, r, i) = FusedOffset(m, at) + r * OutSize(i)
    BY <1>3 DEF FirstOf
  <2>10. SizeOf(m, i) = OutSize(i)
    BY <2>1 DEF SizeOf
  <2>11. OutSize(i) \in Nat /\ Aligned(OutSize(i))
    BY <2>3, <2>4
  <2> HIDE DEF before, at
  <2>12. Total(before) \in Nat /\ Aligned(Total(before))
    BY <2>6, <2>7, TotalAligned
  <2>13. PICK a \in Nat : a = layer.tp * Total(before) /\ Aligned(a)
    <3>1. layer.tp \in Nat
      BY <1>1
    <3> QED BY <2>12, <3>1, AlignedNat
  <2>14. PICK b \in Nat : b = r * OutSize(i) /\ Aligned(b)
    BY <1>1, <2>11, AlignedNat
  <2>15. a + b \in Nat /\ Aligned(a + b)
    BY <2>13, <2>14, AlignedNat
  <2> QED BY <2>8, <2>9, <2>10, <2>11, <2>13, <2>14, <2>15 DEF WellCut
<1>4. CASE ~Fuses(m) /\ layer.tp # 1
  <2>1. Aligned(SizeOf(m, i))
    <3>1. CASE layer.kind = "row"
      BY <1>4, <3>1 DEF ValidTp, CheckSplit, SizeOf, InSize
    <3>2. CASE layer.kind = "moe"
      BY <1>4, <3>2 DEF CheckSplit, SizeOf, SplitWidth
    <3>3. CASE layer.kind \in {"column", "merged", "qkv", "head"}
      <4>1. i \in DOMAIN layer.out
        BY <3>3, ModuleIs DEF Keys
      <4>2. layer.kind = "head" => i = 1
        <5>1. layer.kind = "head" => m = <<1>> /\ KeysOf(m) = ToSet(m)
          BY ModuleIs DEF KeysOf
        <5>2. ToSet(<<1>>) = {1}
          BY DEF ToSet
        <5> QED BY <5>1, <5>2
      <4>3. CheckSplit(OutSize(i) * layer.tp)
        BY <3>3, <4>1, <4>2 DEF ValidTp, ValidHead
      <4>4. PICK n \in Nat : n = OutSize(i)
        BY <4>1, WidthsAre
      <4>5. (n * layer.tp) \div layer.tp = n
        <5>1. n * layer.tp = layer.tp * n
          BY <1>1
        <5> QED BY <1>1, <5>1, MultipleDiv
      <4>6. Aligned(OutSize(i))
        BY <1>4, <4>3, <4>4, <4>5 DEF CheckSplit
      <4> QED BY <3>3, <4>6 DEF SizeOf
    <3> QED BY <3>1, <3>2, <3>3, LayerIs
  <2>2. PICK k \in Nat : k = IndexOf(r, i)
    BY ReplicasAre DEF IndexOf
  <2>3. PICK n \in Nat : n = SizeOf(m, i)
    BY <1>2
  <2>4. k * n \in Nat /\ Aligned(k * n)
    BY <2>1, <2>3, AlignedTimes
  <2>5. FirstOf(m, r, i) = k * n
    BY <1>4, <2>2, <2>3 DEF FirstOf
  <2> QED BY <1>2, <2>1, <2>4, <2>5 DEF WellCut
<1>5. CASE ~Fuses(m) /\ layer.tp = 1
  BY <1>5 DEF WellCut, Unsplit
<1> QED BY <1>3, <1>4, <1>5

\* What a rank takes of a stored tensor lies in it, and is whole blocks.
Span(s, n) == s[1] \in Nat /\ s[2] \in Nat /\ s[1] <= s[2] /\ s[2] <= n /\ Aligned(s[1]) /\ Aligned(s[2])
InTensor(slice, m) == Span(slice.in, StoredIn(m)) /\ Span(slice.out, StoredOut(m))

LEMMA WholeIn ==
    ASSUME Fixed, NEW m \in Modules
    PROVE  InTensor(Whole(m), m)
<1>1. Aligned(0)
  <2>1. 0 = HadBlock * 0
    BY Sizes
  <2> QED BY <2>1, AlignedIs
<1> QED BY <1>1, StoredIs DEF InTensor, Span, Whole

LEMMA CutIn ==
    ASSUME NEW n \in Nat, Aligned(n), NEW first \in Nat, NEW last \in Nat, first <= last,
           Aligned(first), Aligned(last)
    PROVE  Span(Cut(n, first, last), n) /\ Cut(n, Tiles(first), Tiles(last)) = Cut(n, first, last)
<1>1. Tiles(first) = first /\ Tiles(last) = last
  BY TilesWhole
<1> QED BY <1>1, CutSound DEF Span

\* The three tensors of a module are cut alike.
InCut(m, r, i) == Cut(StoredIn(m), FirstOf(m, r, i), FirstOf(m, r, i) + SizeOf(m, i))
OutCut(m, r, i) == Cut(StoredOut(m), FirstOf(m, r, i), FirstOf(m, r, i) + SizeOf(m, i))

LEMMA PieceIs ==
    ASSUME Fixed, NEW m \in Modules, NEW r \in Rank, NEW i \in KeysOf(m), WellCut(m, r, i), ~Unsplit(m)
    PROVE  /\ Span(InCut(m, r, i), StoredIn(m)) /\ Span(OutCut(m, r, i), StoredOut(m))
           /\ Piece("trellis", m, r, i) = IF ByRow(m) THEN [Whole(m) EXCEPT !.in = InCut(m, r, i)]
                                          ELSE [Whole(m) EXCEPT !.out = OutCut(m, r, i)]
           /\ Piece("suh", m, r, i) = IF ByRow(m) THEN [Whole(m) EXCEPT !.in = InCut(m, r, i)] ELSE Whole(m)
           /\ Piece("svh", m, r, i) = IF ByRow(m) THEN Whole(m) ELSE [Whole(m) EXCEPT !.out = OutCut(m, r, i)]
<1>1. PICK a \in Nat : a = FirstOf(m, r, i) /\ Aligned(a)
  BY DEF WellCut
<1>2. PICK n \in Nat : n = SizeOf(m, i) /\ Aligned(n)
  BY DEF WellCut
<1>3. PICK b \in Nat : b = FirstOf(m, r, i) + SizeOf(m, i) /\ Aligned(b) /\ a <= b
  <2>1. a + n \in Nat /\ Aligned(a + n) /\ a <= a + n
    BY <1>1, <1>2, AlignedNat
  <2> QED BY <1>1, <1>2, <2>1
<1>4. StoredIn(m) \in Nat /\ StoredOut(m) \in Nat /\ Aligned(StoredIn(m)) /\ Aligned(StoredOut(m))
  BY StoredIs
<1>5. /\ Span(Cut(StoredIn(m), a, b), StoredIn(m)) /\ Span(Cut(StoredOut(m), a, b), StoredOut(m))
      /\ Cut(StoredIn(m), Tiles(a), Tiles(b)) = Cut(StoredIn(m), a, b)
      /\ Cut(StoredOut(m), Tiles(a), Tiles(b)) = Cut(StoredOut(m), a, b)
  BY <1>1, <1>3, <1>4, CutIn
<1>6. Whole(m) = [in |-> <<0, StoredIn(m)>>, out |-> <<0, StoredOut(m)>>]
  BY DEF Whole
<1>7. InCut(m, r, i) = Cut(StoredIn(m), a, b) /\ OutCut(m, r, i) = Cut(StoredOut(m), a, b)
  BY <1>1, <1>3 DEF InCut, OutCut
<1>8. <<0, StoredIn(m)>>[2] = StoredIn(m) /\ <<0, StoredOut(m)>>[2] = StoredOut(m)
  OBVIOUS
<1>9. CASE ByRow(m)
  <2>1. \A name : Piece(name, m, r, i) = ShardRow(name, m, a, b)
    BY <1>1, <1>3, <1>9 DEF Piece
  <2> QED BY <1>5, <1>6, <1>7, <1>8, <1>9, <2>1 DEF ShardRow
<1>10. CASE ~ByRow(m)
  <2>1. \A name : Piece(name, m, r, i) = ShardColumn(name, m, a, b)
    BY <1>1, <1>3, <1>10 DEF Piece
  <2> QED BY <1>5, <1>6, <1>7, <1>8, <1>10, <2>1 DEF ShardColumn
<1> QED BY <1>9, <1>10

LEMMA PieceIn ==
    ASSUME Fixed, NEW m \in Modules, NEW r \in Rank, NEW i \in KeysOf(m), NEW name \in Names,
           WellCut(m, r, i) \/ Replicated(name, m)
    PROVE  InTensor(Piece(name, m, r, i), m)
<1>1. CASE Unsplit(m)
  BY <1>1, WholeIn DEF Piece
<1>2. CASE ~Unsplit(m) /\ WellCut(m, r, i)
  <2>1. Whole(m) = [in |-> <<0, StoredIn(m)>>, out |-> <<0, StoredOut(m)>>]
    BY DEF Whole
  <2>2. InTensor(Whole(m), m)
    BY WholeIn
  <2>3. Span(InCut(m, r, i), StoredIn(m)) /\ Span(OutCut(m, r, i), StoredOut(m))
    BY <1>2, PieceIs
  <2>4. Piece(name, m, r, i) \in {Whole(m), [Whole(m) EXCEPT !.in = InCut(m, r, i)],
                                  [Whole(m) EXCEPT !.out = OutCut(m, r, i)]}
    BY <1>2, PieceIs DEF Names
  <2>5. InTensor([Whole(m) EXCEPT !.in = InCut(m, r, i)], m)
    BY <2>1, <2>2, <2>3 DEF InTensor
  <2>6. InTensor([Whole(m) EXCEPT !.out = OutCut(m, r, i)], m)
    BY <2>1, <2>2, <2>3 DEF InTensor
  <2> QED BY <2>2, <2>4, <2>5, <2>6
<1>3. CASE Replicated(name, m)
  <2>1. layer.kind = "moe" /\ name = IF m[1] = "w2" THEN "svh" ELSE "suh"
    BY <1>3 DEF Replicated
  <2>2. Piece(name, m, r, i) = Whole(m)
    BY <2>1 DEF Piece, ByRow, ShardRow, ShardColumn
  <2> QED BY <2>2, WholeIn
<1> QED BY <1>1, <1>2, <1>3

LEMMA TakenIn ==
    ASSUME Fixed, ValidTp, NEW name \in Names, NEW m \in Modules, NEW r \in Rank,
           NEW i \in DOMAIN Taken(name, m, r)
    PROVE  i \in KeysOf(m) /\ InTensor(Taken(name, m, r)[i], m)
<1>1. i \in KeysOf(m) /\ Taken(name, m, r)[i] = Piece(name, m, r, i)
  BY TakenIs
<1>2. WellCut(m, r, i) \/ Replicated(name, m)
  BY <1>1, TakenIs, CutsAreBlocks
<1> QED BY <1>1, <1>2, PieceIn

LEMMA TakenAlike ==
    ASSUME Fixed, ValidTp, NEW m \in Modules, NEW r \in Rank, NEW i,
           \A name \in Names : i \in DOMAIN Taken(name, m, r)
    PROVE  /\ Taken("suh", m, r)[i].in = Taken("trellis", m, r)[i].in
           /\ Taken("svh", m, r)[i].out = Taken("trellis", m, r)[i].out
<1>1. "suh" \in Names /\ "svh" \in Names /\ "trellis" \in Names
  BY DEF Names
<1>2. \A name \in Names : i \in KeysOf(m) /\ Taken(name, m, r)[i] = Piece(name, m, r, i)
  BY TakenIs
<1>3. WellCut(m, r, i)
  <2>1. ~Replicated("trellis", m)
    BY DEF Replicated
  <2> QED BY <1>1, <1>2, <2>1, TakenIs, CutsAreBlocks
<1>4. Whole(m) = [in |-> <<0, StoredIn(m)>>, out |-> <<0, StoredOut(m)>>]
  BY DEF Whole
<1>5. CASE Unsplit(m)
  BY <1>1, <1>2, <1>5 DEF Piece
<1>6. CASE ~Unsplit(m)
  BY <1>1, <1>2, <1>3, <1>4, <1>6, PieceIs
<1> QED BY <1>5, <1>6

(***************************************************************************)
(* Least and greatest of a finite set, and the median of the measures.      *)
(***************************************************************************)
LEMMA GreatestIn ==
    ASSUME NEW S \in SUBSET Int, IsFiniteSet(S), S # {}
    PROVE  Max(S) \in S /\ \A y \in S : y <= Max(S)
<1> DEFINE above(x) == {y \in S : y > x}
           N == {Cardinality(above(x)) : x \in S}
<1>1. \A x \in S : IsFiniteSet(above(x)) /\ Cardinality(above(x)) \in Nat
  BY FS_Subset, FS_CardinalityType
<1>2. N \subseteq Nat /\ N # {}
  BY <1>1
<1>3. ASSUME NEW x \in S, NEW y \in S, y > x
      PROVE  Cardinality(above(y)) < Cardinality(above(x))
  <2>1. y \in above(x) /\ y \notin above(y)
    BY <1>3
  <2>2. above(y) \in SUBSET above(x)
    <3>1. \A z \in S : z > y => z > x
      BY <1>3
    <3> QED BY <3>1
  <2> DEFINE small == above(y)
             big == above(x)
  <2>3. small \in SUBSET big /\ small # big /\ IsFiniteSet(big) /\ IsFiniteSet(small)
    BY <1>1, <2>1, <2>2
  <2> HIDE DEF above, small, big
  <2>4. Cardinality(small) < Cardinality(big)
    BY <2>3, FS_Subset, FS_CardinalityType
  <2> QED BY <2>4 DEF small, big
<1>4. PICK n \in N : \A m \in N : ~(<<m, n>> \in OpToRel(<, Nat))
  <2> HIDE DEF N
  <2> QED BY <1>2, WFMin, NatLessThanWellFounded, Zenon
<1>5. \A m \in N : ~(m < n)
  <2> HIDE DEF N
  <2> QED BY <1>2, <1>4, Zenon DEF OpToRel
<1>6. PICK x \in S : n = Cardinality(above(x))
  OBVIOUS
<1>7. \A y \in S : ~(y > x)
  <2> HIDE DEF above
  <2> QED BY <1>3, <1>5, <1>6
<1>8. \A y \in S : y <= x
  BY <1>7
<1> QED BY <1>8 DEF Max

LEMMA LeastIn ==
    ASSUME NEW S \in SUBSET Int, IsFiniteSet(S), S # {}
    PROVE  Min(S) \in S /\ \A y \in S : Min(S) <= y
<1> DEFINE T == {0 - x : x \in S}
           f == [x \in S |-> 0 - x]
<1>1. T \in SUBSET Int /\ T # {}
  <2>1. \A x \in S : 0 - x \in Int
    OBVIOUS
  <2>2. T \in SUBSET Int
    BY <2>1
  <2>3. PICK x \in S : TRUE
    OBVIOUS
  <2>4. 0 - x \in T
    OBVIOUS
  <2> QED BY <2>2, <2>4
<1>2. f \in Surjection(S, T)
  BY DEF Surjection
<1>3. IsFiniteSet(T)
  <2> HIDE DEF f, T
  <2> QED BY <1>2, FS_Surjection
<1>4. Max(T) \in T /\ \A y \in T : y <= Max(T)
  <2> HIDE DEF T
  <2> QED BY <1>1, <1>3, GreatestIn
<1>5. PICK x \in S : Max(T) = 0 - x
  BY <1>4
<1>6. ASSUME NEW y \in S PROVE x <= y
  <2>1. 0 - y <= 0 - x
    BY <1>4, <1>5
  <2> QED BY <2>1
<1> QED BY <1>6 DEF Min

LEMMA ExpertsFinite ==
    ASSUME Fixed
    PROVE  IsFiniteSet(Experts) /\ Cardinality(Experts) = layer.experts /\ layer.experts \in Nat
<1>1. PICK n \in Nat : n = layer.experts
  BY LayerIs
<1>2. IsFiniteSet(1 .. n) /\ Cardinality(1 .. n) = n
  BY FS_Interval, 1 \in Int, n \in Int
<1> QED BY <1>1, <1>2 DEF Experts

Half == {e \in Experts : 2 * Cardinality(UpTo(Measured(e))) >= layer.experts}

LEMMA MeasuresAre ==
    ASSUME Fixed, layer.kind = "moe"
    PROVE  /\ \A e \in Experts : Measured(e) \in Int
           /\ \A x : IsFiniteSet(UpTo(x)) /\ Cardinality(UpTo(x)) \in Nat
           /\ \E d \in Half : Median = Measured(d) /\ \A e \in Half : Median <= Measured(e)
<1>1. ASSUME NEW e \in Experts PROVE Measured(e) \in Int
  <2>1. e \in DOMAIN ck.noise /\ ck.noise \in Seq(Int) /\ ck.scale \in Nat
    BY LayerIs, OutIs DEF Experts
  <2> QED BY <2>1 DEF Measured
<1>2. ASSUME NEW x PROVE IsFiniteSet(UpTo(x)) /\ Cardinality(UpTo(x)) \in Nat
  BY ExpertsFinite, FS_Subset, FS_CardinalityType DEF UpTo
<1> DEFINE all == {Measured(e) : e \in Experts}
           some == {Measured(e) : e \in Half}
           measure == [e \in Experts |-> Measured(e)]
<1>3. all \in SUBSET Int /\ some \in SUBSET all
  BY <1>1 DEF Half
<1>4. IsFiniteSet(all)
  <2>1. measure \in Surjection(Experts, all)
    BY DEF Surjection
  <2> HIDE DEF measure, all
  <2> QED BY <2>1, ExpertsFinite, FS_Surjection
<1>5. all # {}
  <2>1. 1 \in Experts
    BY LayerIs, OutIs DEF Experts
  <2> QED BY <2>1
<1>6. PICK d \in Experts : \A e \in Experts : Measured(e) <= Measured(d)
  <2>1. Max(all) \in all /\ \A y \in all : y <= Max(all)
    <3> HIDE DEF all
    <3> QED BY <1>3, <1>4, <1>5, GreatestIn
  <2>2. PICK d \in Experts : Max(all) = Measured(d)
    BY <2>1
  <2> QED BY <2>1, <2>2
<1>7. d \in Half
  <2>1. UpTo(Measured(d)) = Experts
    BY <1>6 DEF UpTo
  <2> QED BY <2>1, ExpertsFinite DEF Half
<1>8. some # {} /\ IsFiniteSet(some) /\ some \in SUBSET Int
  <2>1. some # {}
    BY <1>7
  <2> HIDE DEF some, all
  <2> QED BY <1>3, <1>4, <2>1, FS_Subset
<1>9. Median = Min(some)
  BY DEF Median, Half
<1>10. Min(some) \in some /\ \A y \in some : Min(some) <= y
  <2> HIDE DEF some
  <2> QED BY <1>8, LeastIn
<1> QED BY <1>1, <1>2, <1>9, <1>10

LEMMA NearestIs ==
    ASSUME Fixed, layer.kind = "moe"
    PROVE  Nearest \in Int /\ Ratio \in Int /\ (Recovered => Nearest \in Nat)
<1>1. PICK x \in Int : x = Median
  BY MeasuresAre DEF Half
<1>2. (x + 50) \div 100 \in Int
  BY Quotient
<1> QED BY <1>1, <1>2 DEF Nearest, Ratio, Recovered

(***************************************************************************)
(* The widest stored dimension.                                             *)
(***************************************************************************)
LEMMA PairFinite == ASSUME NEW a, NEW b PROVE IsFiniteSet({a, b})
<1>1. IsFiniteSet({a}) /\ IsFiniteSet({b})
  BY FS_Singleton
<1>2. {a, b} = {a} \cup {b}
  OBVIOUS
<1> QED BY <1>1, <1>2, FS_Union

LEMMA ModulesFinite == Fixed => IsFiniteSet(Modules)
<1> SUFFICES ASSUME Fixed PROVE IsFiniteSet(Modules)
  OBVIOUS
<1>1. CASE layer.kind = "moe"
  <2>1. ToSet(Projection) = {"w1", "w3", "w2"}
    BY DEF ToSet, Projection
  <2>2. IsFiniteSet({"w1", "w3", "w2"})
    <3>1. {"w1", "w3", "w2"} = {"w1", "w3"} \cup {"w2"}
      OBVIOUS
    <3>2. IsFiniteSet({"w1", "w3"}) /\ IsFiniteSet({"w2"})
      BY PairFinite, FS_Singleton
    <3>3. IsFiniteSet({"w1", "w3"} \cup {"w2"})
      BY <3>2, FS_Union
    <3> QED BY <3>1, <3>3
  <2>3. Modules = ToSet(Projection) \X Experts
    BY <1>1 DEF Modules
  <2> QED BY <2>1, <2>2, <2>3, ExpertsFinite, FS_Product
<1>2. CASE layer.kind # "moe"
  <2> DEFINE s == layer.stored
             f == [j \in DOMAIN s |-> s[j]]
  <2>1. IsFiniteSet(DOMAIN s)
    <3>1. DOMAIN s = 1 .. Len(s) /\ Len(s) \in Nat
      BY LayerIs
    <3> QED BY <3>1, FS_Interval
  <2>2. f \in Surjection(DOMAIN s, ToSet(s))
    BY DEF Surjection, ToSet
  <2>3. IsFiniteSet(ToSet(s))
    <3> HIDE DEF f, s
    <3> QED BY <2>1, <2>2, FS_Surjection
  <2> QED BY <1>2, <2>3 DEF Modules
<1> QED BY <1>1, <1>2

LEMMA WidestIs ==
    ASSUME Fixed, NEW m \in Modules
    PROVE  Widest \in Nat /\ StoredIn(m) <= Widest /\ StoredOut(m) <= Widest
<1> DEFINE pair == [x \in Modules |-> {StoredIn(x), StoredOut(x)}]
           pairs == {{StoredIn(x), StoredOut(x)} : x \in Modules}
           dims == UNION pairs
<1>1. pair \in Surjection(Modules, pairs)
  BY DEF Surjection
<1>2. IsFiniteSet(pairs)
  <2> HIDE DEF pair, pairs
  <2> QED BY <1>1, ModulesFinite, FS_Surjection
<1>3. \A P \in pairs : IsFiniteSet(P)
  <2>1. \A x \in Modules : IsFiniteSet({StoredIn(x), StoredOut(x)})
    BY PairFinite
  <2> QED BY <2>1
<1>4. IsFiniteSet(dims)
  <2> HIDE DEF pairs
  <2> QED BY <1>2, <1>3, FS_UNION
<1>5. dims \in SUBSET Nat
  BY StoredIs
<1>6. StoredIn(m) \in dims /\ StoredOut(m) \in dims
  OBVIOUS
<1>7. Widest = Max(dims)
  BY DEF Widest
<1> HIDE DEF dims
<1>8. dims \in SUBSET Int /\ dims # {}
  BY <1>5, <1>6
<1> QED BY <1>4, <1>5, <1>6, <1>7, <1>8, GreatestIn

(***************************************************************************)
(* The inductive invariant: what a rank holds was taken, by a layer whose   *)
(* sizes were checked, and what it serves with is complete.                 *)
(***************************************************************************)
From(slices, r) ==
    \A k \in DOMAIN slices :
        /\ ValidTp
        /\ \E n \in Names, m \in Modules :
             \E i \in DOMAIN Taken(n, m, r) : k = <<n, i>> /\ slices[k] = Taken(n, m, r)[i]

Streams ==
    /\ stream \in [built : BOOLEAN, left : SUBSET Modules, now : Modules \cup {<<>>}, names : SUBSET Names]
    /\ stream.names # {} => stream.now \in Modules
    /\ ~stream.built => stream.left = {} /\ stream.names = {}

Ranks ==
    /\ state \in [Rank -> {"loading", "served", "refused"}]
    /\ DOMAIN held = Rank /\ DOMAIN resident = Rank /\ divisor \in [Rank -> Nat]
    /\ \A r \in Rank : state[r] # "refused" => ValidTp \/ ~stream.built

AllThree(slices) == \A n \in Names, i \in Keys : <<n, i>> \in DOMAIN slices

SliceInv ==
    /\ Fixed /\ Streams /\ Ranks
    /\ \A r \in Rank : From(held[r], r) /\ From(resident[r], r)
    /\ \A r \in Rank : state[r] = "served" => held[r] = NoSlices /\ AllThree(resident[r])

LEMMA NoneFrom == ASSUME NEW r PROVE From(NoSlices, r)
BY DEF From, NoSlices

LEMMA StoreFrom ==
    ASSUME ValidTp, NEW slices, NEW r, From(slices, r), NEW name \in Names, NEW m \in Modules
    PROVE  From(Store(slices, name, Taken(name, m, r)), r)
<1> DEFINE taken == Taken(name, m, r)
           new == Store(slices, name, taken)
<1>1. DOMAIN new = DOMAIN slices \cup ({name} \X DOMAIN taken)
  BY DEF Store
<1>2. ASSUME NEW k \in DOMAIN new
      PROVE  new[k] = IF k[1] = name /\ k[2] \in DOMAIN taken THEN taken[k[2]] ELSE slices[k]
  BY DEF Store
<1> HIDE DEF new, taken
<1>3. ASSUME NEW k \in DOMAIN new
      PROVE  \E n \in Names, x \in Modules :
               \E i \in DOMAIN Taken(n, x, r) : k = <<n, i>> /\ new[k] = Taken(n, x, r)[i]
  <2>1. CASE k \in {name} \X DOMAIN taken
    <3>1. PICK i \in DOMAIN taken : k = <<name, i>>
      BY <2>1
    <3>2. new[k] = taken[i]
      BY <1>2, <3>1
    <3> QED BY <3>1, <3>2 DEF taken
  <2>2. CASE k \in DOMAIN slices /\ k \notin {name} \X DOMAIN taken
    <3>1. PICK n \in Names, x \in Modules :
            \E i \in DOMAIN Taken(n, x, r) : k = <<n, i>> /\ slices[k] = Taken(n, x, r)[i]
      BY <2>2 DEF From
    <3>2. new[k] = slices[k]
      BY <1>2, <2>2, <3>1
    <3> QED BY <3>1, <3>2
  <2> QED BY <1>1, <2>1, <2>2
<1> QED BY <1>3 DEF From, new, taken

\* These depend on the layer and the checkpoint alone.
Still == UNCHANGED <<layer, ck>>

LEMMA StillSame ==
    ASSUME Still
    PROVE  /\ Fixed' = Fixed /\ ValidTp' = ValidTp /\ Modules' = Modules /\ Keys' = Keys /\ Rank' = Rank
           /\ \A slices, r : From(slices, r)' = From(slices, r)
           /\ \A slices : AllThree(slices)' = AllThree(slices)
<1>1. layer' = layer /\ ck' = ck
  BY DEF Still
<1>2. Fixed' = Fixed /\ Modules' = Modules /\ Keys' = Keys /\ Rank' = Rank
  BY <1>1 DEF Fixed, Modules, Keys, Rank, Experts
<1>3. ValidTp' = ValidTp
  BY <1>1 DEF ValidTp, CheckSplit, ValidHead, OutSize, Padded, Replicas
<1>4. \A n, m, r : Taken(n, m, r)' = Taken(n, m, r)
  BY <1>1 DEF Taken, TakeColumn, TakeRow, LoadMerged, LoadQkv, LoadExpert, Fused, FusedOffset, KvIndex,
     Replicas, OutSize, InSize, Padded, ShardColumn, ShardRow, Whole, StoredIn, StoredOut, Narrower,
     CheckSplit, SplitWidth, Intermediate
<1>5. \A slices, r : From(slices, r)' = From(slices, r)
  BY <1>2, <1>3, <1>4 DEF From
<1>6. \A slices : AllThree(slices)' = AllThree(slices)
  BY <1>2 DEF AllThree
<1> QED BY <1>2, <1>3, <1>5, <1>6

LEMMA SliceInvInit == Init => SliceInv
<1> SUFFICES ASSUME Init PROVE SliceInv
  OBVIOUS
<1>1. Fixed
  BY DEF Init, Fixed
<1>2. Streams
  BY DEF Init, Streams
<1>3. Ranks
  BY DEF Init, Ranks
<1>4. \A r \in Rank : held[r] = NoSlices /\ resident[r] = NoSlices /\ state[r] = "loading"
  BY DEF Init
<1> QED BY <1>1, <1>2, <1>3, <1>4, NoneFrom DEF SliceInv

LEMMA CreateKeeps == SliceInv /\ CreateWeights => SliceInv'
<1> SUFFICES ASSUME SliceInv, CreateWeights PROVE SliceInv'
  OBVIOUS
<1>1. Still /\ UNCHANGED <<held, resident, divisor>>
  BY DEF CreateWeights, Still
<1>2. stream' = [stream EXCEPT !.built = TRUE, !.left = Modules] /\ ~stream.built
  BY DEF CreateWeights
<1>3. Streams'
  BY <1>1, <1>2, StillSame DEF Streams, SliceInv
<1>4. state' = [r \in Rank |-> IF ValidTp THEN "loading" ELSE "refused"]
  BY DEF CreateWeights
<1>5. Ranks'
  BY <1>1, <1>4, StillSame DEF Ranks, SliceInv
<1>6. \A r \in Rank : state'[r] # "served"
  BY <1>4
<1> QED BY <1>1, <1>3, <1>5, <1>6, StillSame DEF SliceInv

LEMMA ModuleKeeps == ASSUME NEW m \in Modules PROVE SliceInv /\ NextModule(m) => SliceInv'
<1> SUFFICES ASSUME SliceInv, NextModule(m) PROVE SliceInv'
  OBVIOUS
<1>1. Still /\ UNCHANGED <<held, resident, divisor, state>>
  BY DEF NextModule, Still
<1>2. /\ stream' = [stream EXCEPT !.left = @ \ {m}, !.now = m, !.names = Sent(m)]
      /\ m \in stream.left /\ Sent(m) \subseteq Names
  BY DEF NextModule, Sent
<1>3. Streams' /\ stream'.built = stream.built
  BY <1>1, <1>2, StillSame DEF Streams, SliceInv
<1>4. Ranks'
  BY <1>1, <1>3, StillSame DEF Ranks, SliceInv
<1> QED BY <1>1, <1>3, <1>4, StillSame DEF SliceInv

LEMMA LoadKeeps == ASSUME NEW name \in Names PROVE SliceInv /\ Load(name) => SliceInv'
<1> SUFFICES ASSUME SliceInv, Load(name) PROVE SliceInv'
  OBVIOUS
<1> DEFINE m == stream.now
           taken == [r \in Rank |-> Taken(name, m, r)]
<1>1. Still /\ UNCHANGED <<resident, divisor>>
  BY DEF Load, Still
<1>2. /\ stream' = [stream EXCEPT !.names = @ \ {name}] /\ name \in stream.names
      /\ state' = [r \in Rank |-> IF taken[r] = Refused THEN "refused" ELSE state[r]]
      /\ held' = [r \in Rank |-> IF state'[r] = "loading" THEN Store(held[r], name, taken[r]) ELSE held[r]]
  BY DEF Load
<1>3. m \in Modules /\ stream.built
  BY <1>2 DEF SliceInv, Streams
<1>4. Streams' /\ stream'.built = stream.built
  BY <1>1, <1>2, StillSame DEF Streams, SliceInv
<1>5. \A r \in Rank : taken[r] = Taken(name, m, r)
  OBVIOUS
<1> HIDE DEF m, taken
<1>6. \A r \in Rank : state'[r] = IF taken[r] = Refused THEN "refused" ELSE state[r]
  BY <1>2
<1>7. \A r \in Rank : state[r] # "refused" => ValidTp
  BY <1>3 DEF SliceInv, Ranks
<1>8. Ranks'
  <2>1. state' \in [Rank -> {"loading", "served", "refused"}]
    BY <1>2 DEF SliceInv, Ranks
  <2> QED BY <1>1, <1>2, <1>6, <1>7, <2>1, StillSame DEF Ranks, SliceInv
<1>9. ASSUME NEW r \in Rank PROVE From(held'[r], r)
  <2>1. CASE state'[r] = "loading"
    <3>1. state[r] # "refused"
      BY <1>6, <2>1
    <3>2. held'[r] = Store(held[r], name, Taken(name, m, r))
      BY <1>2, <1>5, <2>1
    <3>3. From(held[r], r)
      BY DEF SliceInv
    <3> QED BY <1>3, <1>7, <3>1, <3>2, <3>3, StoreFrom
  <2>2. CASE state'[r] # "loading"
    BY <1>2, <2>2 DEF SliceInv
  <2> QED BY <2>1, <2>2
<1>10. ASSUME NEW r \in Rank, state'[r] = "served" PROVE held'[r] = NoSlices /\ AllThree(resident[r])
  <2>1. state[r] = "served"
    BY <1>6, <1>10
  <2>2. held'[r] = held[r]
    BY <1>2, <1>10
  <2> QED BY <2>1, <2>2 DEF SliceInv
<1> QED BY <1>1, <1>4, <1>8, <1>9, <1>10, StillSame DEF SliceInv

LEMMA FitsWhole ==
    ASSUME NEW r, LinearFits(r) \/ HeadFits(r) \/ ExpertsFit(r)
    PROVE  AllThree(held[r])
BY DEF LinearFits, HeadFits, ExpertsFit, Complete, AllThree

LEMMA ProcessKeeps == ASSUME NEW r \in Rank PROVE SliceInv /\ Process(r) => SliceInv'
<1> SUFFICES ASSUME SliceInv, Process(r) PROVE SliceInv'
  OBVIOUS
<1> DEFINE fits == CASE layer.kind = "moe" -> ExpertsFit(r)
                     [] layer.kind = "head" -> HeadFits(r)
                     [] OTHER -> LinearFits(r)
<1>1. Still /\ stream' = stream /\ state[r] = "loading"
  BY DEF Process, Still
<1>2. /\ state' = [state EXCEPT ![r] = IF fits THEN "served" ELSE "refused"]
      /\ resident' = IF fits THEN [resident EXCEPT ![r] = held[r]] ELSE resident
      /\ divisor' = IF fits /\ layer.kind = "moe" THEN [divisor EXCEPT ![r] = Nearest] ELSE divisor
      /\ held' = IF fits THEN [held EXCEPT ![r] = NoSlices] ELSE held
  BY DEF Process
<1>3. fits => AllThree(held[r])
  BY FitsWhole
<1>4. fits /\ layer.kind = "moe" => Nearest \in Nat
  BY NearestIs DEF ExpertsFit, SliceInv
<1> HIDE DEF fits
<1>5. Streams'
  BY <1>1, StillSame DEF Streams, SliceInv
<1>6. Ranks'
  <2>1. state' \in [Rank -> {"loading", "served", "refused"}]
    BY <1>2 DEF SliceInv, Ranks
  <2>2. divisor' \in [Rank -> Nat]
    BY <1>2, <1>4 DEF SliceInv, Ranks
  <2>3. DOMAIN held' = Rank /\ DOMAIN resident' = Rank
    BY <1>2 DEF SliceInv, Ranks
  <2>4. \A q \in Rank : state'[q] # "refused" => state[q] # "refused"
    BY <1>1, <1>2 DEF SliceInv, Ranks
  <2> QED BY <1>1, <2>1, <2>2, <2>3, <2>4, StillSame DEF Ranks, SliceInv
<1>7. ASSUME NEW q \in Rank PROVE From(held'[q], q) /\ From(resident'[q], q)
  <2>1. held'[q] \in {NoSlices, held[q]}
    BY <1>2 DEF SliceInv, Ranks
  <2>2. resident'[q] \in {held[q], resident[q]}
    BY <1>2 DEF SliceInv, Ranks
  <2> QED BY <2>1, <2>2, NoneFrom DEF SliceInv
<1>8. ASSUME NEW q \in Rank, state'[q] = "served" PROVE held'[q] = NoSlices /\ AllThree(resident'[q])
  <2>1. CASE q = r
    <3>1. fits
      BY <1>2, <1>8, <2>1 DEF SliceInv, Ranks
    <3>2. held'[q] = NoSlices /\ resident'[q] = held[q]
      BY <1>2, <2>1, <3>1 DEF SliceInv, Ranks
    <3> QED BY <1>3, <2>1, <3>1, <3>2
  <2>2. CASE q # r
    <3>1. state[q] = "served"
      BY <1>2, <1>8, <2>2 DEF SliceInv, Ranks
    <3>2. held'[q] = held[q] /\ resident'[q] = resident[q]
      BY <1>2, <2>2 DEF SliceInv, Ranks
    <3> QED BY <3>1, <3>2 DEF SliceInv
  <2> QED BY <2>1, <2>2
<1> QED BY <1>1, <1>5, <1>6, <1>7, <1>8, StillSame DEF SliceInv

LEMMA SliceInvStep == SliceInv /\ [Next]_vars => SliceInv'
<1> SUFFICES ASSUME SliceInv, [Next]_vars PROVE SliceInv'
  OBVIOUS
<1>1. CASE CreateWeights
  BY <1>1, CreateKeeps
<1>2. ASSUME NEW m \in Modules, NextModule(m) PROVE SliceInv'
  BY <1>2, ModuleKeeps
<1>3. ASSUME NEW name \in Names, Load(name) PROVE SliceInv'
  BY <1>3, LoadKeeps
<1>4. ASSUME NEW r \in Rank, Process(r) PROVE SliceInv'
  BY <1>4, ProcessKeeps
<1>5. CASE UNCHANGED vars
  <2>1. Still /\ UNCHANGED <<stream, state, held, resident, divisor>>
    BY <1>5 DEF vars, Still
  <2>2. Streams' /\ Ranks'
    BY <2>1, StillSame DEF SliceInv, Streams, Ranks
  <2> QED BY <2>1, <2>2, StillSame DEF SliceInv
<1> QED BY <1>1, <1>2, <1>3, <1>4, <1>5 DEF Next

LEMMA SliceInvAlways == Spec => []SliceInv
BY SliceInvInit, SliceInvStep, PTL DEF Spec

LEMMA ShardTypes == SliceInv => TypeOK
<1> SUFFICES ASSUME SliceInv PROVE TypeOK
  OBVIOUS
<1>1. Fixed
  BY DEF SliceInv
<1>2. ASSUME NEW r \in Rank, NEW k \in DOMAIN held[r]
      PROVE  /\ k[1] \in Names /\ k[2] \in Keys
             /\ \A span \in {held[r][k].in, held[r][k].out} :
                  0 <= span[1] /\ span[1] <= span[2] /\ span[2] <= Widest
  <2>1. From(held[r], r)
    BY DEF SliceInv
  <2>2. PICK n \in Names, m \in Modules :
          ValidTp /\ \E i \in DOMAIN Taken(n, m, r) : k = <<n, i>> /\ held[r][k] = Taken(n, m, r)[i]
    BY <2>1 DEF From
  <2>3. PICK i \in DOMAIN Taken(n, m, r) : k = <<n, i>> /\ held[r][k] = Taken(n, m, r)[i]
    BY <2>2
  <2>4. i \in KeysOf(m) /\ InTensor(held[r][k], m)
    BY <1>1, <2>2, <2>3, TakenIn
  <2>5. k[1] \in Names /\ k[2] \in Keys
    BY <1>1, <2>3, <2>4, ModuleIs
  <2>6. StoredIn(m) <= Widest /\ StoredOut(m) <= Widest /\ Widest \in Nat
        /\ StoredIn(m) \in Nat /\ StoredOut(m) \in Nat
    BY <1>1, WidestIs, StoredIs
  <2>7. \A span : \A n1 \in Nat : Span(span, n1) /\ n1 <= Widest =>
          0 <= span[1] /\ span[1] <= span[2] /\ span[2] <= Widest
    BY <2>6 DEF Span
  <2> QED BY <2>4, <2>5, <2>6, <2>7 DEF InTensor
<1>3. \A r \in Rank : \A slice \in Range(held[r]) : \E k \in DOMAIN held[r] : slice = held[r][k]
  BY DEF Range
<1> QED BY <1>2, <1>3 DEF TypeOK, SliceInv, Ranks

\* What a rank serves shard i with was taken of one module.
Serves(m, r, i) ==
    /\ ValidTp /\ i \in KeysOf(m) /\ WellCut(m, r, i)
    /\ layer.kind = "moe" => CheckSplit(Intermediate(m))
    /\ \A n \in Names : /\ i \in DOMAIN Taken(n, m, r)
                        /\ Of(resident[r], n, i) = Taken(n, m, r)[i]
                        /\ Of(resident[r], n, i) = Piece(n, m, r, i)

LEMMA ServedFrom ==
    ASSUME SliceInv, NEW r \in Rank, state[r] = "served", NEW i \in Keys
    PROVE  \E m \in Modules : Serves(m, r, i)
<1>1. Fixed /\ From(resident[r], r) /\ \A n \in Names : <<n, i>> \in DOMAIN resident[r]
  BY DEF SliceInv, AllThree
<1>2. ASSUME NEW n \in Names
      PROVE  \E m \in Modules : /\ ValidTp /\ i \in DOMAIN Taken(n, m, r)
                                /\ resident[r][<<n, i>>] = Taken(n, m, r)[i]
  <2>1. PICK x \in Names, m \in Modules :
          ValidTp /\ \E j \in DOMAIN Taken(x, m, r) : <<n, i>> = <<x, j>> /\ resident[r][<<n, i>>] = Taken(x, m, r)[j]
    BY <1>1 DEF From
  <2> QED BY <2>1
<1>3. "trellis" \in Names
  BY DEF Names
<1>4. PICK m \in Modules : ValidTp /\ i \in DOMAIN Taken("trellis", m, r)
  BY <1>2, <1>3
<1>5. ASSUME NEW n \in Names
      PROVE  i \in DOMAIN Taken(n, m, r) /\ resident[r][<<n, i>>] = Taken(n, m, r)[i]
  <2>1. PICK x \in Modules : i \in DOMAIN Taken(n, x, r) /\ resident[r][<<n, i>>] = Taken(n, x, r)[i]
    BY <1>2
  <2>2. i \in KeysOf(x) /\ i \in KeysOf(m)
    BY <1>1, <1>3, <1>4, <2>1, TakenIs
  <2>3. x = m
    BY <1>1, <2>2, ModuleIs
  <2> QED BY <2>1, <2>3
<1>6. /\ i \in KeysOf(m)
      /\ Fuses(m) => \A j \in DOMAIN m : Aligned(OutSize(m[j]))
      /\ layer.kind = "moe" => CheckSplit(Intermediate(m))
  <2>1. ~Replicated("trellis", m)
    BY DEF Replicated
  <2> QED BY <1>1, <1>3, <1>4, <2>1, TakenIs
<1>7. WellCut(m, r, i)
  BY <1>1, <1>4, <1>6, CutsAreBlocks
<1>8. \A n \in Names : Taken(n, m, r)[i] = Piece(n, m, r, i)
  BY <1>1, <1>5, TakenIs
<1> QED BY <1>4, <1>5, <1>6, <1>7, <1>8 DEF Serves, Of

LEMMA BlocksHold == SliceInv => BlocksWhole
<1> SUFFICES ASSUME SliceInv, NEW r \in Rank, state[r] = "served", NEW i \in Keys
             PROVE  LET t == Of(resident[r], "trellis", i)
                    IN  /\ \A c \in {t.in[1], t.in[2], t.out[1], t.out[2]} : Aligned(c)
                        /\ Of(resident[r], "suh", i).in = t.in
                        /\ Of(resident[r], "svh", i).out = t.out
  BY DEF BlocksWhole
<1>1. PICK m \in Modules : Serves(m, r, i)
  BY ServedFrom
<1>2. "suh" \in Names /\ "svh" \in Names /\ "trellis" \in Names /\ Fixed
  BY DEF Names, SliceInv
<1>3. InTensor(Taken("trellis", m, r)[i], m)
  BY <1>1, <1>2, TakenIn DEF Serves
<1>4. /\ Taken("suh", m, r)[i].in = Taken("trellis", m, r)[i].in
      /\ Taken("svh", m, r)[i].out = Taken("trellis", m, r)[i].out
  BY <1>1, <1>2, TakenAlike DEF Serves
<1>5. \A n \in Names : Of(resident[r], n, i) = Taken(n, m, r)[i]
  BY <1>1 DEF Serves
<1> QED BY <1>2, <1>3, <1>4, <1>5 DEF InTensor, Span

\* What a rank holds of a stored tensor lies in it, and what it serves with is
\* whole Hadamard blocks, trellis and scales cut alike: from the checks of
\* create_weights and of the fused and expert loaders, whatever the widths, the
\* paddings, the number of ranks and the order in which tensors come.
THEOREM SlicesAlwaysSound == Spec => []SlicesSound
<1>1. SliceInv => SlicesSound
  BY ShardTypes, BlocksHold DEF SlicesSound
<1> QED BY <1>1, SliceInvAlways, PTL

(***************************************************************************)
(* Routed experts.                                                          *)
(***************************************************************************)
\* The hypothesis of the next theorem: on more than half of the experts the
\* calibration noise is less than what the check of the median lets through as
\* the power of two next to the one that was folded into `up`; and that is not
\* two, which the check takes for none.
MostMeasured ==
    \A y \in Layers, c \in Checkpoints("moe") : y.kind = "moe" =>
        /\ 2 * Cardinality({e \in 1 .. y.experts : c.noise[e] \in Tolerance - 99 .. 99 - Tolerance}) > y.experts
        /\ c.scale # 1

Divided == \A r \in Rank : state[r] = "served" /\ layer.kind = "moe" => divisor[r] = Nearest /\ Recovered

LEMMA StillNearest ==
    ASSUME Still
    PROVE  Nearest' = Nearest /\ Recovered' = Recovered /\ (layer.kind = "moe")' = (layer.kind = "moe")
BY DEF Still, Nearest, Recovered, Ratio, Median, Measured, UpTo, Experts

LEMMA DividedStep == SliceInv /\ Divided /\ [Next]_vars => Divided'
<1> SUFFICES ASSUME SliceInv, Divided, [Next]_vars PROVE Divided'
  OBVIOUS
<1>1. Still
  BY DEF Next, CreateWeights, NextModule, Load, Process, vars, Still
<1>2. CASE CreateWeights
  <2>1. \A r \in Rank : state'[r] # "served"
    BY <1>2 DEF CreateWeights
  <2> QED BY <1>1, <2>1, StillSame DEF Divided
<1>3. CASE UNCHANGED <<state, divisor>>
  BY <1>1, <1>3, StillSame, StillNearest DEF Divided
<1>4. ASSUME NEW name \in Names, Load(name) PROVE Divided'
  <2>1. divisor' = divisor /\ \A r \in Rank : state'[r] \in {"refused", state[r]}
    BY <1>4 DEF Load
  <2> QED BY <1>1, <2>1, StillSame, StillNearest DEF Divided
<1>5. ASSUME NEW r \in Rank, Process(r) PROVE Divided'
  <2>1. CASE layer.kind = "moe"
    <3>1. /\ state' = [state EXCEPT ![r] = IF ExpertsFit(r) THEN "served" ELSE "refused"]
          /\ divisor' = IF ExpertsFit(r) THEN [divisor EXCEPT ![r] = Nearest] ELSE divisor
      BY <1>5, <2>1 DEF Process
    <3>2. ExpertsFit(r) => Recovered
      BY DEF ExpertsFit
    <3>3. ASSUME NEW q \in Rank, state'[q] = "served" PROVE divisor'[q] = Nearest /\ Recovered
      <4>1. CASE q = r
        <5>1. ExpertsFit(r)
          BY <3>1, <3>3, <4>1 DEF SliceInv, Ranks
        <5>2. divisor'[q] = Nearest
          BY <3>1, <4>1, <5>1 DEF SliceInv, Ranks
        <5> QED BY <3>2, <5>1, <5>2
      <4>2. CASE q # r
        <5>1. state[q] = "served" /\ divisor'[q] = divisor[q]
          BY <3>1, <3>3, <4>2 DEF SliceInv, Ranks
        <5> QED BY <2>1, <5>1 DEF Divided
      <4> QED BY <4>1, <4>2
    <3> QED BY <1>1, <3>3, StillSame, StillNearest DEF Divided
  <2>2. CASE layer.kind # "moe"
    BY <1>1, <2>2, StillNearest DEF Divided
  <2> QED BY <2>1, <2>2
<1>6. CASE UNCHANGED vars
  BY <1>3, <1>6 DEF vars
<1>7. ASSUME NEW m \in Modules, NextModule(m) PROVE Divided'
  BY <1>3, <1>7 DEF NextModule
<1> QED BY <1>2, <1>4, <1>5, <1>6, <1>7 DEF Next

LEMMA DividedAlways == Spec => []Divided
<1>1. Init => Divided
  BY DEF Init, Divided
<1> QED BY <1>1, DividedStep, SliceInvAlways, PTL DEF Spec

\* More than half of the experts decide what the median is close to.
\* Most measures within a bound of the constant: so is their median.
LEMMA MedianWithin ==
    ASSUME Fixed, layer.kind = "moe", NEW b \in Nat,
           2 * Cardinality({e \in Experts : ck.noise[e] \in -b .. b}) > layer.experts
    PROVE  Median \in Int /\ Median - 100 * ck.scale \in -b .. b
<1> DEFINE close == {e \in Experts : ck.noise[e] \in -b .. b}
           low == 100 * ck.scale - b
           high == 100 * ck.scale + b
<1>1. 2 * Cardinality(close) > layer.experts
  OBVIOUS
<1>2. IsFiniteSet(close) /\ Cardinality(close) \in Nat /\ close \subseteq Experts
  BY ExpertsFinite, FS_Subset, FS_CardinalityType
<1>3. low \in Int /\ high \in Int
  BY LayerIs
<1>4. ASSUME NEW e \in Experts PROVE ck.noise[e] \in Int /\ Measured(e) \in Int
  <2>1. e \in DOMAIN ck.noise /\ ck.noise \in Seq(Int)
    BY LayerIs, OutIs DEF Experts
  <2> QED BY <2>1, MeasuresAre
<1>5. ASSUME NEW e \in Experts PROVE e \in close <=> low <= Measured(e) /\ Measured(e) <= high
  <2>1. PICK x \in Int : x = ck.noise[e]
    BY <1>4
  <2>2. PICK c \in Int : c = 100 * ck.scale
    BY LayerIs
  <2>3. Measured(e) = c + x /\ low = c - b /\ high = c + b
    BY <2>1, <2>2 DEF Measured
  <2>4. e \in close <=> x \in -b .. b
    BY <2>1
  <2> HIDE DEF close, low, high
  <2> QED BY <2>3, <2>4
<1> HIDE DEF close, low, high
<1>6. PICK d \in Half : Median = Measured(d) /\ \A e \in Half : Median <= Measured(e)
  BY MeasuresAre
<1>7. d \in Experts /\ Median \in Int /\ 2 * Cardinality(UpTo(Median)) >= layer.experts
  BY <1>4, <1>6 DEF Half
<1>8. Median <= high
  <2> DEFINE tops == {Measured(e) : e \in close}
             measure == [e \in close |-> Measured(e)]
  <2>1. measure \in Surjection(close, tops)
    BY DEF Surjection
  <2>2. close # {}
    BY <1>1, <1>2, FS_EmptySet, ExpertsFinite
  <2>3. tops \in SUBSET Int /\ tops # {}
    BY <1>2, <1>4, <2>2
  <2>4. Max(tops) \in tops /\ \A y \in tops : y <= Max(tops)
    <3> HIDE DEF tops, measure
    <3> QED BY <1>2, <2>1, <2>3, FS_Surjection, GreatestIn
  <2>5. PICK g \in close : Max(tops) = Measured(g)
    BY <2>4
  <2>6. close \in SUBSET UpTo(Measured(g))
    BY <1>2, <2>4, <2>5 DEF UpTo
  <2> HIDE DEF tops
  <2>7. Cardinality(close) <= Cardinality(UpTo(Measured(g))) /\ Cardinality(UpTo(Measured(g))) \in Nat
    BY <2>6, MeasuresAre, FS_Subset
  <2>8. 2 * Cardinality(UpTo(Measured(g))) >= layer.experts
    BY <1>1, <1>2, <2>7, ExpertsFinite
  <2>9. g \in Half
    BY <1>2, <2>8 DEF Half
  <2> QED BY <1>2, <1>3, <1>4, <1>5, <1>6, <1>7, <2>9
<1>9. low <= Median
  <2>1. SUFFICES ASSUME Median < low PROVE FALSE
    BY <1>3, <1>7
  <2> DEFINE under == UpTo(Median)
  <2>2. IsFiniteSet(under) /\ Cardinality(under) \in Nat /\ under \subseteq Experts
    BY MeasuresAre DEF UpTo
  <2>3. under \cap close = {}
    BY <1>3, <1>4, <1>5, <1>7, <2>1 DEF UpTo
  <2>4. 2 * Cardinality(under) >= layer.experts
    BY <1>7
  <2> HIDE DEF under
  <2>5. Cardinality(under \cap close) = 0
    BY <2>3, FS_EmptySet
  <2>6. Cardinality(under \cup close) = Cardinality(under) + Cardinality(close) - Cardinality(under \cap close)
    BY <1>2, <2>2, FS_Union
  <2>7. Cardinality(under \cup close) <= Cardinality(Experts)
    BY <1>2, <2>2, ExpertsFinite, FS_Subset
  <2> QED BY <1>1, <1>2, <2>2, <2>4, <2>5, <2>6, <2>7, ExpertsFinite
<1>10. PICK c \in Int : c = 100 * ck.scale
  BY LayerIs
<1>11. low = c - b /\ high = c + b
  BY <1>10 DEF low, high
<1>12. Median - c \in -b .. b
  BY <1>7, <1>8, <1>9, <1>11
<1> QED BY <1>1, <1>7, <1>10, <1>12

LEMMA MedianClose ==
    ASSUME Fixed, layer.kind = "moe", MostMeasured
    PROVE  Median \in Int /\ Median - 100 * ck.scale \in Tolerance - 99 .. 99 - Tolerance /\ ck.scale # 1
<1>1. PICK b \in Nat : b = 99 - Tolerance /\ -b = Tolerance - 99
  BY Sizes
<1>2. /\ 2 * Cardinality({e \in Experts : ck.noise[e] \in -b .. b}) > layer.experts
      /\ ck.scale # 1
  BY <1>1 DEF MostMeasured, Fixed, Experts
<1>3. Median \in Int /\ Median - 100 * ck.scale \in -b .. b
  BY <1>2, MedianWithin
<1> QED BY <1>1, <1>2, <1>3

LEMMA ScaleRecovered ==
    ASSUME Fixed, layer.kind = "moe", MostMeasured, Recovered
    PROVE  Nearest = ck.scale
<1>1. PICK s \in Nat : s = ck.scale /\ s # 1
  BY LayerIs, MedianClose
<1>2. PICK t \in 0 .. 49 : t = Tolerance
  BY Sizes
<1>3. PICK n \in t - 99 .. 99 - t : Median = 100 * s + n
  BY <1>1, <1>2, MedianClose
<1>4. Nearest = (100 * s + n + 50) \div 100
  BY <1>3 DEF Nearest, Ratio
<1>5. CASE n >= 50
  <2>1. Nearest = s + 1
    BY <1>4, <1>5
  <2> QED BY <1>2, <1>3, <1>5, <2>1 DEF Recovered, Ratio
<1>6. CASE n < -50
  <2>1. Nearest = s - 1
    BY <1>4, <1>6
  <2> QED BY <1>1, <1>2, <1>3, <1>6, <2>1 DEF Recovered, Ratio
<1>7. CASE n >= -50 /\ n < 50
  BY <1>1, <1>4, <1>7
<1> QED BY <1>5, <1>6, <1>7

\* An expert's intermediate channels on rank r.
LEMMA ExpertPart ==
    ASSUME SliceInv, layer.kind = "moe", Serving
    PROVE  \E z \in Nat :
             /\ layer.tp * z = PadDim(layer.out[1])
             /\ \A r \in Rank, e \in Experts :
                  /\ Of(resident[r], "trellis", <<"w1", e>>).out = <<r * z, r * z + z>>
                  /\ Of(resident[r], "trellis", <<"w3", e>>).out = <<r * z, r * z + z>>
                  /\ Of(resident[r], "trellis", <<"w2", e>>).in = <<r * z, r * z + z>>
<1>1. Fixed /\ layer.tp \in Nat \ {0} /\ "trellis" \in Names
  BY LayerIs DEF SliceInv, Names
<1>2. PICK w \in Nat : w = PadDim(layer.out[1])
  <2>1. layer.out[1] \in Nat
    BY <1>1, LayerIs, OutIs
  <2> QED BY <2>1, Padding
<1>3. PICK z \in Nat : z = w \div layer.tp
  BY <1>1, Quotient
<1>4. ASSUME NEW p \in {"w1", "w3", "w2"}, NEW e \in Experts
      PROVE  /\ <<p, e>> \in Modules /\ <<p, e>> \in Keys /\ Intermediate(<<p, e>>) = w
             /\ SizeOf(<<p, e>>, <<p, e>>) = z /\ ~Fuses(<<p, e>>)
             /\ ByRow(<<p, e>>) <=> p = "w2"
             /\ p = "w2" => StoredIn(<<p, e>>) = w
             /\ p # "w2" => StoredOut(<<p, e>>) = w
             /\ \A x \in Modules : <<p, e>> \in KeysOf(x) => x = <<p, e>>
  <2> DEFINE m == <<p, e>>
  <2>1. m \in Modules /\ m \in Keys
    <3>1. p \in ToSet(Projection)
      BY DEF ToSet, Projection
    <3> QED BY <3>1 DEF Modules, Keys
  <2>2. m[1] = p
    OBVIOUS
  <2> HIDE DEF m
  <2>3. p = "w2" => StoredIn(m) = w
    BY <1>2, <2>2 DEF StoredIn
  <2>4. p # "w2" => StoredOut(m) = w
    BY <1>2, <2>2 DEF StoredOut
  <2>5. Intermediate(m) = w
    BY <2>2, <2>3, <2>4 DEF Intermediate
  <2>6. SizeOf(m, m) = z /\ ~Fuses(m)
    BY <1>3, <2>5 DEF SizeOf, SplitWidth, Fuses
  <2>7. ByRow(m) <=> p = "w2"
    BY <2>2 DEF ByRow
  <2>8. \A x \in Modules : m \in KeysOf(x) => x = m
    BY DEF KeysOf
  <2> QED BY <2>1, <2>3, <2>4, <2>5, <2>6, <2>7, <2>8 DEF m
<1>5. ASSUME NEW r \in Rank, NEW e \in Experts, NEW p \in {"w1", "w3", "w2"}
      PROVE  /\ layer.tp * z = w
             /\ IF p = "w2" THEN Of(resident[r], "trellis", <<p, e>>).in = <<r * z, r * z + z>>
                ELSE Of(resident[r], "trellis", <<p, e>>).out = <<r * z, r * z + z>>
  <2> DEFINE m == <<p, e>>
  <2>1. m \in Modules /\ m \in Keys
    BY <1>4
  <2>2. Serves(m, r, m)
    <3>1. \A x \in Modules : m \in KeysOf(x) => x = m
      BY <1>4
    <3>2. state[r] = "served"
      BY DEF Serving
    <3> HIDE DEF m
    <3>3. PICK x \in Modules : Serves(x, r, m)
      BY <2>1, <3>2, ServedFrom
    <3>4. m \in KeysOf(x)
      BY <3>3 DEF Serves
    <3> QED BY <3>1, <3>3, <3>4
  <2>3. /\ Intermediate(m) = w /\ SizeOf(m, m) = z /\ ~Fuses(m) /\ (ByRow(m) <=> p = "w2")
        /\ p = "w2" => StoredIn(m) = w
        /\ p # "w2" => StoredOut(m) = w
    BY <1>4
  <2> HIDE DEF m
  <2>4. CheckSplit(w)
    BY <2>2, <2>3 DEF Serves
  <2>5. Of(resident[r], "trellis", m) = Piece("trellis", m, r, m)
    BY <1>1, <2>2 DEF Serves
  <2>6. Whole(m) = [in |-> <<0, StoredIn(m)>>, out |-> <<0, StoredOut(m)>>]
    BY DEF Whole
  <2>7. PICK tp \in Nat \ {0} : tp = layer.tp
    BY <1>1
  <2>8. r \in 0 .. tp - 1
    BY <2>7 DEF Rank
  <2>9. CASE tp = 1
    <3>1. r = 0 /\ z = w /\ layer.tp * z = w
      BY <1>3, <2>7, <2>8, <2>9
    <3>2. <<r * z, r * z + z>> = <<0, w>>
      BY <3>1
    <3>3. Piece("trellis", m, r, m) = Whole(m)
      BY <2>3, <2>7, <2>9 DEF Piece, Unsplit
    <3> QED BY <2>3, <2>5, <2>6, <3>1, <3>2, <3>3 DEF m
  <2>10. CASE tp # 1
    <3>1. w = tp * z
      <4>1. w % tp = 0
        BY <2>4, <2>7, <2>10 DEF CheckSplit, Divides
      <4>2. w = tp * z + 0
        <5>1. w = tp * (w \div tp) + (w % tp)
          BY Quotient, w \in Int
        <5> QED BY <1>3, <2>7, <4>1, <5>1
      <4>3. tp * z \in Nat
        OBVIOUS
      <4> QED BY <4>2, <4>3
    <3>2. PICK a \in Nat : a = r * z
      BY <2>8
    <3>3. a + z <= w
      <4>1. PICK k \in Nat : tp = r + 1 + k
        BY <2>8, tp - 1 - r \in Nat
      <4>2. tp * z = r * z + z + k * z /\ k * z \in Nat
        BY <2>8, <4>1
      <4> QED BY <3>1, <3>2, <4>2
    <3>4. FirstOf(m, r, m) = a
      BY <2>3, <3>2 DEF FirstOf, IndexOf
    <3>5. Cut(w, a, a + z) = <<a, a + z>>
      <4>1. Cut(w, a, a + z)[1] = a /\ Cut(w, a, a + z)[2] = a + z
        BY <3>3, CutIs, a + z \in Nat
      <4> QED BY <4>1 DEF Cut
    <3>6. ~Unsplit(m) /\ WellCut(m, r, m) /\ m \in KeysOf(m)
      BY <2>2, <2>7, <2>10 DEF Unsplit, Serves
    <3>7. CASE p = "w2"
      <4>1. InCut(m, r, m) = <<a, a + z>>
        BY <2>3, <3>4, <3>5, <3>7 DEF InCut
      <4>2. Piece("trellis", m, r, m) = [Whole(m) EXCEPT !.in = InCut(m, r, m)]
        BY <1>1, <2>1, <2>3, <3>6, <3>7, PieceIs
      <4> QED BY <2>5, <2>6, <2>7, <3>1, <3>2, <3>7, <4>1, <4>2 DEF m
    <3>8. CASE p # "w2"
      <4>1. OutCut(m, r, m) = <<a, a + z>>
        BY <2>3, <3>4, <3>5, <3>8 DEF OutCut
      <4>2. Piece("trellis", m, r, m) = [Whole(m) EXCEPT !.out = OutCut(m, r, m)]
        BY <1>1, <2>1, <2>3, <3>6, <3>8, PieceIs
      <4> QED BY <2>5, <2>6, <2>7, <3>1, <3>2, <3>8, <4>1, <4>2 DEF m
    <3> QED BY <3>7, <3>8
  <2> QED BY <2>9, <2>10
<1>6. 1 \in Experts /\ 0 \in Rank
  BY <1>1, OutIs, LayerIs DEF Experts, Rank
<1> QED BY <1>2, <1>5, <1>6

LEMMA ExpertsMeetHere == SliceInv /\ Divided /\ MostMeasured => ExpertsMeet
<1> SUFFICES ASSUME SliceInv, Divided, MostMeasured, Serving, layer.kind = "moe", NEW r \in Rank, NEW e \in Experts
             PROVE  LET mine == Of(resident[r], "trellis", <<"w1", e>>).out
                    IN  /\ Of(resident[r], "trellis", <<"w3", e>>).out = mine
                        /\ Of(resident[r], "trellis", <<"w2", e>>).in = mine
                        /\ mine[1] = IF r = 0 THEN 0
                                     ELSE Of(resident[r - 1], "trellis", <<"w1", e>>).out[2]
                        /\ r = layer.tp - 1 => mine[2] = PadDim(layer.out[1])
                        /\ divisor[r] = ck.scale
  BY DEF ExpertsMeet
<1>1. PICK z \in Nat :
        /\ layer.tp * z = PadDim(layer.out[1])
        /\ \A q \in Rank, d \in Experts :
             /\ Of(resident[q], "trellis", <<"w1", d>>).out = <<q * z, q * z + z>>
             /\ Of(resident[q], "trellis", <<"w3", d>>).out = <<q * z, q * z + z>>
             /\ Of(resident[q], "trellis", <<"w2", d>>).in = <<q * z, q * z + z>>
  BY ExpertPart
<1>2. PICK tp \in Nat \ {0} : tp = layer.tp
  BY LayerIs DEF SliceInv
<1>3. r \in 0 .. tp - 1
  BY <1>2 DEF Rank
<1>4. PICK a \in Nat : a = r * z
  BY <1>3
<1>5. r = 0 => a = 0
  BY <1>4
<1>6. ASSUME r # 0 PROVE Of(resident[r - 1], "trellis", <<"w1", e>>).out[2] = a
  <2>1. r - 1 \in Rank
    BY <1>2, <1>3, <1>6 DEF Rank
  <2>2. PICK k \in Nat : r = k + 1
    BY <1>3, <1>6, r - 1 \in Nat
  <2>3. (k + 1) * z = k * z + z /\ r - 1 = k
    BY <2>2
  <2>4. k * z + z = a
    BY <1>4, <2>2, <2>3
  <2>5. Of(resident[k], "trellis", <<"w1", e>>).out = <<k * z, k * z + z>>
    BY <1>1, <2>1, <2>3
  <2> QED BY <2>3, <2>4, <2>5
<1>7. ASSUME r = tp - 1 PROVE a + z = PadDim(layer.out[1])
  <2>1. tp * z = r * z + z
    BY <1>3, <1>7
  <2> QED BY <1>1, <1>2, <1>4, <2>1
<1>8. divisor[r] = ck.scale
  BY ScaleRecovered DEF Divided, Serving, SliceInv
<1> DEFINE mine == Of(resident[r], "trellis", <<"w1", e>>).out
<1>9. /\ mine = <<a, a + z>>
      /\ Of(resident[r], "trellis", <<"w3", e>>).out = mine
      /\ Of(resident[r], "trellis", <<"w2", e>>).in = mine
  BY <1>1, <1>4
<1> HIDE DEF mine
<1>10. mine[1] = a /\ mine[2] = a + z
  BY <1>9
<1>11. mine[1] = IF r = 0 THEN 0 ELSE Of(resident[r - 1], "trellis", <<"w1", e>>).out[2]
  BY <1>5, <1>6, <1>10
<1>12. r = layer.tp - 1 => mine[2] = PadDim(layer.out[1])
  BY <1>2, <1>7, <1>10
<1> QED BY <1>8, <1>9, <1>11, <1>12 DEF mine

\* The intermediate channels that a rank's gate and up produce are those its
\* down projection reads, the ranks divide them, and the routing weights make
\* up for the constant that was folded into `up`: the padded width is split
\* for all three (fused_moe.py, _tp_shard), and what the check of the median
\* cannot tell from the constant is not served.
THEOREM ExpertsAlwaysMeet ==
    ASSUME MostMeasured
    PROVE  Spec => []ExpertsMeet
<1>1. SliceInv /\ Divided => ExpertsMeet
  BY ExpertsMeetHere
<1> QED BY <1>1, SliceInvAlways, DividedAlways, PTL

(***************************************************************************)
(* Linear layers and the head: the shapes that were checked are those that  *)
(* are served.                                                              *)
(***************************************************************************)
ShapesFit(slices) ==
    \A i \in Keys : /\ Wide(Of(slices, "suh", i).in) = WantedIn
                    /\ Wide(Of(slices, "svh", i).out) = WantedOut(i)
Fitted == \A r \in Rank : state[r] = "served" /\ layer.kind # "moe" => ShapesFit(resident[r])

LEMMA StillFit ==
    ASSUME Still
    PROVE  (\A slices : ShapesFit(slices)' = ShapesFit(slices)) /\ (layer.kind = "moe")' = (layer.kind = "moe")
<1>1. layer' = layer
  BY DEF Still
<1>2. Keys' = Keys /\ WantedIn' = WantedIn /\ \A i : WantedOut(i)' = WantedOut(i)
  BY <1>1, StillSame DEF WantedIn, WantedOut, InSize, OutSize, Padded, Replicas
<1> QED BY <1>1, <1>2 DEF ShapesFit, Of

LEMMA FittedStep == SliceInv /\ Fitted /\ [Next]_vars => Fitted'
<1> SUFFICES ASSUME SliceInv, Fitted, [Next]_vars PROVE Fitted'
  OBVIOUS
<1>1. Still
  BY DEF Next, CreateWeights, NextModule, Load, Process, vars, Still
<1>2. CASE CreateWeights
  <2>1. \A r \in Rank : state'[r] # "served"
    BY <1>2 DEF CreateWeights
  <2> QED BY <1>1, <2>1, StillSame DEF Fitted
<1>3. CASE UNCHANGED <<state, resident>>
  BY <1>1, <1>3, StillSame, StillFit DEF Fitted
<1>4. ASSUME NEW name \in Names, Load(name) PROVE Fitted'
  <2>1. resident' = resident /\ \A r \in Rank : state'[r] \in {"refused", state[r]}
    BY <1>4 DEF Load
  <2> QED BY <1>1, <2>1, StillSame, StillFit DEF Fitted
<1>5. ASSUME NEW r \in Rank, Process(r) PROVE Fitted'
  <2>1. CASE layer.kind # "moe"
    <3> DEFINE fits == IF layer.kind = "head" THEN HeadFits(r) ELSE LinearFits(r)
    <3>1. /\ state' = [state EXCEPT ![r] = IF fits THEN "served" ELSE "refused"]
          /\ resident' = IF fits THEN [resident EXCEPT ![r] = held[r]] ELSE resident
      BY <1>5, <2>1 DEF Process
    <3>2. fits => ShapesFit(held[r])
      BY DEF HeadFits, LinearFits, CheckShapes, ShapesFit
    <3> HIDE DEF fits
    <3>3. ASSUME NEW q \in Rank, state'[q] = "served" PROVE ShapesFit(resident'[q])
      <4>1. CASE q = r
        <5>1. fits
          BY <3>1, <3>3, <4>1 DEF SliceInv, Ranks
        <5>2. resident'[q] = held[r]
          BY <3>1, <4>1, <5>1 DEF SliceInv, Ranks
        <5> QED BY <3>2, <5>1, <5>2
      <4>2. CASE q # r
        <5>1. state[q] = "served" /\ resident'[q] = resident[q]
          BY <3>1, <3>3, <4>2 DEF SliceInv, Ranks
        <5> QED BY <2>1, <5>1 DEF Fitted
      <4> QED BY <4>1, <4>2
    <3> QED BY <1>1, <3>3, StillSame, StillFit DEF Fitted
  <2>2. CASE layer.kind = "moe"
    BY <1>1, <2>2, StillFit DEF Fitted
  <2> QED BY <2>1, <2>2
<1>6. CASE UNCHANGED vars
  BY <1>3, <1>6 DEF vars
<1>7. ASSUME NEW m \in Modules, NextModule(m) PROVE Fitted'
  BY <1>3, <1>7 DEF NextModule
<1> QED BY <1>2, <1>4, <1>5, <1>6, <1>7 DEF Next

LEMMA FittedAlways == Spec => []Fitted
<1>1. Init => Fitted
  BY DEF Init, Fitted
<1> QED BY <1>1, FittedStep, SliceInvAlways, PTL DEF Spec

(***************************************************************************)
(* The rows of the head.                                                    *)
(***************************************************************************)
LEMMA RoundedUp ==
    ASSUME NEW n \in Nat, NEW d \in Nat \ {0}
    PROVE  Up(n, d) \in Nat /\ n <= Up(n, d)
<1>1. PICK x \in Nat : x = n + d - 1
  OBVIOUS
<1>2. PICK q \in Nat : q = x \div d
  BY Quotient, x \in Int, x >= 0
<1>3. PICK w \in 0 .. d - 1 : x = d * q + w
  <2>1. x \in Int
    OBVIOUS
  <2> QED BY <1>2, <2>1, Quotient
<1>4. Up(n, d) = q * d
  BY <1>1, <1>2 DEF Up
<1>5. PICK y \in Nat : y = q * d
  OBVIOUS
<1>6. d * q = y
  BY <1>5
<1> QED BY <1>1, <1>3, <1>4, <1>5, <1>6

\* A cut as wide as was asked for starts and stops where it was asked to.
LEMMA CutExact ==
    ASSUME NEW n \in Nat, NEW a \in Nat, NEW s \in Nat, s > 0, Wide(Cut(n, a, a + s)) = s
    PROVE  Cut(n, a, a + s)[1] = a /\ Cut(n, a, a + s)[2] = a + s
<1>1. a + s \in Nat /\ a <= a + s
  OBVIOUS
<1>2. /\ Cut(n, a, a + s)[1] = IF a <= n THEN a ELSE n
      /\ Cut(n, a, a + s)[2] = IF a + s <= n THEN a + s ELSE n
  BY <1>1, CutIs
<1> QED BY <1>2 DEF Wide

LEMMA HeadSpan ==
    ASSUME SliceInv, Fitted, layer.kind = "head", Serving, NEW r \in Rank, OutSize(1) > 0
    PROVE  LET span == Of(resident[r], "svh", 1).out
           IN  /\ span[1] = r * OutSize(1)
               /\ layer.tp = 1 => r = 0
               /\ layer.tp = 1 => OutSize(1) >= layer.out[1]
<1>1. Fixed /\ layer.tp \in Nat \ {0} /\ state[r] = "served" /\ "svh" \in Names
  BY LayerIs DEF SliceInv, Serving, Names
<1>2. 1 \in DOMAIN layer.out /\ 1 \in Keys /\ Keys = DOMAIN layer.out /\ layer.out[1] \in Nat
  <2>1. layer.out \in Seq(Nat \ {0}) /\ Len(layer.out) = 1
    BY <1>1, LayerIs, OutIs
  <2>2. DOMAIN layer.out = 1 .. 1
    BY <2>1
  <2> QED BY <2>1, <2>2 DEF Keys
<1>3. PICK m \in Modules : Serves(m, r, 1)
  BY <1>1, <1>2, ServedFrom
<1>4. m = <<1>> /\ ~Fuses(m) /\ ~ByRow(m)
  BY <1>1, ModuleIs DEF Fuses, ByRow
<1>5. Of(resident[r], "svh", 1) = Piece("svh", m, r, 1)
  BY <1>1, <1>3 DEF Serves
<1>6. Wide(Of(resident[r], "svh", 1).out) = WantedOut(1)
  BY <1>1, <1>2 DEF Fitted, ShapesFit
<1>7. Whole(m) = [in |-> <<0, StoredIn(m)>>, out |-> <<0, StoredOut(m)>>]
  BY DEF Whole
<1>8. PICK s \in Nat : s = OutSize(1) /\ s > 0
  BY <1>1, <1>2, WidthsAre
<1>9. CASE layer.tp = 1
  <2>1. r = 0
    BY <1>9 DEF Rank
  <2>2. Of(resident[r], "svh", 1).out = <<0, StoredOut(m)>>
    BY <1>4, <1>5, <1>7, <1>9 DEF Piece, Unsplit
  <2>3. PICK p \in Nat : p = Padded /\ layer.out[1] <= p
    BY <1>2, RoundedUp, Sizes DEF Padded
  <2>4. OutSize(1) = p \div 1
    BY <1>9, <2>3 DEF OutSize
  <2> QED BY <1>8, <2>1, <2>2, <2>3, <2>4
<1>10. CASE layer.tp # 1
  <2>1. ~Unsplit(m) /\ 1 \in KeysOf(m) /\ WellCut(m, r, 1)
    BY <1>3, <1>10 DEF Unsplit, Serves
  <2>2. Of(resident[r], "svh", 1).out = OutCut(m, r, 1)
    BY <1>1, <1>4, <1>5, <1>7, <2>1, PieceIs
  <2>3. SizeOf(m, 1) = s /\ Aligned(s)
    BY <1>8, <1>10, <2>1 DEF SizeOf, WellCut
  <2>4. FirstOf(m, r, 1) = r * s
    BY <1>4, <1>8, <2>3 DEF FirstOf, IndexOf
  <2>5. PICK a \in Nat : a = r * s
    BY <1>1, ReplicasAre
  <2>6. WantedOut(1) = s
    BY <1>8, <1>10, <2>3, Padding DEF WantedOut
  <2>7. OutCut(m, r, 1) = Cut(StoredOut(m), a, a + s) /\ StoredOut(m) \in Nat
    BY <1>1, <2>3, <2>4, <2>5, StoredIs DEF OutCut
  <2>8. Cut(StoredOut(m), a, a + s)[1] = a
    BY <1>6, <1>8, <2>2, <2>6, <2>7, CutExact
  <2> QED BY <1>8, <1>10, <2>2, <2>5, <2>7, <2>8
<1> QED BY <1>9, <1>10

LEMMA HeadRowsHold == SliceInv /\ Fitted => HeadRows
<1> SUFFICES ASSUME SliceInv, Fitted, Serving, layer.kind = "head", NEW r \in Rank, NEW p \in 0 .. OutSize(1) - 1
             PROVE  Logit(r, p) = LET row == r * OutSize(1) + p
                                  IN  IF row < layer.out[1] THEN row ELSE Zero
  BY DEF HeadRows
<1>1. Fixed /\ layer.tp \in Nat \ {0} /\ r \in Nat
  BY LayerIs, ReplicasAre DEF SliceInv
<1>2. 1 \in DOMAIN layer.out
  BY <1>1, LayerIs, OutIs
<1>3. PICK s \in Nat : s = OutSize(1) /\ s > 0 /\ p \in 0 .. s - 1
  BY <1>1, <1>2, WidthsAre
<1>4. PICK n \in Nat : n = layer.out[1]
  BY <1>2, LayerIs, <1>1
<1>5. PICK a \in Nat : a = r * s
  BY <1>1
<1>6. (r + 1) * s = a + s
  BY <1>1, <1>5
<1> DEFINE span == Of(resident[r], "svh", 1).out
<1>7. span[1] = a
  BY <1>3, <1>5, HeadSpan
<1>8. Min({n, a + s}) = (IF n <= a + s THEN n ELSE a + s) /\ Min({n, a}) = (IF n <= a THEN n ELSE a)
  BY MinOfTwo
<1>9. PICK v \in Int : v = Min({n, a + s}) - Min({n, a})
  BY <1>8
<1>10. RealRows(r) = IF 0 <= v THEN v ELSE 0
  <2>1. RealRows(r) = Max({0, v})
    BY <1>3, <1>4, <1>5, <1>6, <1>9 DEF RealRows
  <2> QED BY <2>1, MaxOfTwo
<1>11. Logit(r, p) = IF Extends(r, Wide(span)) /\ p >= RealRows(r) THEN Zero ELSE a + p
  BY <1>7 DEF Logit
<1> HIDE DEF span
<1>12. RealRows(r) < s => Extends(r, Wide(span))
  BY <1>3 DEF Extends
<1>13. p >= RealRows(r) <=> a + p >= n
  BY <1>3, <1>8, <1>9, <1>10
<1>14. p >= RealRows(r) => RealRows(r) < s
  BY <1>3, <1>8, <1>9, <1>10
<1> QED BY <1>3, <1>4, <1>5, <1>11, <1>12, <1>13, <1>14

(***************************************************************************)
(* The channels a linear returns.                                           *)
(***************************************************************************)
LEMMA Cancel ==
    ASSUME NEW a \in Nat, NEW b \in Nat \ {0}, NEW g \in Nat \ {0}
    PROVE  (a * g) \div (b * g) = a \div b /\ b * g \in Nat \ {0}
<1>1. PICK q \in Nat : q = a \div b
  BY Quotient, a \in Int, a >= 0
<1>2. PICK w \in 0 .. b - 1 : w = a % b
  BY Quotient, a \in Int
<1>3. a = b * q + w
  BY <1>1, <1>2, Quotient, a \in Int
<1>4. PICK d \in Nat \ {0} : d = b * g
  OBVIOUS
<1>5. PICK e \in Nat : b = w + 1 + e
  BY <1>2, b - w - 1 \in Nat
<1>6. PICK v \in Nat : v = w * g
  BY <1>2
<1>7. d = v + g + e * g /\ e * g \in Nat
  BY <1>4, <1>5, <1>6
<1>8. v \in 0 .. d - 1
  BY <1>7
<1>9. PICK x \in Nat : x = a * g
  OBVIOUS
<1>10. x = d * q + v
  <2>1. a * g = (b * q) * g + w * g
    BY <1>2, <1>3
  <2>2. (b * q) * g = (b * g) * q
    BY <1>1
  <2> QED BY <1>4, <1>6, <1>9, <2>1, <2>2
<1>11. PICK p \in Nat : p = x \div d
  BY Quotient, x \in Int, x >= 0
<1>12. PICK u \in 0 .. d - 1 : u = x % d
  BY Quotient, x \in Int
<1>13. x = d * p + u
  BY <1>11, <1>12, Quotient, x \in Int
<1>14. p = q
  <2>1. CASE u >= v
    <3>1. PICK z \in 0 .. d - 1 : z = u - v
      BY <1>8, <1>12, <2>1
    <3>2. d * q = d * p + z
      BY <1>8, <1>10, <1>12, <1>13, <3>1
    <3> QED BY <3>1, <3>2, QuotientOnly, p \in Int, q \in Int
  <2>2. CASE u < v
    <3>1. PICK z \in 0 .. d - 1 : z = v - u
      BY <1>8, <1>12, <2>2
    <3>2. d * p = d * q + z
      BY <1>8, <1>10, <1>12, <1>13, <3>1
    <3> QED BY <3>1, <3>2, QuotientOnly, p \in Int, q \in Int
  <2> QED BY <1>8, <1>12, <2>1, <2>2
<1> QED BY <1>1, <1>4, <1>9, <1>11, <1>14

\* The numbers that a division by s takes to k.
LEMMA Block ==
    ASSUME NEW c \in Nat, NEW s \in Nat \ {0}, NEW k \in Nat
    PROVE  c \div s = k <=> c \in k * s .. k * s + s - 1
<1>1. PICK q \in Nat : q = c \div s
  BY Quotient, c \in Int, c >= 0
<1>2. PICK w \in 0 .. s - 1 : w = c % s
  BY Quotient, c \in Int
<1>3. c = s * q + w
  BY <1>1, <1>2, Quotient, c \in Int
<1>4. PICK x \in Nat : x = k * s /\ x = s * k
  OBVIOUS
<1>5. PICK y \in Nat : y = s * q
  BY <1>1
<1>6. ASSUME q = k PROVE c \in x .. x + s - 1
  BY <1>2, <1>3, <1>4, <1>6
<1>7. ASSUME c \in x .. x + s - 1 PROVE q = k
  <2>1. PICK v \in Nat : v <= s - 1 /\ c = x + v
    BY <1>7, c - x \in Nat
  <2>2. PICK u \in Nat : u = w /\ u <= s - 1 /\ c = y + u
    BY <1>2, <1>3, <1>5
  <2>3. CASE v >= u
    <3>1. PICK z \in 0 .. s - 1 : y = x + z
      BY <2>1, <2>2, <2>3, v - u \in 0 .. s - 1
    <3>2. s * q = s * k + z
      BY <1>4, <1>5, <3>1
    <3> QED BY <3>2, QuotientOnly, k \in Int, q \in Int
  <2>4. CASE v < u
    <3>1. PICK z \in 0 .. s - 1 : x = y + z
      BY <2>1, <2>2, <2>4, u - v \in 0 .. s - 1
    <3>2. s * k = s * q + z
      BY <1>4, <1>5, <3>1
    <3> QED BY <3>2, QuotientOnly, k \in Int, q \in Int
  <2> QED BY <2>1, <2>2, <2>3, <2>4
<1> QED BY <1>1, <1>4, <1>6, <1>7

\* Below a product, the quotient is below the other factor.
LEMMA Below ==
    ASSUME NEW r \in Nat, NEW a \in Nat \ {0}, NEW b \in Nat \ {0}, r < a * b
    PROVE  r \div b \in Nat /\ r \div b < a
<1>1. PICK q \in Nat : q = r \div b
  BY Quotient, r \in Int, r >= 0
<1>2. PICK w \in 0 .. b - 1 : w = r % b
  BY Quotient, r \in Int
<1>3. r = b * q + w
  BY <1>1, <1>2, Quotient, r \in Int
<1>4. ASSUME q >= a PROVE FALSE
  <2>1. PICK e \in Nat : q = a + e
    BY <1>4, q - a \in Nat
  <2>2. b * q = a * b + b * e /\ b * e \in Nat /\ a * b \in Nat
    BY <2>1
  <2> QED BY <1>2, <1>3, <2>2
<1> QED BY <1>1, <1>4

\* The channels of group k of g equal ones.
LEMMA GroupIs ==
    ASSUME NEW s \in Nat \ {0}, NEW g \in Nat \ {0}, NEW k \in 0 .. g - 1
    PROVE  {c \in 0 .. g * s - 1 : (c * g) \div (g * s) = k} = k * s .. k * s + s - 1
<1>1. PICK n \in Nat \ {0} : n = g * s /\ n = s * g
  OBVIOUS
<1>2. \A c \in Nat : (c * g) \div n = c \div s
  BY <1>1, Cancel
<1>3. \A c \in Nat : (c * g) \div n = k <=> c \in k * s .. k * s + s - 1
  BY <1>2, Block, k \in Nat
<1>4. PICK a \in Nat : a = k * s
  OBVIOUS
<1>5. a + s <= n
  <2>1. PICK e \in Nat : g = k + 1 + e
    BY g - k - 1 \in Nat
  <2>2. n = a + s + e * s /\ e * s \in Nat
    BY <1>1, <1>4, <2>1
  <2> QED BY <2>2
<1>6. {c \in 0 .. n - 1 : (c * g) \div n = k} = a .. a + s - 1
  <2>1. \A c \in 0 .. n - 1 : c \in Nat
    BY <1>1
  <2>2. \A c \in a .. a + s - 1 : c \in Nat /\ c \in 0 .. n - 1
    BY <1>1, <1>4, <1>5
  <2> QED BY <1>3, <1>4, <2>1, <2>2
<1> QED BY <1>1, <1>4, <1>6

\* How many different slices of shard i there are, and which one rank r keeps.
Groups(i) == IF layer.kind = "row" THEN 1
             ELSE IF layer.kind = "qkv" /\ i > 1 THEN Min({layer.kvHeads, layer.tp}) ELSE layer.tp
Kept(r, i) == IF layer.kind = "row" THEN 0 ELSE IndexOf(r, i)

LEMMA EvenShare ==
    ASSUME NEW n \in Nat \ {0}, NEW d \in Nat \ {0}, n % d = 0
    PROVE  n \div d \in Nat \ {0} /\ n = d * (n \div d)
<1>1. PICK q \in Nat : q = n \div d
  BY Quotient, n \in Int, n >= 0
<1>2. n = d * q
  BY <1>1, Quotient, n \in Int
<1>3. q # 0
  BY <1>2
<1> QED BY <1>1, <1>2, <1>3

\* KV heads that are replicated.
LEMMA SharedHeads ==
    ASSUME Fixed, layer.kind = "qkv", layer.kvHeads < layer.tp
    PROVE  /\ layer.kvHeads \in Nat \ {0} /\ Replicas \in Nat /\ Replicas > 1
           /\ layer.tp = Replicas * layer.kvHeads /\ layer.tp = layer.kvHeads * Replicas
<1>1. PICK h \in Nat \ {0} : h = layer.kvHeads
  BY LayerIs, OutIs
<1>2. PICK t \in Nat \ {0} : t = layer.tp
  BY LayerIs
<1>3. h % t = 0 \/ t % h = 0
  BY <1>1, <1>2, OutIs
<1>4. h < t
  BY <1>1, <1>2
<1>5. t % h = 0
  <2>1. SUFFICES ASSUME h % t = 0 PROVE FALSE
    BY <1>3
  <2>2. h \div t \in Nat \ {0} /\ h = t * (h \div t)
    BY <2>1, EvenShare
  <2>3. PICK q \in Nat \ {0} : h = t * q
    BY <2>2
  <2>4. PICK k \in Nat : q = 1 + k
    BY q - 1 \in Nat
  <2>5. t * q = t + t * k /\ t * k \in Nat
    BY <2>4
  <2> QED BY <1>4, <2>3, <2>5
<1>6. PICK q \in Nat \ {0} : q = t \div h /\ t = h * q
  BY <1>5, EvenShare
<1>7. q # 1 /\ t = q * h
  BY <1>4, <1>6
<1>8. Replicas = q
  BY <1>1, <1>2, <1>6 DEF Replicas
<1>9. Replicas \in Nat /\ Replicas > 1
  BY <1>7, <1>8
<1> QED BY <1>1, <1>2, <1>6, <1>7, <1>8, <1>9

LEMMA SharesAre ==
    ASSUME Fixed, layer.kind \notin {"head", "moe"}, NEW i \in DOMAIN layer.out, NEW r \in Rank
    PROVE  /\ OutSize(i) \in Nat \ {0} /\ Groups(i) \in Nat \ {0}
           /\ layer.out[i] = Groups(i) * OutSize(i)
           /\ (r * Groups(i)) \div layer.tp = Kept(r, i) /\ Kept(r, i) \in 0 .. Groups(i) - 1
<1>1. PICK n \in Nat \ {0} : n = layer.out[i]
  BY WidthsAre
<1>2. PICK t \in Nat \ {0} : t = layer.tp
  BY LayerIs
<1>3. r \in Nat /\ r < t
  BY <1>2 DEF Rank
<1>4. i \in Nat /\ i >= 1
  BY LayerIs
<1>5. CASE layer.kind = "row"
  <2>1. Groups(i) = 1 /\ Kept(r, i) = 0 /\ OutSize(i) = n
    BY <1>1, <1>5 DEF Groups, Kept, OutSize
  <2>2. r \div t = 0
    <3>1. r \in 0 * t .. 0 * t + t - 1
      BY <1>3
    <3> QED BY <1>3, <3>1, Block
  <2> QED BY <1>1, <1>2, <1>3, <2>1, <2>2
<1>6. CASE layer.kind # "row" /\ ~(layer.kind = "qkv" /\ i > 1 /\ layer.kvHeads < layer.tp)
  <2>1. layer.kind \in {"column", "merged", "qkv"}
    BY <1>6, LayerIs
  <2>2. layer.kind = "qkv" /\ i > 1 => Replicas = 1 /\ Min({layer.kvHeads, layer.tp}) = t
    <3>1. SUFFICES ASSUME layer.kind = "qkv", i > 1 PROVE Replicas = 1 /\ Min({layer.kvHeads, layer.tp}) = t
      OBVIOUS
    <3>2. layer.kvHeads \in Int /\ layer.tp \in Int /\ layer.tp <= layer.kvHeads
      BY <1>6, <3>1, LayerIs
    <3> QED BY <1>2, <3>2, MinOfTwo DEF Replicas
  <2>3. Groups(i) = t
    BY <1>2, <1>6, <2>2 DEF Groups
  <2>4. Kept(r, i) = r
    <3>1. r \div 1 = r
      BY <1>3
    <3> QED BY <1>4, <1>6, <2>2, <3>1 DEF Kept, IndexOf, KvIndex
  <2>5. OutSize(i) = n \div t
    BY <1>1, <1>2, <2>1, <2>2 DEF OutSize
  <2>6. n % t = 0
    BY <1>1, <1>2, <2>1, OutIs
  <2>7. n \div t \in Nat \ {0} /\ n = t * (n \div t)
    BY <2>6, EvenShare
  <2>8. (r * t) \div t = r
    <3>1. r * t = t * r
      BY <1>3
    <3> QED BY <1>3, <3>1, MultipleDiv
  <2> QED BY <1>1, <1>2, <1>3, <2>3, <2>4, <2>5, <2>7, <2>8
<1>7. CASE layer.kind = "qkv" /\ i > 1 /\ layer.kvHeads < layer.tp
  <2>1. PICK h \in Nat \ {0} : h = layer.kvHeads /\ h < t
    BY <1>2, <1>7, SharedHeads
  <2>2. PICK c \in Nat \ {0} : c = Replicas /\ c > 1 /\ t = c * h /\ t = h * c
    BY <1>2, <1>7, <2>1, SharedHeads
  <2>3. Groups(i) = h
    <3>1. Min({h, t}) = h
      BY <2>1, MinOfTwo
    <3> QED BY <1>2, <1>7, <2>1, <3>1 DEF Groups
  <2>4. Kept(r, i) = r \div c
    BY <1>4, <1>7, <2>2 DEF Kept, IndexOf, KvIndex
  <2>5. OutSize(i) = n \div h
    BY <1>1, <1>7, <2>1, <2>2 DEF OutSize
  <2>6. n % h = 0
    <3>1. Len(layer.out) = 3 /\ layer.out[2] % h = 0 /\ layer.out[3] = layer.out[2]
      BY <1>7, <2>1, OutIs
    <3>2. i \in {2, 3}
      BY <1>4, <1>7, <3>1, LayerIs
    <3> QED BY <1>1, <3>1, <3>2
  <2>7. n \div h \in Nat \ {0} /\ n = h * (n \div h)
    BY <2>6, EvenShare
  <2>8. (r * h) \div t = r \div c
    BY <1>3, <2>2, Cancel
  <2>9. r \div c \in Nat /\ r \div c < h
    BY <1>3, <2>2, Below
  <2> QED BY <1>1, <1>2, <2>1, <2>3, <2>4, <2>5, <2>7, <2>8, <2>9
<1> QED BY <1>5, <1>6, <1>7

LEMMA OwnedIs ==
    ASSUME Fixed, layer.kind \notin {"head", "moe"}, NEW i \in DOMAIN layer.out, NEW r \in Rank
    PROVE  Owned(r, i) = Kept(r, i) * OutSize(i) .. Kept(r, i) * OutSize(i) + OutSize(i) - 1
<1>1. PICK s \in Nat \ {0} : s = OutSize(i)
  BY SharesAre
<1>2. PICK g \in Nat \ {0} : g = Groups(i)
  BY SharesAre
<1>3. PICK k \in 0 .. g - 1 : k = Kept(r, i)
  BY <1>2, SharesAre
<1>4. layer.out[i] = g * s /\ (r * g) \div layer.tp = k
  BY <1>1, <1>2, <1>3, SharesAre
<1>5. Owned(r, i) = {c \in 0 .. g * s - 1 : (c * g) \div (g * s) = k}
  BY <1>2, <1>4 DEF Owned, Groups
<1> QED BY <1>1, <1>3, <1>5, GroupIs

(***************************************************************************)
(* What a fused tensor of replicated heads would have to hold.              *)
(***************************************************************************)
Slab(y, a, d) == {y} \X (a + 1 .. a + d)

LEMMA SlabIs ==
    ASSUME NEW y, NEW a \in Nat, NEW d \in Nat
    PROVE  IsFiniteSet(Slab(y, a, d)) /\ Cardinality(Slab(y, a, d)) = d
<1>1. PICK b \in Int, c \in Int : b = a + 1 /\ c = a + d
  OBVIOUS
<1>2. IsFiniteSet(b .. c) /\ Cardinality(b .. c) = d
  BY <1>1, FS_Interval
<1>3. IsFiniteSet({y}) /\ Cardinality({y}) = 1
  BY FS_Singleton
<1>4. IsFiniteSet({y} \X (b .. c)) /\ Cardinality({y} \X (b .. c)) = Cardinality({y}) * Cardinality(b .. c)
  BY <1>2, <1>3, FS_Product
<1> QED BY <1>1, <1>2, <1>3, <1>4 DEF Slab

LEMMA TotalOneMore ==
    ASSUME NEW n \in Nat, NEW f, DOMAIN f = 1 .. n + 1, \A x \in 1 .. n + 1 : f[x] \in Nat
    PROVE  Total(f) = Total([x \in 1 .. n |-> f[x]]) + f[n + 1]
<1> DEFINE g == [x \in 1 .. n |-> f[x]]
           top == Slab(n + 1, 0, f[n + 1])
<1>1. IsFiniteSet(DOMAIN f) /\ IsFiniteSet(DOMAIN g)
  BY FS_Interval
<1>2. \A x \in DOMAIN g : g[x] = f[x] /\ x \in DOMAIN f /\ x # n + 1
  OBVIOUS
<1>3. DOMAIN f = DOMAIN g \cup {n + 1}
  OBVIOUS
<1> HIDE DEF g
<1>4. /\ IsFiniteSet(Units(f)) /\ Total(f) = Cardinality(Units(f))
      /\ IsFiniteSet(Units(g)) /\ Total(g) = Cardinality(Units(g)) /\ Total(g) \in Nat
  BY <1>1, <1>2, UnitsFinite
<1>5. f[n + 1] \in Nat
  OBVIOUS
<1>6. IsFiniteSet(top) /\ Cardinality(top) = f[n + 1]
  BY <1>5, SlabIs
<1>7. \A z : z \in top <=> \E k \in 1 .. f[n + 1] : z = <<n + 1, k>>
  BY <1>5 DEF Slab
<1> HIDE DEF top
<1>8. Units(f) = Units(g) \cup top
  <2>1. \A z : z \in Units(f) <=> z \in Units(g) \/ z \in top
    BY <1>2, <1>3, <1>7, UnitsAre
  <2> QED BY <2>1
<1>9. Units(g) \cap top = {}
  <2>1. \A z : ~(z \in Units(g) /\ z \in top)
    BY <1>2, <1>7, UnitsAre
  <2> QED BY <2>1
<1>10. Cardinality(Units(f)) = Cardinality(Units(g)) + Cardinality(top) - Cardinality(Units(g) \cap top)
  BY <1>4, <1>6, <1>8, FS_Union
<1>11. Cardinality(Units(g) \cap top) = 0
  BY <1>9, FS_EmptySet
<1>12. Total(f) = Total(g) + f[n + 1]
  BY <1>4, <1>5, <1>6, <1>10, <1>11
<1> QED BY <1>12 DEF g

LEMMA TotalMore ==
    ASSUME NEW f, NEW g, IsFiniteSet(DOMAIN g), DOMAIN f = DOMAIN g, NEW y \in DOMAIN g, NEW d \in Nat,
           \A x \in DOMAIN g : f[x] \in Nat /\ g[x] \in Nat /\ g[x] <= f[x], g[y] + d <= f[y]
    PROVE  Total(g) + d <= Total(f) /\ Total(f) \in Nat /\ Total(g) \in Nat
<1> DEFINE more == Slab(y, g[y], d)
<1>1. /\ IsFiniteSet(Units(f)) /\ Total(f) = Cardinality(Units(f)) /\ Total(f) \in Nat
      /\ IsFiniteSet(Units(g)) /\ Total(g) = Cardinality(Units(g)) /\ Total(g) \in Nat
  BY UnitsFinite
<1>2. g[y] \in Nat /\ f[y] \in Nat
  OBVIOUS
<1>3. IsFiniteSet(more) /\ Cardinality(more) = d
  BY <1>2, SlabIs
<1>4. \A z : z \in more <=> \E k \in g[y] + 1 .. g[y] + d : z = <<y, k>>
  BY <1>2 DEF Slab
<1> HIDE DEF more
<1>5. Units(g) \cap more = {}
  <2>1. ASSUME NEW z, z \in Units(g), z \in more PROVE FALSE
    <3>1. PICK k \in Int : k \in g[y] + 1 .. g[y] + d /\ z = <<y, k>>
      BY <1>2, <1>4, <2>1
    <3>2. PICK x \in DOMAIN g : \E n \in 1 .. g[x] : z = <<x, n>>
      BY <2>1, UnitsAre
    <3>3. x = y /\ k \in 1 .. g[y]
      BY <3>1, <3>2
    <3> QED BY <1>2, <3>1, <3>3
  <2> QED BY <2>1
<1>6. Units(g) \cup more \subseteq Units(f)
  <2>1. ASSUME NEW z, z \in Units(g) PROVE z \in Units(f)
    <3>1. PICK x \in DOMAIN g : \E n \in 1 .. g[x] : z = <<x, n>>
      BY <2>1, UnitsAre
    <3>2. 1 .. g[x] \subseteq 1 .. f[x]
      OBVIOUS
    <3> QED BY <3>1, <3>2, UnitsAre
  <2>2. ASSUME NEW z, z \in more PROVE z \in Units(f)
    <3>1. PICK k \in Int : k \in g[y] + 1 .. g[y] + d /\ z = <<y, k>>
      BY <1>2, <1>4, <2>2
    <3>2. k \in 1 .. f[y]
      BY <1>2, <3>1
    <3> QED BY <3>1, <3>2, UnitsAre
  <2> QED BY <2>1, <2>2
<1>7. IsFiniteSet(Units(g) \cup more) /\ Cardinality(Units(g) \cup more) <= Cardinality(Units(f))
  BY <1>1, <1>6, FS_Subset
<1>8. Cardinality(Units(g) \cup more) = Cardinality(Units(g)) + Cardinality(more) - Cardinality(Units(g) \cap more)
  BY <1>1, <1>3, FS_Union
<1>9. Cardinality(Units(g) \cap more) = 0
  BY <1>5, FS_EmptySet
<1> QED BY <1>1, <1>3, <1>7, <1>8, <1>9

At(m, i) == CHOOSE k \in DOMAIN m : m[k] = i

LEMMA ShardAt ==
    ASSUME Fixed, layer.kind # "moe", NEW m \in Modules
    PROVE  /\ m \in Seq(Nat) /\ Len(m) \in Nat \ {0} /\ DOMAIN m = 1 .. Len(m)
           /\ \A k \in DOMAIN m : /\ m[k] \in DOMAIN layer.out /\ m[k] \in KeysOf(m) /\ At(m, m[k]) = k
           /\ \A i \in KeysOf(m) : At(m, i) \in DOMAIN m /\ m[At(m, i)] = i /\ i \in DOMAIN layer.out
<1>1. m \in Seq(Nat) /\ Len(m) > 0 /\ KeysOf(m) = ToSet(m) /\ KeysOf(m) \subseteq DOMAIN layer.out
  BY ModuleIs DEF KeysOf, Keys
<1>2. m \in ToSet(layer.stored)
  BY DEF Modules
<1>3. IsInjective(m)
  BY <1>2, ShardAssumption DEF Fixed
<1>4. \A k \in DOMAIN m : m[k] \in KeysOf(m)
  BY <1>1 DEF ToSet
<1>5. \A i \in KeysOf(m) : \E k \in DOMAIN m : m[k] = i
  BY <1>1 DEF ToSet
<1>6. \A i \in KeysOf(m) : At(m, i) \in DOMAIN m /\ m[At(m, i)] = i
  BY <1>5 DEF At
<1>7. \A k \in DOMAIN m : At(m, m[k]) = k
  BY <1>3, <1>4, <1>6 DEF IsInjective
<1> QED BY <1>1, <1>4, <1>6, <1>7

LEMMA IndexIs == ASSUME Fixed PROVE \A i \in DOMAIN layer.out : i \in Nat /\ i >= 1
<1>1. layer.out \in Seq(Nat \ {0})
  BY LayerIs
<1> QED BY <1>1

LEMMA BeforeIs ==
    ASSUME Fixed, layer.kind \notin {"head", "moe"}, NEW m \in Modules, NEW i \in KeysOf(m)
    PROVE  /\ Len(m) = 1 => Before(i) = 0
           /\ layer.kind # "row" /\ Replicas = 1 => Before(i) = FusedOffset(m, At(m, i))
<1>1. KeysOf(m) = ToSet(m)
  BY DEF KeysOf
<1>2. ModuleOf(i) = m
  <2>1. \A n \in Modules : i \in ToSet(n) => n = m
    BY <1>1, ModuleIs DEF KeysOf
  <2> QED BY <1>1, <2>1 DEF ModuleOf
<1> DEFINE at == At(m, i)
           whole == [k \in 1 .. at - 1 |-> layer.out[m[k]]]
           mine == [k \in 1 .. at - 1 |-> OutSize(m[k])]
<1>3. Before(i) = Total(whole) /\ FusedOffset(m, at) = layer.tp * Total(mine)
  BY <1>2 DEF Before, FusedOffset, At
<1>4. at \in 1 .. Len(m) /\ Len(m) \in Nat
  BY ShardAt
<1>5. ASSUME Len(m) = 1 PROVE Before(i) = 0
  <2>1. DOMAIN whole = {} /\ IsFiniteSet({})
    BY <1>4, <1>5, FS_EmptySet
  <2> HIDE DEF whole
  <2>2. Total(whole) = Cardinality(Units(whole))
    BY <2>1, UnitsFinite
  <2>3. Units(whole) = {}
    BY <2>1, UnitsAre
  <2> QED BY <1>3, <2>2, <2>3, FS_EmptySet
<1>6. ASSUME layer.kind # "row", Replicas = 1 PROVE Before(i) = FusedOffset(m, at)
  <2>1. PICK t \in Nat \ {0} : t = layer.tp
    BY LayerIs
  <2>2. IsFiniteSet(DOMAIN mine) /\ DOMAIN whole = DOMAIN mine
    BY <1>4, FS_Interval
  <2>3. ASSUME NEW k \in 1 .. at - 1 PROVE OutSize(m[k]) \in Nat /\ layer.out[m[k]] = t * OutSize(m[k])
    <3>1. k \in DOMAIN m /\ m[k] \in DOMAIN layer.out
      BY <1>4, <2>3, ShardAt
    <3>2. PICK r \in Rank : r = 0
      BY <2>1 DEF Rank
    <3>3. Groups(m[k]) = t
      <4>1. layer.kind = "qkv" => layer.kvHeads >= layer.tp \/ layer.tp = 1
        BY <1>6, <2>1, SharedHeads, LayerIs
      <4>2. layer.kind = "qkv" => Min({layer.kvHeads, layer.tp}) = t
        <5>1. layer.kind = "qkv" => layer.kvHeads \in Nat \ {0}
          BY LayerIs, OutIs
        <5> QED BY <2>1, <4>1, <5>1, MinOfTwo
      <4> QED BY <1>6, <2>1, <4>2 DEF Groups
    <3> QED BY <3>1, <3>3, SharesAre
  <2>4. \A k \in DOMAIN mine : mine[k] \in Nat /\ whole[k] = t * mine[k]
    BY <2>3
  <2> HIDE DEF whole, mine
  <2>5. Total(whole) = t * Total(mine)
    BY <2>2, <2>4, TotalTimes
  <2> QED BY <1>3, <2>1, <2>5
<1> QED BY <1>5, <1>6

\* A slice as wide as was asked for is the one that was asked for.
LEMMA AskedIs ==
    ASSUME SliceInv, Fitted, layer.kind \notin {"row", "head", "moe"}, NEW r \in Rank, state[r] = "served",
           NEW m \in Modules, NEW i, Serves(m, r, i), ~Unsplit(m)
    PROVE  LET span == Of(resident[r], "svh", i).out
               first == FirstOf(m, r, i)
           IN  /\ first \in Nat /\ OutSize(i) \in Nat \ {0} /\ Aligned(OutSize(i))
               /\ span[1] = first /\ span[2] = first + OutSize(i) /\ span[2] <= StoredOut(m)
<1>1. Fixed /\ "svh" \in Names /\ i \in KeysOf(m) /\ WellCut(m, r, i)
  BY DEF SliceInv, Names, Serves
<1>2. i \in DOMAIN layer.out /\ Keys = DOMAIN layer.out
  BY <1>1, ShardAt DEF Keys
<1>3. PICK s \in Nat \ {0} : s = OutSize(i)
  BY <1>1, <1>2, SharesAre
<1>4. PICK a \in Nat : a = FirstOf(m, r, i)
  BY <1>1 DEF WellCut
<1>5. SizeOf(m, i) = s /\ Aligned(s)
  BY <1>1, <1>3 DEF SizeOf, WellCut
<1>6. Of(resident[r], "svh", i).out = OutCut(m, r, i) /\ Span(OutCut(m, r, i), StoredOut(m))
  <2>1. ~ByRow(m)
    BY DEF ByRow
  <2>2. Of(resident[r], "svh", i) = Piece("svh", m, r, i)
    BY <1>1 DEF Serves
  <2>3. Whole(m) = [in |-> <<0, StoredIn(m)>>, out |-> <<0, StoredOut(m)>>]
    BY DEF Whole
  <2> QED BY <1>1, <2>1, <2>2, <2>3, PieceIs
<1>7. OutCut(m, r, i) = Cut(StoredOut(m), a, a + s) /\ StoredOut(m) \in Nat
  BY <1>1, <1>4, <1>5, StoredIs DEF OutCut
<1>8. Wide(Cut(StoredOut(m), a, a + s)) = s
  <2>1. WantedOut(i) = s
    BY <1>3, <1>5, Padding DEF WantedOut
  <2> QED BY <1>2, <1>6, <1>7, <2>1 DEF Fitted, ShapesFit
<1>9. Cut(StoredOut(m), a, a + s)[1] = a /\ Cut(StoredOut(m), a, a + s)[2] = a + s
  BY <1>3, <1>7, <1>8, CutExact
<1> QED BY <1>3, <1>4, <1>5, <1>6, <1>7, <1>9 DEF Span

LEMMA FusedNotShared ==
    ASSUME SliceInv, Fitted, Serving, layer.kind \in {"merged", "qkv"}, NEW m \in Modules, Fuses(m)
    PROVE  Replicas = 1
<1>1. SUFFICES ASSUME Replicas # 1 PROVE FALSE
  OBVIOUS
<1>2. Fixed /\ layer.kind = "qkv" /\ layer.kvHeads < layer.tp
  BY <1>1 DEF SliceInv, Replicas
<1>3. PICK t \in Nat \ {0}, h \in Nat \ {0} : t = layer.tp /\ h = layer.kvHeads /\ h < t
  BY <1>2, LayerIs, OutIs
<1>4. PICK q \in Nat : q \in Rank /\ q = t - 1
  BY <1>3 DEF Rank
<1>5. PICK n \in Nat : Len(m) = n + 1 /\ n > 0 /\ DOMAIN m = 1 .. n + 1
  <2>1. Len(m) \in Nat /\ Len(m) > 1 /\ DOMAIN m = 1 .. Len(m)
    BY <1>2, ShardAt DEF Fuses
  <2>2. PICK l \in Nat : l = Len(m) /\ l > 1
    BY <2>1
  <2>3. l - 1 \in Nat /\ l = (l - 1) + 1 /\ l - 1 > 0
    BY <2>2
  <2> QED BY <2>1, <2>2, <2>3
<1>6. PICK i : i = m[n + 1] /\ i \in KeysOf(m) /\ i \in DOMAIN layer.out /\ At(m, i) = n + 1
  BY <1>2, <1>5, ShardAt
<1>7. Serves(m, q, i)
  <2>1. i \in Keys /\ state[q] = "served"
    BY <1>2, <1>4, <1>6 DEF Keys, Serving
  <2>2. PICK o \in Modules : Serves(o, q, i)
    BY <1>4, <2>1, ServedFrom
  <2>3. o = m
    BY <1>2, <1>6, <2>2, ModuleIs DEF Serves
  <2> QED BY <2>2, <2>3
<1>8. PICK s \in Nat \ {0}, a \in Nat : s = OutSize(i) /\ a = FirstOf(m, q, i) /\ a + s <= StoredOut(m)
  <2>1. ~Unsplit(m) /\ state[q] = "served"
    BY <1>4 DEF Unsplit, Serving
  <2> QED BY <1>2, <1>4, <1>7, <2>1, AskedIs
<1> DEFINE mine == [x \in 1 .. n |-> OutSize(m[x])]
           need == [x \in 1 .. n + 1 |-> t * OutSize(m[x])]
           base == [x \in 1 .. n |-> need[x]]
           real == [x \in DOMAIN m |-> layer.out[m[x]]]
<1>9. \A x \in 1 .. n + 1 : /\ OutSize(m[x]) \in Nat \ {0} /\ Aligned(OutSize(m[x]))
                            /\ t * OutSize(m[x]) \in Nat /\ layer.out[m[x]] \in Nat
                            /\ layer.out[m[x]] <= t * OutSize(m[x])
                            /\ m[x] > 1 => layer.out[m[x]] + HadBlock <= t * OutSize(m[x])
  <2> SUFFICES ASSUME NEW x \in 1 .. n + 1
               PROVE  /\ OutSize(m[x]) \in Nat \ {0} /\ Aligned(OutSize(m[x]))
                      /\ t * OutSize(m[x]) \in Nat /\ layer.out[m[x]] \in Nat
                      /\ layer.out[m[x]] <= t * OutSize(m[x])
                      /\ m[x] > 1 => layer.out[m[x]] + HadBlock <= t * OutSize(m[x])
    OBVIOUS
  <2>1. PICK y \in Nat : y = m[x] /\ y \in DOMAIN layer.out /\ y >= 1
    BY <1>2, <1>5, ShardAt, IndexIs
  <2>2. PICK w \in Nat \ {0} : w = OutSize(y)
    BY <1>2, <1>4, <2>1, SharesAre
  <2>3. Aligned(w)
    <3>1. i \in DOMAIN Taken("svh", m, q)
      BY <1>7 DEF Serves, Names
    <3>2. \A j \in DOMAIN m : Aligned(OutSize(m[j]))
      BY <1>2, <1>4, <3>1, TakenIs DEF Names
    <3> QED BY <1>5, <2>1, <2>2, <3>2
  <2>4. w >= HadBlock
    <3>1. PadDim(w) >= HadBlock /\ PadDim(w) = w
      BY <2>2, <2>3, Padding
    <3> QED BY <3>1
  <2>5. PICK g \in Nat \ {0} : g = Groups(y) /\ layer.out[y] = g * w
    BY <1>2, <1>4, <2>1, <2>2, SharesAre
  <2>6. g <= t /\ (y > 1 => g < t)
    BY <1>2, <1>3, <2>5, MinOfTwo DEF Groups
  <2>7. PICK d \in Nat : t = g + d
    BY <2>6, t - g \in Nat
  <2>8. t * w = g * w + d * w /\ d * w \in Nat /\ g * w \in Nat /\ t * w \in Nat
    BY <2>7
  <2>9. ASSUME y > 1 PROVE d * w >= HadBlock
    <3>1. PICK c \in Nat : d = 1 + c
      BY <2>6, <2>7, <2>9, d - 1 \in Nat
    <3>2. d * w = w + c * w /\ c * w \in Nat
      BY <3>1
    <3> QED BY <2>4, <3>2, Sizes
  <2>10. PICK dw \in Nat, gw \in Nat, tw \in Nat : dw = d * w /\ gw = g * w /\ tw = t * w
    BY <2>8
  <2>11. gw <= tw /\ (y > 1 => gw + HadBlock <= tw)
    BY <2>8, <2>9, <2>10, Sizes
  <2> QED BY <2>1, <2>2, <2>3, <2>5, <2>10, <2>11
<1>10. Total(need) = Total(base) + t * s /\ Total(need) \in Nat
  <2>1. \A x \in 1 .. n + 1 : need[x] \in Nat
    BY <1>9
  <2>2. DOMAIN need = 1 .. n + 1 /\ IsFiniteSet(1 .. n + 1)
    BY FS_Interval
  <2>3. need[n + 1] = t * s
    BY <1>6, <1>8
  <2> HIDE DEF need
  <2>4. Total(need) = Total(base) + need[n + 1]
    BY <2>1, <2>2, TotalOneMore
  <2> QED BY <2>1, <2>2, <2>3, <2>4, UnitsFinite
<1>11. Total(base) = t * Total(mine) /\ Total(mine) \in Nat
  <2>1. DOMAIN base = DOMAIN mine /\ IsFiniteSet(DOMAIN mine)
    BY FS_Interval
  <2>2. \A x \in DOMAIN mine : mine[x] \in Nat /\ base[x] = t * mine[x]
    BY <1>9
  <2> HIDE DEF base, mine
  <2> QED BY <2>1, <2>2, TotalTimes
<1>12. a + s = Total(need)
  <2>1. FirstOf(m, q, i) = t * Total(mine) + q * s
    <3>1. [x \in 1 .. (n + 1) - 1 |-> OutSize(m[x])] = mine
      BY (n + 1) - 1 = n
    <3>2. FirstOf(m, q, i) = FusedOffset(m, n + 1) + q * s
      BY <1>6, <1>8 DEF FirstOf, At
    <3>3. FusedOffset(m, n + 1) = t * Total([x \in 1 .. (n + 1) - 1 |-> OutSize(m[x])])
      BY <1>3 DEF FusedOffset
    <3> QED BY <3>1, <3>2, <3>3
  <2>2. q * s + s = t * s /\ q * s \in Nat
    BY <1>4
  <2> HIDE DEF mine, need, base
  <2>3. PICK u \in Nat, v \in Nat, z \in Nat : u = t * Total(mine) /\ v = q * s /\ z = t * s
    BY <1>11
  <2> QED BY <1>8, <1>10, <1>11, <2>1, <2>2, <2>3
<1>13. PICK x \in 1 .. n + 1 : m[x] > 1
  <2>1. 1 \in DOMAIN m /\ 2 \in DOMAIN m
    BY <1>5
  <2>2. m[1] # m[2]
    BY <1>2, <2>1, ShardAt
  <2>3. m[1] \in Nat /\ m[1] >= 1 /\ m[2] \in Nat /\ m[2] >= 1
    BY <1>2, <2>1, ShardAt, IndexIs
  <2> QED BY <1>5, <2>1, <2>2, <2>3
<1>14. Total(real) + HadBlock <= Total(need) /\ Total(real) \in Nat
  <2>1. DOMAIN real = 1 .. n + 1 /\ DOMAIN need = 1 .. n + 1 /\ IsFiniteSet(1 .. n + 1) /\ HadBlock \in Nat
    BY <1>5, FS_Interval, Sizes
  <2>2. \A y \in 1 .. n + 1 : need[y] \in Nat /\ real[y] \in Nat /\ real[y] <= need[y]
    BY <1>5, <1>9
  <2>3. real[x] + HadBlock <= need[x]
    BY <1>5, <1>9, <1>13
  <2> HIDE DEF need, real
  <2> QED BY <2>1, <2>2, <2>3, TotalMore
<1>15. StoredOut(m) = Narrower(PadDim(Total(real)))
  BY <1>2 DEF StoredOut
<1> HIDE DEF mine, need, base, real
<1>16. PadDim(Total(real)) \in Nat /\ PadDim(Total(real)) < Total(real) + HadBlock
  BY <1>14, Padding
<1>17. StoredOut(m) <= PadDim(Total(real))
  BY <1>15, <1>16, Sizes DEF Narrower
<1>18. StoredOut(m) \in Nat /\ HadBlock \in Nat
  BY <1>2, StoredIs, Sizes
<1> QED BY <1>8, <1>10, <1>12, <1>14, <1>16, <1>17, <1>18

\* The outputs a rank returns are those of the channels that are its own.
LEMMA OutputsAre ==
    ASSUME SliceInv, Fitted, Serving, layer.kind \notin {"head", "moe"},
           NEW r \in Rank, NEW i \in DOMAIN layer.out
    PROVE  LET span == Trim(r, i)
           IN  span[1] .. span[2] - 1 = {Before(i) + c : c \in Owned(r, i)}
<1>1. Fixed /\ state[r] = "served" /\ "svh" \in Names /\ Keys = DOMAIN layer.out
  BY DEF SliceInv, Serving, Names, Keys
<1>2. PICK m \in Modules : Serves(m, r, i) /\ i \in KeysOf(m) /\ WellCut(m, r, i)
  BY <1>1, ServedFrom DEF Serves
<1>3. PICK s \in Nat \ {0}, k \in Nat, b \in Nat : s = OutSize(i) /\ k = Kept(r, i) /\ b = k * s
  BY <1>1, SharesAre
<1>4. Owned(r, i) = b .. b + s - 1
  BY <1>1, <1>3, OwnedIs
<1> DEFINE svh == Of(resident[r], "svh", i).out
<1>5. Of(resident[r], "svh", i) = Piece("svh", m, r, i) /\ Wide(svh) = WantedOut(i)
  BY <1>1, <1>2 DEF Serves, Fitted, ShapesFit
<1>6. WantedOut(i) \in Nat /\ s <= WantedOut(i)
  BY <1>3, Padding DEF WantedOut
<1>7. \E f \in Nat, e \in Nat, p \in Int :
         svh[1] = f /\ svh[2] = e /\ f + s <= e /\ p = Before(i) /\ f = p + b
  <2>1. CASE Unsplit(m) \/ layer.kind = "row"
    <3>1. svh = <<0, StoredOut(m)>>
      <4>1. Whole(m) = [in |-> <<0, StoredIn(m)>>, out |-> <<0, StoredOut(m)>>]
        BY DEF Whole
      <4>2. Piece("svh", m, r, i) = Whole(m) \/ Piece("svh", m, r, i) = [Whole(m) EXCEPT !.in = InCut(m, r, i)]
        <5>1. CASE Unsplit(m)
          BY <5>1 DEF Piece
        <5>2. CASE ~Unsplit(m)
          <6>1. ByRow(m)
            BY <2>1, <5>2 DEF ByRow
          <6> QED BY <1>1, <1>2, <5>2, <6>1, PieceIs
        <5> QED BY <5>1, <5>2
      <4> QED BY <1>5, <4>1, <4>2
    <3>2. StoredOut(m) \in Nat /\ s <= StoredOut(m)
      <4>1. StoredOut(m) \in Nat
        BY <1>1, StoredIs
      <4> QED BY <1>5, <1>6, <3>1, <4>1 DEF Wide
    <3>3. Len(m) = 1
      <4>1. Len(m) \in Nat \ {0}
        BY <1>1, ShardAt
      <4>2. layer.kind = "row" => m = <<1>>
        BY <1>1, ModuleIs
      <4>3. layer.kind = "column" => m = <<1>>
        BY <1>1, ModuleIs
      <4>4. layer.kind \in {"column", "row", "merged", "qkv"}
        BY <1>1, LayerIs
      <4>5. CASE layer.kind \in {"column", "row"}
        BY <4>2, <4>3, <4>5
      <4>6. CASE layer.kind \in {"merged", "qkv"}
        <5>1. ~(Len(m) > 1)
          BY <2>1, <4>6 DEF Unsplit, Fuses
        <5>2. PICK l \in Nat \ {0} : l = Len(m)
          BY <4>1
        <5> QED BY <5>1, <5>2
      <4> QED BY <4>4, <4>5, <4>6
    <3>4. Before(i) = 0
      BY <1>1, <1>2, <3>3, BeforeIs
    <3>5. b = 0
      <4>1. k = 0
        <5>1. CASE layer.kind = "row"
          BY <1>3, <5>1 DEF Kept
        <5>2. CASE layer.kind # "row"
          <6>1. layer.tp = 1
            BY <2>1, <5>2 DEF Unsplit
          <6>2. r = 0
            BY <6>1 DEF Rank
          <6>3. Kept(r, i) \in 0 .. 1 - 1
            <7>1. layer.kind = "qkv" => layer.kvHeads \in Nat \ {0}
              BY <1>1, LayerIs, OutIs
            <7>2. Groups(i) = 1
              BY <5>2, <6>1, <7>1, MinOfTwo DEF Groups
            <7> QED BY <1>1, <7>2, SharesAre
          <6> QED BY <1>3, <6>3
        <5> QED BY <5>1, <5>2
      <4> QED BY <1>3, <4>1
    <3> HIDE DEF svh
    <3> QED BY <3>1, <3>2, <3>4, <3>5
  <2>2. CASE ~Unsplit(m) /\ layer.kind # "row"
    <3>1. PICK f \in Nat : f = FirstOf(m, r, i) /\ svh[1] = f /\ svh[2] = f + s
      BY <1>1, <1>2, <1>3, <2>2, AskedIs
    <3>2. CASE Fuses(m)
      <4>1. Replicas = 1
        BY <1>1, <3>2, FusedNotShared DEF Fuses
      <4>2. Before(i) = FusedOffset(m, At(m, i))
        BY <1>1, <1>2, <2>2, <4>1, BeforeIs
      <4>3. k = r /\ r \in Nat
        <5>1. r \div 1 = r /\ r \in Nat
          BY <1>1, ReplicasAre
        <5> QED BY <1>3, <2>2, <4>1, <5>1 DEF Kept, IndexOf, KvIndex
      <4>4. f = Before(i) + b
        BY <1>3, <3>1, <3>2, <4>2, <4>3 DEF FirstOf, At
      <4>5. Before(i) \in Int
        <5>1. /\ At(m, i) \in 1 .. Len(m) /\ Len(m) \in Nat
              /\ \A x \in DOMAIN m : m[x] \in DOMAIN layer.out
              /\ DOMAIN m = 1 .. Len(m)
          BY <1>1, <1>2, ShardAt
        <5> DEFINE mine == [x \in 1 .. At(m, i) - 1 |-> OutSize(m[x])]
        <5>2. \A x \in DOMAIN mine : mine[x] \in Nat
          BY <1>1, <5>1, WidthsAre
        <5>3. IsFiniteSet(DOMAIN mine)
          BY <5>1, FS_Interval
        <5>4. FusedOffset(m, At(m, i)) = layer.tp * Total(mine)
          BY DEF FusedOffset
        <5> HIDE DEF mine
        <5>5. Total(mine) \in Nat
          BY <5>2, <5>3, UnitsFinite
        <5>6. layer.tp \in Nat
          BY <1>1, LayerIs
        <5> QED BY <4>2, <5>4, <5>5, <5>6
      <4> HIDE DEF svh
      <4> QED BY <3>1, <4>4, <4>5
    <3>3. CASE ~Fuses(m)
      <4>1. Before(i) = 0
        <5>1. Len(m) \in Nat \ {0}
          BY <1>1, ShardAt
        <5>2. layer.kind = "column" => m = <<1>>
          BY <1>1, ModuleIs
        <5>3. layer.kind \in {"column", "merged", "qkv"}
          BY <1>1, <2>2, LayerIs
        <5>4. Len(m) = 1
          BY <3>3, <5>1, <5>2, <5>3 DEF Fuses
        <5> QED BY <1>1, <1>2, <5>4, BeforeIs
      <4>2. f = b
        BY <1>3, <2>2, <3>1, <3>3 DEF FirstOf, SizeOf, Kept
      <4> HIDE DEF svh
      <4> QED BY <3>1, <4>1, <4>2
    <3> QED BY <3>2, <3>3
  <2> QED BY <2>1, <2>2
<1>8. PICK f \in Nat, e \in Nat, p \in Int :
         svh[1] = f /\ svh[2] = e /\ f + s <= e /\ p = Before(i) /\ f = p + b
  BY <1>7
<1>9. Trim(r, i) = <<f, f + s>>
  <2>1. Trim(r, i) = <<f, Min({e, f + s})>>
    BY <1>3, <1>8 DEF Trim
  <2> QED BY <1>8, <2>1, MinOfTwo
<1>10. {p + c : c \in b .. b + s - 1} = f .. f + s - 1
  <2>1. \A z \in f .. f + s - 1 : z - p \in b .. b + s - 1 /\ z = p + (z - p)
    BY <1>8
  <2>2. \A c \in b .. b + s - 1 : p + c \in f .. f + s - 1
    BY <1>8
  <2> QED BY <2>1, <2>2
<1>11. Trim(r, i)[1] = f /\ Trim(r, i)[2] = f + s
  BY <1>9
<1>12. {Before(i) + c : c \in Owned(r, i)} = {p + c : c \in b .. b + s - 1}
  BY <1>4, <1>8
<1> QED BY <1>10, <1>11, <1>12

\* And it reads the input channels it is given.
LEMMA InputsAre ==
    ASSUME SliceInv, Fitted, Serving, layer.kind \notin {"head", "moe"},
           NEW r \in Rank, NEW i \in DOMAIN layer.out
    PROVE  LET rows == Of(resident[r], "suh", i).in
           IN  /\ rows[1] = IF layer.kind = "row" THEN r * InSize ELSE 0
               /\ Wide(rows) >= InSize
<1>1. Fixed /\ state[r] = "served" /\ "suh" \in Names /\ Keys = DOMAIN layer.out
  BY DEF SliceInv, Serving, Names, Keys
<1>2. PICK m \in Modules : Serves(m, r, i) /\ i \in KeysOf(m) /\ WellCut(m, r, i)
  BY <1>1, ServedFrom DEF Serves
<1> DEFINE rows == Of(resident[r], "suh", i).in
<1>3. Of(resident[r], "suh", i) = Piece("suh", m, r, i) /\ Wide(rows) = WantedIn
  BY <1>1, <1>2 DEF Serves, Fitted, ShapesFit
<1>4. InSize \in Nat /\ WantedIn \in Nat /\ InSize <= WantedIn
  <2>1. InSize \in Nat
    BY <1>1, WidthsAre
  <2> QED BY <2>1, Padding DEF WantedIn
<1>5. Whole(m) = [in |-> <<0, StoredIn(m)>>, out |-> <<0, StoredOut(m)>>]
  BY DEF Whole
<1>6. rows[1] = IF layer.kind = "row" THEN r * InSize ELSE 0
  <2>1. CASE Unsplit(m)
    <3>1. rows[1] = 0
      BY <1>3, <1>5, <2>1 DEF Piece
    <3>2. r = 0
      BY <2>1 DEF Unsplit, Rank
    <3>3. r * InSize = 0
      BY <1>4, <3>2
    <3> HIDE DEF rows
    <3> QED BY <3>1, <3>3
  <2>2. CASE ~Unsplit(m) /\ layer.kind # "row"
    <3>1. ~ByRow(m)
      BY <2>2 DEF ByRow
    <3> QED BY <1>1, <1>2, <1>3, <1>5, <2>2, <3>1, PieceIs
  <2>3. CASE ~Unsplit(m) /\ layer.kind = "row"
    <3>1. ByRow(m) /\ ~Fuses(m)
      BY <2>3 DEF ByRow, Fuses
    <3>2. rows = InCut(m, r, i)
      BY <1>1, <1>2, <1>3, <1>5, <2>3, <3>1, PieceIs
    <3>3. PICK s \in Nat : s = InSize
      BY <1>4
    <3>4. PICK a \in Nat : a = r * s
      BY <1>1, ReplicasAre
    <3>5. SizeOf(m, i) = s /\ FirstOf(m, r, i) = a
      BY <2>3, <3>1, <3>3, <3>4 DEF SizeOf, FirstOf, IndexOf
    <3>6. rows = Cut(StoredIn(m), a, a + s) /\ StoredIn(m) \in Nat
      BY <1>1, <3>2, <3>5, StoredIs DEF InCut
    <3>7. s > 0
      <4>1. PICK n \in Nat \ {0}, t \in Nat \ {0} : n = layer.in /\ t = layer.tp
        BY <1>1, LayerIs
      <4>2. n % t = 0
        BY <1>1, <2>3, <4>1, OutIs
      <4>3. s = n \div t
        BY <2>3, <3>3, <4>1 DEF InSize
      <4> QED BY <4>2, <4>3, EvenShare
    <3>8. WantedIn = s
      BY <1>2, <2>3, <3>3, <3>5, Padding DEF WantedIn, WellCut
    <3> HIDE DEF rows
    <3>9. Wide(Cut(StoredIn(m), a, a + s)) = s
      BY <1>3, <3>6, <3>8
    <3>10. Cut(StoredIn(m), a, a + s)[1] = a
      BY <3>6, <3>7, <3>9, CutExact
    <3> QED BY <2>3, <3>3, <3>4, <3>6, <3>10
  <2> QED BY <2>1, <2>2, <2>3
<1> QED BY <1>3, <1>4, <1>6

LEMMA LinearHold == SliceInv /\ Fitted => LinearChannels
<1> SUFFICES ASSUME SliceInv, Fitted, Serving, layer.kind \notin {"head", "moe"},
                    NEW r \in Rank, NEW i \in DOMAIN layer.out
             PROVE  LET span == Trim(r, i)
                        rows == Of(resident[r], "suh", i).in
                    IN  /\ span[1] .. span[2] - 1 = {Before(i) + c : c \in Owned(r, i)}
                        /\ rows[1] = IF layer.kind = "row" THEN r * InSize ELSE 0
                        /\ Wide(rows) >= InSize
  BY DEF LinearChannels
<1> QED BY OutputsAre, InputsAre

\* However a layer is split, fused, padded or replicated over any number of
\* ranks, and in whatever order its tensors come: once every rank serves it,
\* each returns the outputs that vLLM's partition makes its own, all of them
\* and nothing of the padding, and the head's ranks the rows of the real
\* vocabulary.  The checks of process_weights_after_loading make a slice the
\* one that was asked for, and refuse a fused tensor whose heads are shared.
THEOREM RanksAlwaysPartition == Spec => []RanksPartition
<1>1. SliceInv /\ Fitted => RanksPartition
  BY LinearHold, HeadRowsHold DEF RanksPartition
<1> QED BY <1>1, SliceInvAlways, FittedAlways, PTL

(***************************************************************************)
(* What cuts exactly is served.                                             *)
(***************************************************************************)
LEMMA BlocksSplit ==
    ASSUME NEW n \in Nat, NEW t \in Nat \ {0}, n % (t * HadBlock) = 0
    PROVE  /\ n % t = 0 /\ n \div t \in Nat /\ n = t * (n \div t)
           /\ Aligned(n \div t) /\ Aligned(n)
<1>1. PICK h \in Nat \ {0} : h = HadBlock
  BY Sizes
<1>2. PICK d \in Nat \ {0} : d = t * h
  OBVIOUS
<1>3. n % d = 0
  BY <1>1, <1>2
<1>4. PICK q \in Nat : q = n \div d
  BY Quotient, n \in Int, n >= 0
<1>5. n = d * q
  BY <1>3, <1>4, Quotient, n \in Int
<1>6. PICK s \in Nat : s = h * q
  OBVIOUS
<1>7. n = t * s
  BY <1>2, <1>5, <1>6
<1>8. (t * s) \div t = s /\ (t * s) % t = 0
  BY MultipleDiv, s \in Int
<1>9. Aligned(s)
  BY <1>1, <1>6, AlignedIs, s \in Int, q \in Int
<1>10. Aligned(t * s)
  BY <1>9, AlignedTimes, s \in Int, t \in Int
<1> QED BY <1>7, <1>8, <1>9, <1>10

\* Every part of a layer that splits exactly is whole blocks.
LEMMA SharesWhole ==
    ASSUME Fixed, Exact, layer.tp # 1, layer.kind \notin {"row", "moe"}, NEW i \in DOMAIN layer.out
    PROVE  Aligned(OutSize(i))
<1>1. PICK t \in Nat \ {0} : t = layer.tp
  BY LayerIs
<1>2. PICK n \in Nat : n = layer.out[i]
  BY WidthsAre
<1>3. CASE layer.kind = "head"
  <2>1. i = 1
    BY <1>3, OutIs, LayerIs
  <2>2. PICK p \in Nat : p = Padded
    BY <1>2, <2>1, RoundedUp, Sizes DEF Padded
  <2>3. p % (t * HadBlock) = 0
    BY <1>1, <1>3, <2>2 DEF Exact
  <2>4. OutSize(i) = p \div t
    BY <1>1, <1>3, <2>1, <2>2 DEF OutSize
  <2> QED BY <2>3, <2>4, BlocksSplit
<1>4. CASE layer.kind \in {"column", "merged"} \/ (layer.kind = "qkv" /\ i = 1)
  <2>1. n % (t * HadBlock) = 0
    BY <1>1, <1>2, <1>4 DEF Exact
  <2>2. OutSize(i) = n \div t
    BY <1>1, <1>2, <1>4 DEF OutSize
  <2> QED BY <2>1, <2>2, BlocksSplit
<1>5. CASE layer.kind = "qkv" /\ i # 1
  <2>1. i \in {2, 3}
    BY <1>5, OutIs, LayerIs
  <2>2. Aligned(n \div Groups(i))
    BY <1>1, <1>2, <1>5, <2>1 DEF Exact, Groups
  <2>3. PICK r \in Rank : r = 0
    BY <1>1 DEF Rank
  <2>4. PICK s \in Nat \ {0}, g \in Nat \ {0} : s = OutSize(i) /\ g = Groups(i) /\ n = g * s
    BY <1>2, <1>5, <2>3, SharesAre
  <2>5. n \div g = s
    BY <2>4, MultipleDiv, s \in Int
  <2> QED BY <2>2, <2>4, <2>5
<1> QED BY <1>3, <1>4, <1>5, LayerIs

LEMMA ValidExact ==
    ASSUME Fixed, Exact
    PROVE  ValidTp
<1>1. PICK t \in Nat \ {0} : t = layer.tp
  BY LayerIs
<1>2. CASE t = 1
  BY <1>1, <1>2, LayerIs DEF ValidTp, ValidHead, CheckSplit
<1>3. CASE t # 1
  <2>1. ASSUME NEW i \in DOMAIN layer.out, layer.kind \notin {"row", "moe"}
        PROVE  CheckSplit(OutSize(i) * layer.tp)
    <3>1. PICK s \in Nat : s = OutSize(i) /\ Aligned(s)
      BY <1>1, <1>3, <2>1, WidthsAre, SharesWhole
    <3>2. s * t = t * s
      OBVIOUS
    <3>3. (s * t) % t = 0 /\ (s * t) \div t = s
      BY <3>2, MultipleDiv, s \in Int
    <3> QED BY <1>1, <3>1, <3>3 DEF CheckSplit, Divides
  <2>2. CASE layer.kind = "row"
    <3>1. PICK n \in Nat : n = layer.in
      BY LayerIs
    <3>2. n % (t * HadBlock) = 0
      BY <1>1, <1>3, <2>2, <3>1 DEF Exact
    <3>3. CheckSplit(layer.in)
      BY <1>1, <3>1, <3>2, BlocksSplit DEF CheckSplit, Divides
    <3> QED BY <2>2, <3>3 DEF ValidTp
  <2>3. CASE layer.kind = "head"
    <3>1. 1 \in DOMAIN layer.out
      BY <2>3, LayerIs, OutIs
    <3> QED BY <2>1, <2>3, <3>1 DEF ValidTp, ValidHead
  <2> QED BY <2>1, <2>2, <2>3, LayerIs DEF ValidTp
<1> QED BY <1>2, <1>3

\* Nothing of it is refused while it is loaded.
LEMMA TakenWhole ==
    ASSUME Fixed, Exact, Cuttable, Sound, NEW name \in Names, NEW m \in Modules, NEW r
    PROVE  /\ DOMAIN Taken(name, m, r) = KeysOf(m) /\ Taken(name, m, r) # Refused
           /\ Fuses(m) => Replicas = 1 /\ \A j \in DOMAIN m : Aligned(OutSize(m[j]))
           /\ layer.kind = "moe" => CheckSplit(Intermediate(m))
<1>1. Fuses(m) => Replicas = 1 /\ \A i \in ToSet(m) : Aligned(OutSize(i))
  BY DEF Cuttable, Fuses
<1>2. \A j \in DOMAIN m : m[j] \in ToSet(m)
  BY DEF ToSet
<1>3. layer.kind = "moe" => CheckSplit(Intermediate(m))
  <2>1. SUFFICES ASSUME layer.kind = "moe" PROVE CheckSplit(Intermediate(m))
    OBVIOUS
  <2>2. PICK t \in Nat \ {0} : t = layer.tp
    BY LayerIs
  <2>3. PICK w \in Nat : w = PadDim(layer.out[1])
    BY <2>1, LayerIs, OutIs, Padding
  <2>4. Intermediate(m) = w
    BY <2>1, <2>3 DEF Intermediate, StoredIn, StoredOut
  <2>5. t = 1 \/ w % (t * HadBlock) = 0
    BY <2>1, <2>2, <2>3 DEF Exact
  <2> QED BY <2>2, <2>4, <2>5, BlocksSplit DEF CheckSplit, Divides
<1>4. KeysOf(m) # {}
  <2>1. CASE layer.kind = "moe"
    BY <2>1 DEF KeysOf
  <2>2. CASE layer.kind # "moe"
    BY <2>2, ShardAt
  <2> QED BY <2>1, <2>2
<1>5. DOMAIN Taken(name, m, r) = KeysOf(m)
  <2>1. CASE layer.kind \in {"column", "head", "row"}
    <3>1. KeysOf(m) = {1}
      <4>1. m = <<1>>
        BY <2>1, ModuleIs
      <4>2. ToSet(<<1>>) = {1}
        BY DEF ToSet
      <4> QED BY <2>1, <4>1, <4>2 DEF KeysOf
    <3>2. layer.kind = "row" => Taken(name, m, r) = [i \in {1} |-> TakeRow(name, m, InSize, r)]
      BY DEF Taken
    <3>3. layer.kind \in {"column", "head"} => Taken(name, m, r) = [i \in {1} |-> TakeColumn(name, m, OutSize(1), r)]
      BY DEF Taken
    <3> QED BY <2>1, <3>1, <3>2, <3>3
  <2>2. CASE layer.kind \in {"merged", "qkv"}
    <3>1. KeysOf(m) = ToSet(m)
      BY <2>2 DEF KeysOf
    <3>2. Taken(name, m, r) = LoadMerged(name, m, r) \/ Taken(name, m, r) = LoadQkv(name, m, r)
      BY <2>2 DEF Taken
    <3>3. CASE Len(m) > 1
      <4>1. Taken(name, m, r) = Fused(name, m, r)
        BY <3>2, <3>3 DEF LoadMerged, LoadQkv
      <4>2. ~\E j \in DOMAIN m : ~Aligned(OutSize(m[j]))
        BY <1>1, <1>2, <2>2, <3>3 DEF Fuses
      <4>3. DOMAIN Fused(name, m, r) = ToSet(m)
        BY <4>2 DEF Fused
      <4> QED BY <3>1, <4>1, <4>3
    <3>4. CASE ~(Len(m) > 1)
      <4>1. DOMAIN LoadMerged(name, m, r) = ToSet(m)
        BY <3>4 DEF LoadMerged
      <4>2. DOMAIN LoadQkv(name, m, r) = ToSet(m)
        BY <3>4 DEF LoadQkv
      <4> QED BY <3>1, <3>2, <4>1, <4>2
    <3> QED BY <3>3, <3>4
  <2>3. CASE layer.kind = "moe"
    <3>1. Taken(name, m, r) = LoadExpert(name, m, r)
      BY <2>3 DEF Taken
    <3>2. DOMAIN LoadExpert(name, m, r) = {m}
      BY <1>3, <2>3 DEF LoadExpert
    <3> QED BY <2>3, <3>1, <3>2 DEF KeysOf
  <2> QED BY <2>1, <2>2, <2>3, LayerIs
<1>6. DOMAIN Refused = {}
  BY DEF Refused
<1> QED BY <1>1, <1>2, <1>3, <1>4, <1>5, <1>6

LEMMA KeysCovered ==
    ASSUME Fixed, NEW i \in Keys
    PROVE  \E m \in Modules : i \in KeysOf(m)
<1>1. CASE layer.kind = "moe"
  BY <1>1 DEF Keys, KeysOf
<1>2. CASE layer.kind # "moe"
  <2>1. UNION {ToSet(m) : m \in ToSet(layer.stored)} = DOMAIN layer.out
    BY <1>2, ShardAssumption DEF Fixed
  <2> QED BY <1>2, <2>1 DEF Keys, KeysOf, Modules
<1> QED BY <1>1, <1>2

LEMMA CutFull ==
    ASSUME NEW n \in Nat, NEW a \in Nat, NEW s \in Nat, a + s <= n
    PROVE  Wide(Cut(n, a, a + s)) = s
<1>1. a + s \in Nat /\ a <= a + s /\ a <= n
  OBVIOUS
<1>2. Cut(n, a, a + s)[1] = a /\ Cut(n, a, a + s)[2] = a + s
  BY <1>1, CutIs
<1> QED BY <1>2 DEF Wide

\* The part before an end is within the whole.
LEMMA PartWithin ==
    ASSUME NEW q \in Nat, NEW t \in Nat \ {0}, NEW k \in 0 .. t - 1
    PROVE  k * q \in Nat /\ t * q \in Nat /\ k * q + q <= t * q
<1>1. PICK e \in Nat : t = k + 1 + e
  BY t - k - 1 \in Nat
<1>2. PICK a \in Nat, b \in Nat : a = k * q /\ b = e * q
  OBVIOUS
<1>3. t * q = a + q + b
  BY <1>1, <1>2
<1> QED BY <1>2, <1>3

LEMMA AsWide ==
    ASSUME NEW m
    PROVE  Whole(m).in = <<0, StoredIn(m)>> /\ Whole(m).out = <<0, StoredOut(m)>>
BY DEF Whole

LEMMA InFits ==
    ASSUME Fixed, Exact, layer.kind # "moe", NEW m \in Modules, NEW r \in Rank, NEW i \in KeysOf(m),
           WellCut(m, r, i)
    PROVE  Wide(Piece("trellis", m, r, i).in) = WantedIn
<1>1. PICK n \in Nat \ {0}, t \in Nat \ {0} : n = layer.in /\ t = layer.tp
  BY LayerIs
<1>2. PICK w \in Nat : w = StoredIn(m) /\ w = PadDim(n)
  BY <1>1, StoredIs DEF StoredIn
<1>3. CASE Unsplit(m) \/ layer.kind # "row"
  <2>1. Piece("trellis", m, r, i).in = <<0, w>>
    <3>1. Whole(m).in = <<0, w>>
      BY <1>2, AsWide
    <3>2. Unsplit(m) \/ ~ByRow(m)
      BY <1>3 DEF ByRow
    <3>3. Piece("trellis", m, r, i) = Whole(m) \/ Piece("trellis", m, r, i) = [Whole(m) EXCEPT !.out = OutCut(m, r, i)]
      <4>1. CASE Unsplit(m)
        BY <4>1 DEF Piece
      <4>2. CASE ~Unsplit(m)
        BY <3>2, <4>2, PieceIs
      <4> QED BY <4>1, <4>2
    <3>4. [Whole(m) EXCEPT !.out = OutCut(m, r, i)].in = Whole(m).in
      BY DEF Whole
    <3> QED BY <3>1, <3>3, <3>4
  <2>2. InSize = n
    <3>1. layer.kind = "row" => t = 1
      BY <1>1, <1>3 DEF Unsplit
    <3> QED BY <1>1, <3>1 DEF InSize
  <2> QED BY <1>2, <2>1, <2>2 DEF Wide, WantedIn
<1>4. CASE ~Unsplit(m) /\ layer.kind = "row"
  <2>1. ByRow(m) /\ ~Fuses(m) /\ t # 1
    BY <1>1, <1>4 DEF ByRow, Fuses, Unsplit
  <2>2. n % (t * HadBlock) = 0
    BY <1>1, <1>4, <2>1 DEF Exact
  <2>3. PICK s \in Nat : s = n \div t /\ n = t * s /\ Aligned(s)
    BY <2>2, BlocksSplit
  <2>4. InSize = s /\ SizeOf(m, i) = s
    BY <1>1, <1>4, <2>3 DEF InSize, SizeOf
  <2>5. PICK a \in Nat : a = r * s /\ a + s <= n
    <3>1. r \in 0 .. t - 1
      BY <1>1 DEF Rank
    <3> QED BY <2>3, <3>1, PartWithin
  <2>6. FirstOf(m, r, i) = a
    BY <1>4, <2>1, <2>4, <2>5 DEF FirstOf, IndexOf
  <2>7. Piece("trellis", m, r, i).in = Cut(w, a, a + s)
    <3>1. Piece("trellis", m, r, i).in = InCut(m, r, i)
      <4>1. Piece("trellis", m, r, i) = [Whole(m) EXCEPT !.in = InCut(m, r, i)]
        BY <1>4, <2>1, PieceIs
      <4>2. [Whole(m) EXCEPT !.in = InCut(m, r, i)].in = InCut(m, r, i)
        BY DEF Whole
      <4> QED BY <4>1, <4>2
    <3> QED BY <1>2, <2>4, <2>6, <3>1 DEF InCut
  <2>8. n <= w
    BY <1>2, Padding
  <2>9. WantedIn = s
    BY <2>3, <2>4, Padding DEF WantedIn
  <2> QED BY <2>5, <2>7, <2>8, <2>9, CutFull
<1> QED BY <1>3, <1>4

\* One shard stored by itself.
LEMMA StoredAlone ==
    ASSUME Fixed, layer.kind # "moe", ~ck.narrow, NEW m \in Modules, ~Fuses(m), NEW i \in KeysOf(m)
    PROVE  StoredOut(m) = PadDim(layer.out[i])
<1>1. m \in Seq(Nat) /\ Len(m) \in Nat \ {0} /\ DOMAIN m = 1 .. Len(m)
      /\ At(m, i) \in DOMAIN m /\ m[At(m, i)] = i /\ i \in DOMAIN layer.out
  BY ShardAt
<1>2. Len(m) = 1
  <2>1. layer.kind \in {"column", "row", "head"} => m = <<1>>
    BY ModuleIs
  <2>2. layer.kind \in {"merged", "qkv"} => ~(Len(m) > 1)
    BY DEF Fuses
  <2>3. PICK l \in Nat \ {0} : l = Len(m)
    BY <1>1
  <2> QED BY <2>1, <2>2, <2>3, LayerIs
<1>3. m[1] = i /\ DOMAIN m = 1 .. 1
  BY <1>1, <1>2
<1> DEFINE f == [j \in DOMAIN m |-> layer.out[m[j]]]
<1>4. layer.out[i] \in Nat
  BY <1>1, WidthsAre
<1>5. DOMAIN f = 1 .. 0 + 1 /\ f[0 + 1] = layer.out[i] /\ \A x \in 1 .. 0 + 1 : f[x] = layer.out[i]
  <2>1. 0 + 1 = 1 /\ \A x \in 1 .. 1 : x = 1
    OBVIOUS
  <2> QED BY <1>3, <2>1
<1> DEFINE none == [x \in 1 .. 0 |-> f[x]]
<1>6. StoredOut(m) = PadDim(Total(f))
  BY DEF StoredOut, Narrower
<1> HIDE DEF f
<1>7. Total(f) = Total(none) + f[0 + 1]
  BY <1>4, <1>5, TotalOneMore, 0 \in Nat
<1>8. Total(none) = 0
  <2>1. Units(none) = {} /\ Total(none) = Cardinality(Units(none))
    BY DEF Units, Total
  <2> QED BY <2>1, FS_EmptySet
<1> QED BY <1>4, <1>5, <1>6, <1>7, <1>8

\* A prefix of a sum with the part after it is within the sum.
LEMMA PrefixWithin ==
    ASSUME NEW n \in Nat, NEW f, DOMAIN f = 1 .. n, \A x \in 1 .. n : f[x] \in Nat, NEW j \in 1 .. n
    PROVE  /\ Total([x \in 1 .. j - 1 |-> f[x]]) \in Nat /\ Total(f) \in Nat
           /\ Total([x \in 1 .. j - 1 |-> f[x]]) + f[j] <= Total(f)
<1>1. PICK k \in Nat : j = k + 1
  BY j - 1 \in Nat
<1> DEFINE g == [x \in 1 .. k + 1 |-> f[x]]
           before == [x \in 1 .. k |-> g[x]]
<1>2. DOMAIN g = 1 .. k + 1 /\ \A x \in 1 .. k + 1 : g[x] = f[x] /\ f[x] \in Nat
  BY <1>1
<1>3. before = [x \in 1 .. j - 1 |-> f[x]]
  BY <1>1
<1>4. g[k + 1] = f[j]
  BY <1>1
<1>5. IsFiniteSet(DOMAIN f) /\ IsFiniteSet(DOMAIN g) /\ IsFiniteSet(DOMAIN before)
  BY <1>1, FS_Interval
<1>6. DOMAIN before = 1 .. k /\ \A x \in 1 .. k : before[x] \in Nat
  BY <1>2
<1> HIDE DEF g
<1>7. Total(g) = Total(before) + g[k + 1]
  BY <1>2, TotalOneMore
<1> HIDE DEF before
<1>8. /\ IsFiniteSet(Units(f)) /\ Total(f) = Cardinality(Units(f)) /\ Total(f) \in Nat
      /\ Total(g) = Cardinality(Units(g)) /\ Total(before) \in Nat
  BY <1>2, <1>5, <1>6, UnitsFinite
<1>9. Units(g) \in SUBSET Units(f)
  <2>1. \A x \in DOMAIN g : x \in DOMAIN f /\ g[x] = f[x]
    BY <1>1, <1>2
  <2> QED BY <2>1, UnitsAre
<1>10. Cardinality(Units(g)) <= Cardinality(Units(f))
  BY <1>8, <1>9, FS_Subset
<1> QED BY <1>3, <1>4, <1>7, <1>8, <1>10

\* Without replicated heads, a shard's ranks make up the whole of it.
LEMMA AllGroups ==
    ASSUME Fixed, layer.kind \in {"merged", "qkv"}, Replicas = 1, NEW i \in DOMAIN layer.out
    PROVE  OutSize(i) \in Nat /\ layer.out[i] = layer.tp * OutSize(i)
<1>1. PICK t \in Nat \ {0} : t = layer.tp
  BY LayerIs
<1>2. PICK r \in Rank : r = 0
  BY <1>1 DEF Rank
<1>3. Groups(i) = t
  <2>1. layer.kind = "qkv" => layer.kvHeads >= layer.tp /\ layer.kvHeads \in Nat \ {0}
    BY <1>1, SharedHeads, LayerIs, OutIs
  <2>2. layer.kind = "qkv" => Min({layer.kvHeads, layer.tp}) = t
    BY <1>1, <2>1, MinOfTwo
  <2> QED BY <1>1, <2>2 DEF Groups
<1> QED BY <1>1, <1>2, <1>3, SharesAre

LEMMA FusedEnds ==
    ASSUME Fixed, ~ck.narrow, NEW m \in Modules, Fuses(m), Replicas = 1,
           NEW r \in Rank, NEW i \in KeysOf(m)
    PROVE  /\ FirstOf(m, r, i) \in Nat /\ OutSize(i) \in Nat
           /\ FirstOf(m, r, i) + OutSize(i) <= StoredOut(m)
<1>1. PICK t \in Nat \ {0} : t = layer.tp
  BY LayerIs
<1>2. layer.kind \in {"merged", "qkv"} /\ r \in 0 .. t - 1
  BY <1>1 DEF Fuses, Rank
<1>3. PICK n \in Nat : /\ n = Len(m) /\ DOMAIN m = 1 .. n
                       /\ \A k \in 1 .. n : m[k] \in DOMAIN layer.out
                       /\ At(m, i) \in 1 .. n /\ m[At(m, i)] = i /\ i \in DOMAIN layer.out
  BY <1>2, ShardAt
<1>4. PICK j \in 1 .. n : j = At(m, i) /\ m[j] = i
  BY <1>3
<1> DEFINE part == [k \in 1 .. n |-> OutSize(m[k])]
           whole == [k \in 1 .. n |-> layer.out[m[k]]]
           before == [k \in 1 .. j - 1 |-> OutSize(m[k])]
<1>5. \A k \in 1 .. n : part[k] \in Nat /\ whole[k] = t * part[k]
  BY <1>1, <1>2, <1>3, AllGroups
<1>6. part[j] = OutSize(i)
  BY <1>4
<1>7. before = [k \in 1 .. j - 1 |-> part[k]]
  OBVIOUS
<1>8. FirstOf(m, r, i) = t * Total(before) + r * OutSize(i)
  BY <1>1, <1>4 DEF FirstOf, FusedOffset, At
<1>9. StoredOut(m) = PadDim(Total(whole))
  BY <1>2, <1>3 DEF StoredOut, Narrower
<1>10. DOMAIN part = 1 .. n /\ DOMAIN whole = 1 .. n /\ IsFiniteSet(1 .. n)
  BY FS_Interval
<1> HIDE DEF part, whole, before
<1>11. Total(whole) = t * Total(part) /\ Total(whole) \in Nat
  BY <1>5, <1>10, TotalTimes
<1>12. Total(before) \in Nat /\ Total(part) \in Nat /\ Total(before) + part[j] <= Total(part)
  BY <1>5, <1>7, <1>10, PrefixWithin
<1>13. PICK b \in Nat, p \in Nat, s \in Nat :
          b = Total(before) /\ p = Total(part) /\ s = OutSize(i) /\ b + s <= p
  BY <1>5, <1>6, <1>12
<1>14. PICK e \in Nat : p = b + s + e
  BY <1>13, p - (b + s) \in Nat
<1>15. r * s \in Nat /\ r * s + s <= t * s /\ t * s \in Nat
  BY <1>2, PartWithin
<1>16. t * p = t * b + t * s + t * e /\ t * b \in Nat /\ t * e \in Nat
  BY <1>14
<1>17. t * p <= StoredOut(m) /\ StoredOut(m) \in Nat
  <2>1. Total(whole) <= PadDim(Total(whole)) /\ PadDim(Total(whole)) \in Nat
    BY <1>11, Padding
  <2> QED BY <1>9, <1>11, <1>13, <2>1
<1>18. PICK f \in Nat : f = t * b + r * s
  BY <1>15, <1>16
<1>19. f + s <= t * p
  BY <1>15, <1>16, <1>18
<1>20. t * p \in Nat
  OBVIOUS
<1> QED BY <1>8, <1>13, <1>17, <1>18, <1>19, <1>20

\* vLLM's padding of a vocabulary stays within exllamav3's.
LEMMA VocabWithin ==
    ASSUME NEW n \in Nat \ {0}
    PROVE  Up(n, VocabPad) \in Nat /\ Up(n, VocabPad) <= PadDim(n) /\ PadDim(n) \in Nat
<1>1. PICK v \in Nat \ {0}, h \in Nat \ {0} : v = VocabPad /\ h = HadBlock
  BY Sizes
<1>2. PICK w \in Nat : w = PadDim(n) /\ n <= w
  BY Padding
<1>3. PICK c \in Int : w = h * c
  <2>1. Aligned(w) /\ w \in Int
    BY <1>2, Padding
  <2>2. \E c \in Int : w = HadBlock * c
    BY <2>1, AlignedIs
  <2> QED BY <1>1, <2>2
<1>4. PICK d \in Int : h = v * d
  BY <1>1, Sizes, Multiple, h \in Int
<1>5. PICK k \in Int : k = d * c
  OBVIOUS
<1>6. w = v * k
  BY <1>3, <1>4, <1>5
<1>7. PICK x \in Nat : x = n + v - 1
  OBVIOUS
<1>8. PICK q \in Nat : q = x \div v
  BY Quotient, x \in Int, x >= 0
<1>9. PICK y \in 0 .. v - 1 : x = v * q + y
  <2>1. x = v * (x \div v) + (x % v) /\ x % v \in 0 .. v - 1
    BY Quotient, x \in Int
  <2> QED BY <1>8, <2>1
<1>10. q <= k
  <2>1. SUFFICES ASSUME q > k PROVE FALSE
    OBVIOUS
  <2>2. PICK e \in Nat : q = k + 1 + e
    BY <2>1, q - k - 1 \in Nat
  <2>3. v * q = w + v + v * e /\ v * e \in Nat
    BY <1>6, <2>2
  <2> QED BY <1>2, <1>7, <1>9, <2>3
<1>11. PICK e \in Nat : k = q + e
  BY <1>10, k - q \in Nat
<1>12. w = v * q + v * e /\ v * e \in Nat /\ v * q \in Nat /\ v * q = q * v
  BY <1>6, <1>11
<1>13. Up(n, VocabPad) = q * v
  BY <1>1, <1>7, <1>8 DEF Up
<1> QED BY <1>2, <1>12, <1>13

\* The part of a tensor that a rank is to take is there.
LEMMA EndFits ==
    ASSUME Fixed, Exact, Cuttable, Sound, layer.kind \notin {"row", "moe"},
           NEW m \in Modules, NEW r \in Rank, NEW i \in KeysOf(m), ~Unsplit(m)
    PROVE  /\ FirstOf(m, r, i) \in Nat /\ OutSize(i) \in Nat
           /\ FirstOf(m, r, i) + OutSize(i) <= StoredOut(m)
<1>1. PICK t \in Nat \ {0} : t = layer.tp
  BY LayerIs
<1>2. ~ck.narrow /\ r \in 0 .. t - 1
  BY <1>1 DEF Sound, Rank
<1>3. CASE Fuses(m)
  BY <1>2, <1>3, FusedEnds, TakenWhole, "svh" \in Names DEF Names
<1>4. CASE ~Fuses(m)
  <2>1. i \in DOMAIN layer.out
    BY ShardAt
  <2>2. PICK n \in Nat \ {0} : n = layer.out[i]
    BY <2>1, WidthsAre
  <2>3. StoredOut(m) = PadDim(n) /\ PadDim(n) \in Nat /\ n <= PadDim(n)
    BY <1>2, <1>4, <2>2, StoredAlone, Padding
  <2>4. FirstOf(m, r, i) = IndexOf(r, i) * OutSize(i)
    BY <1>4 DEF FirstOf, SizeOf
  <2>5. CASE layer.kind = "head"
    <3>1. i = 1
      BY <2>1, <2>5, OutIs, LayerIs
    <3>2. PICK p \in Nat : p = Padded /\ p <= PadDim(n)
      BY <2>2, <3>1, VocabWithin DEF Padded
    <3>3. t # 1
      BY <1>1, <1>4 DEF Unsplit
    <3>4. p % (t * HadBlock) = 0
      BY <1>1, <2>5, <3>2, <3>3 DEF Exact
    <3>5. PICK s \in Nat : s = p \div t /\ p = t * s
      BY <3>4, BlocksSplit
    <3>6. OutSize(i) = s /\ IndexOf(r, i) = r
      BY <1>1, <2>5, <3>1, <3>2, <3>5 DEF OutSize, IndexOf
    <3>7. r * s \in Nat /\ r * s + s <= t * s
      BY <1>2, <3>5, PartWithin
    <3> QED BY <2>3, <2>4, <3>2, <3>5, <3>6, <3>7
  <2>6. CASE layer.kind # "head"
    <3>1. PICK s \in Nat, g \in Nat \ {0} : s = OutSize(i) /\ g = Groups(i) /\ n = g * s
      BY <2>1, <2>2, <2>6, SharesAre
    <3>2. PICK k \in 0 .. g - 1 : k = IndexOf(r, i)
      BY <2>1, <2>6, <3>1, SharesAre DEF Kept
    <3>3. k * s \in Nat /\ k * s + s <= g * s
      BY <3>1, PartWithin
    <3> QED BY <2>3, <2>4, <3>1, <3>2, <3>3
  <2> QED BY <2>5, <2>6
<1> QED BY <1>3, <1>4

Servable == Exact /\ Cuttable /\ Sound

LEMMA CutWell ==
    ASSUME Fixed, Servable, NEW m \in Modules, NEW r \in Rank, NEW i \in KeysOf(m)
    PROVE  ValidTp /\ WellCut(m, r, i)
<1>1. ValidTp
  BY ValidExact DEF Servable
<1>2. /\ Fuses(m) => \A j \in DOMAIN m : Aligned(OutSize(m[j]))
      /\ layer.kind = "moe" => CheckSplit(Intermediate(m))
  BY TakenWhole, "svh" \in Names DEF Servable, Names
<1> QED BY <1>1, <1>2, CutsAreBlocks

LEMMA OutFits ==
    ASSUME Fixed, Servable, layer.kind # "moe", NEW m \in Modules, NEW r \in Rank, NEW i \in KeysOf(m)
    PROVE  Wide(Piece("trellis", m, r, i).out) = WantedOut(i)
<1>1. PICK t \in Nat \ {0} : t = layer.tp
  BY LayerIs
<1>2. WellCut(m, r, i) /\ ~ck.narrow
  BY CutWell DEF Servable, Sound
<1>3. i \in DOMAIN layer.out
  BY ShardAt
<1>4. PICK n \in Nat \ {0} : n = layer.out[i]
  BY <1>3, WidthsAre
<1>5. CASE Unsplit(m) \/ layer.kind = "row"
  <2>1. ~Fuses(m)
    BY <1>5 DEF Unsplit, Fuses
  <2>2. StoredOut(m) = PadDim(n) /\ PadDim(n) \in Nat
    BY <1>2, <1>4, <2>1, StoredAlone, Padding
  <2>3. Piece("trellis", m, r, i).out = <<0, PadDim(n)>>
    <3>1. Whole(m).out = <<0, PadDim(n)>>
      BY <2>2, AsWide
    <3>2. Piece("trellis", m, r, i) = Whole(m) \/ Piece("trellis", m, r, i) = [Whole(m) EXCEPT !.in = InCut(m, r, i)]
      <4>1. CASE Unsplit(m)
        BY <4>1 DEF Piece
      <4>2. CASE ~Unsplit(m)
        <5>1. ByRow(m)
          BY <1>5, <4>2 DEF ByRow
        <5> QED BY <1>2, <4>2, <5>1, PieceIs
      <4> QED BY <4>1, <4>2
    <3>3. [Whole(m) EXCEPT !.in = InCut(m, r, i)].out = Whole(m).out
      BY DEF Whole
    <3> QED BY <3>1, <3>2, <3>3
  <2>4. WantedOut(i) = PadDim(n)
    <3>1. CASE layer.kind = "row"
      BY <1>4, <3>1 DEF WantedOut, OutSize
    <3>2. CASE layer.kind = "head"
      <4>1. t = 1 /\ i = 1
        BY <1>1, <1>3, <1>5, <3>2, OutIs, LayerIs DEF Unsplit
      <4> QED BY <1>1, <1>4, <3>2, <4>1 DEF WantedOut
    <3>3. CASE layer.kind \notin {"row", "head"}
      <4>1. t = 1
        BY <1>1, <1>5, <3>3 DEF Unsplit
      <4>2. layer.kind = "qkv" => layer.kvHeads \in Nat \ {0}
        BY LayerIs, OutIs
      <4>3. Replicas = 1
        BY <1>1, <4>1, <4>2 DEF Replicas
      <4>4. OutSize(i) = n \div 1
        BY <1>1, <1>4, <3>3, <4>1, <4>3 DEF OutSize
      <4> QED BY <3>3, <4>4 DEF WantedOut
    <3> QED BY <3>1, <3>2, <3>3
  <2> QED BY <2>2, <2>3, <2>4 DEF Wide
<1>6. CASE ~Unsplit(m) /\ layer.kind # "row"
  <2>1. ~ByRow(m)
    BY <1>6 DEF ByRow
  <2>2. PICK f \in Nat, s \in Nat : f = FirstOf(m, r, i) /\ s = OutSize(i) /\ f + s <= StoredOut(m)
    BY <1>6, EndFits DEF Servable
  <2>3. SizeOf(m, i) = s /\ Aligned(s)
    BY <1>2, <1>6, <2>2 DEF SizeOf, WellCut
  <2>4. Piece("trellis", m, r, i).out = Cut(StoredOut(m), f, f + s)
    <3>1. Piece("trellis", m, r, i) = [Whole(m) EXCEPT !.out = OutCut(m, r, i)]
      BY <1>2, <1>6, <2>1, PieceIs
    <3>2. [Whole(m) EXCEPT !.out = OutCut(m, r, i)].out = OutCut(m, r, i)
      BY DEF Whole
    <3> QED BY <2>2, <2>3, <3>1, <3>2 DEF OutCut
  <2>5. StoredOut(m) \in Nat
    BY StoredIs
  <2>6. WantedOut(i) = s
    <3>1. ~(layer.kind = "head" /\ layer.tp = 1)
      BY <1>6 DEF Unsplit, Fuses
    <3> QED BY <2>2, <2>3, <3>1, Padding DEF WantedOut
  <2> QED BY <2>2, <2>4, <2>5, <2>6, CutFull
<1> QED BY <1>5, <1>6

\* What a rank has collected when everything has come.
LEMMA HeldIs ==
    ASSUME SliceInv, Servable, NEW r \in Rank, AllThree(held[r]), NEW i \in Keys
    PROVE  \E m \in Modules : /\ i \in KeysOf(m)
                              /\ \A n \in Names : i \in DOMAIN Taken(n, m, r) /\ Of(held[r], n, i) = Taken(n, m, r)[i]
                                                  /\ Of(held[r], n, i) = Piece(n, m, r, i)
<1>1. PICK m \in Modules : i \in KeysOf(m)
  BY KeysCovered DEF SliceInv
<1>2. ASSUME NEW n \in Names
      PROVE  /\ i \in DOMAIN Taken(n, m, r) /\ Of(held[r], n, i) = Taken(n, m, r)[i]
             /\ Of(held[r], n, i) = Piece(n, m, r, i)
  <2>1. <<n, i>> \in DOMAIN held[r]
    BY <1>2 DEF AllThree
  <2>2. From(held[r], r) /\ Fixed
    BY DEF SliceInv
  <2>3. \E p \in Names, o \in Modules :
           \E j \in DOMAIN Taken(p, o, r) : <<n, i>> = <<p, j>> /\ held[r][<<n, i>>] = Taken(p, o, r)[j]
    BY <2>1, <2>2 DEF From
  <2>4. PICK o \in Modules : i \in DOMAIN Taken(n, o, r) /\ held[r][<<n, i>>] = Taken(n, o, r)[i]
    BY <2>3
  <2>5. i \in KeysOf(o) /\ Taken(n, o, r)[i] = Piece(n, o, r, i)
    BY <1>2, <2>2, <2>4, TakenIs
  <2>6. o = m
    BY <1>1, <2>2, <2>5, ModuleIs
  <2> QED BY <2>4, <2>5, <2>6 DEF Of
<1> QED BY <1>1, <1>2

LEMMA ShapesServed ==
    ASSUME SliceInv, Servable, layer.kind # "moe", NEW r \in Rank, AllThree(held[r]), NEW i \in Keys
    PROVE  CheckShapes(r, i)
<1>1. PICK m \in Modules : /\ i \in KeysOf(m)
                           /\ \A n \in Names : i \in DOMAIN Taken(n, m, r) /\ Of(held[r], n, i) = Taken(n, m, r)[i]
                                               /\ Of(held[r], n, i) = Piece(n, m, r, i)
  BY HeldIs
<1>2. Fixed /\ ValidTp /\ WellCut(m, r, i) /\ Exact
  BY <1>1, CutWell DEF SliceInv, Servable
<1>3. "suh" \in Names /\ "svh" \in Names /\ "trellis" \in Names
  BY DEF Names
<1>4. /\ Wide(Piece("trellis", m, r, i).in) = WantedIn
      /\ Wide(Piece("trellis", m, r, i).out) = WantedOut(i)
  BY <1>1, <1>2, InFits, OutFits
<1>5. /\ Taken("suh", m, r)[i].in = Taken("trellis", m, r)[i].in
      /\ Taken("svh", m, r)[i].out = Taken("trellis", m, r)[i].out
  BY <1>1, <1>2, TakenAlike
<1>6. /\ Of(held[r], "suh", i).in = Of(held[r], "trellis", i).in
      /\ Of(held[r], "svh", i).out = Of(held[r], "trellis", i).out
  BY <1>1, <1>3, <1>5
<1>7. Of(held[r], "trellis", i) = Piece("trellis", m, r, i)
  BY <1>1, <1>3
<1> QED BY <1>4, <1>6, <1>7 DEF CheckShapes

LEMMA RowsFit ==
    ASSUME Fixed, layer.kind = "head", NEW r \in Rank
    PROVE  RealRows(r) <= OutSize(1)
<1>1. PICK n \in Nat, s \in Nat : n = layer.out[1] /\ s = OutSize(1)
  <2>1. 1 \in DOMAIN layer.out
    BY LayerIs, OutIs
  <2> QED BY <2>1, WidthsAre
<1>2. PICK a \in Nat, b \in Nat : a = r * s /\ b = (r + 1) * s /\ b = a + s
  BY ReplicasAre
<1>3. PICK low \in Nat, high \in Nat : /\ low = Min({n, a}) /\ high = Min({n, b})
                                       /\ low <= high /\ high <= low + s
  <2>1. Min({n, a}) = (IF n <= a THEN n ELSE a) /\ Min({n, b}) = IF n <= b THEN n ELSE b
    BY MinOfTwo
  <2> QED BY <1>2, <2>1
<1>4. high - low \in Int /\ high - low <= s
  BY <1>3
<1>5. RealRows(r) = Max({0, high - low})
  BY <1>1, <1>2, <1>3 DEF RealRows
<1> QED BY <1>1, <1>4, <1>5, MaxOfTwo

LEMMA ScaleFound ==
    ASSUME Fixed, Sound, layer.kind = "moe"
    PROVE  Recovered
<1>1. PICK t \in 0 .. 49 : t = Tolerance
  BY Sizes
<1>2. 2 * Cardinality({e \in Experts : ck.noise[e] \in -t .. t}) > layer.experts
  BY <1>1 DEF Sound
<1>3. Median \in Int /\ Median - 100 * ck.scale \in -t .. t
  BY <1>1, <1>2, MedianWithin, t \in Nat
<1>4. PICK s \in Nat, n \in -t .. t : s = ck.scale /\ Median = 100 * s + n
  <2>1. PICK s \in Nat : s = ck.scale
    BY LayerIs
  <2>2. PICK x \in Int : x = Median
    BY <1>3
  <2>3. x - 100 * s \in -t .. t /\ x = 100 * s + (x - 100 * s)
    BY <1>3, <2>1, <2>2
  <2> QED BY <2>1, <2>2, <2>3
<1>5. Nearest = (100 * s + n + 50) \div 100
  BY <1>4 DEF Nearest, Ratio
<1>6. Nearest = s
  <2>1. n \in Int /\ n >= -50 /\ n < 50
    <3>1. t \in Int /\ 0 <= t /\ t <= 49
      BY <1>1
    <3>2. n \in Int /\ -t <= n /\ n <= t
      BY <3>1, <1>4
    <3> QED BY <3>1, <3>2
  <2>2. PICK w \in Nat : w = n + 50 /\ w < 100
    BY <2>1
  <2>3. s \in Nat /\ 100 * s + n + 50 = 100 * s + w
    BY <2>1, <2>2
  <2>4. (100 * s + w) \div 100 = s
    BY <2>2
  <2> QED BY <1>5, <2>3, <2>4
<1>7. Ratio - 100 * Nearest = n
  BY <1>4, <1>6 DEF Ratio
<1> QED BY <1>1, <1>4, <1>6, <1>7 DEF Recovered

\* Experts of one projection are cut alike.
LEMMA ExpertsAlike ==
    ASSUME Fixed, layer.kind = "moe", NEW p, NEW n \in Names, NEW d, NEW e, NEW r
    PROVE  Piece(n, <<p, d>>, r, <<p, d>>) = Piece(n, <<p, e>>, r, <<p, e>>)
<1>1. <<p, d>>[1] = p /\ <<p, e>>[1] = p
  OBVIOUS
<1>2. /\ StoredIn(<<p, d>>) = StoredIn(<<p, e>>) /\ StoredOut(<<p, d>>) = StoredOut(<<p, e>>)
      /\ ByRow(<<p, d>>) = ByRow(<<p, e>>) /\ ~Fuses(<<p, d>>) /\ ~Fuses(<<p, e>>)
  BY <1>1 DEF StoredIn, StoredOut, ByRow, Fuses
<1>3. SizeOf(<<p, d>>, <<p, d>>) = SizeOf(<<p, e>>, <<p, e>>)
  BY <1>1, <1>2 DEF SizeOf, SplitWidth, Intermediate
<1>4. FirstOf(<<p, d>>, r, <<p, d>>) = FirstOf(<<p, e>>, r, <<p, e>>)
  BY <1>2, <1>3 DEF FirstOf, IndexOf
<1>5. Whole(<<p, d>>) = Whole(<<p, e>>)
  BY <1>2 DEF Whole
<1>6. Unsplit(<<p, d>>) = Unsplit(<<p, e>>)
  BY <1>2 DEF Unsplit
<1>7. \A a, b : /\ ShardRow(n, <<p, d>>, a, b) = ShardRow(n, <<p, e>>, a, b)
                /\ ShardColumn(n, <<p, d>>, a, b) = ShardColumn(n, <<p, e>>, a, b)
  BY <1>5 DEF ShardRow, ShardColumn
<1> QED BY <1>2, <1>3, <1>4, <1>5, <1>6, <1>7 DEF Piece

\* One width of the codebook for all experts of a projection, gate and up alike.
LEMMA BitsAlike ==
    ASSUME Fixed, Sound, layer.kind = "moe"
    PROVE  /\ \A p \in ToSet(Projection), d, e \in Experts : Bits(<<p, d>>) = Bits(<<p, e>>)
           /\ Bits(<<"w1", 1>>) = Bits(<<"w3", 1>>)
<1>1. Projection = <<"w1", "w3", "w2">> /\ DOMAIN Projection = 1 .. 3
  BY DEF Projection
<1>2. /\ ck.bits \in Seq(Seq(Nat)) /\ Len(ck.bits) = 3
      /\ \A q \in 1 .. 3 : Len(ck.bits[q]) = layer.experts
  <2>1. ck \in CheckpointOf /\ layer \in Layers /\ ck \in Checkpoints("moe")
    BY ShardAssumption DEF Fixed
  <2>2. Len(ck.bits) = 3 /\ \A q \in 1 .. 3 : Len(ck.bits[q]) = layer.experts
    BY <2>1, ShardAssumption
  <2> QED BY <2>1, <2>2 DEF CheckpointOf
<1> DEFINE at(p) == CHOOSE q \in DOMAIN Projection : Projection[q] = p
<1>3. \A m : Bits(m) = ck.bits[at(m[1])][m[2]]
  BY DEF Bits
<1>4. \A p \in ToSet(Projection) : at(p) \in 1 .. 3
  BY <1>1 DEF ToSet
<1>5. at("w1") = 1 /\ at("w3") = 2
  BY <1>1
<1> HIDE DEF at
<1>6. ASSUME NEW q \in 1 .. 3, NEW d \in Experts, NEW e \in Experts PROVE ck.bits[q][d] = ck.bits[q][e]
  <2>1. ck.bits[q] \in Seq(Nat) /\ DOMAIN ck.bits[q] = 1 .. layer.experts
    BY <1>2
  <2>2. ck.bits[q][d] \in ToSet(ck.bits[q]) /\ ck.bits[q][e] \in ToSet(ck.bits[q])
    BY <2>1 DEF ToSet, Experts
  <2>3. Cardinality(ToSet(ck.bits[q])) = 1
    BY <1>1 DEF Sound
  <2>4. IsFiniteSet(ToSet(ck.bits[q]))
    <3> DEFINE s == ck.bits[q]
               f == [j \in DOMAIN s |-> s[j]]
    <3>1. IsFiniteSet(DOMAIN s)
      BY <2>1, ExpertsFinite DEF Experts
    <3>2. f \in Surjection(DOMAIN s, ToSet(s))
      BY DEF Surjection, ToSet
    <3> HIDE DEF f, s
    <3>3. IsFiniteSet(ToSet(s))
      BY <3>1, <3>2, FS_Surjection
    <3> QED BY <3>3 DEF s
  <2>5. \E x : ToSet(ck.bits[q]) = {x}
    BY <2>3, <2>4, FS_Singleton
  <2> QED BY <2>2, <2>5
<1>7. ck.bits[1] = ck.bits[2]
  BY DEF Sound
<1>8. \A p \in ToSet(Projection), d, e \in Experts : Bits(<<p, d>>) = Bits(<<p, e>>)
  BY <1>3, <1>4, <1>6
<1>9. Bits(<<"w1", 1>>) = Bits(<<"w3", 1>>)
  BY <1>3, <1>5, <1>7
<1> QED BY <1>8, <1>9

LEMMA ExpertsServed ==
    ASSUME SliceInv, Servable, layer.kind = "moe", NEW r \in Rank, AllThree(held[r])
    PROVE  ExpertsFit(r)
<1>1. Fixed /\ Sound /\ Complete(r)
  BY DEF SliceInv, Servable, AllThree, Complete
<1>2. ASSUME NEW p \in ToSet(Projection), NEW e \in Experts, NEW n \in Names
      PROVE  Of(held[r], n, <<p, e>>) = Piece(n, <<p, e>>, r, <<p, e>>)
  <2>1. <<p, e>> \in Keys /\ \A m \in Modules : <<p, e>> \in KeysOf(m) => m = <<p, e>>
    BY DEF Keys, Modules, KeysOf
  <2> QED BY <2>1, HeldIs
<1>3. \A p \in ToSet(Projection), n \in Names, d, e \in Experts : Of(held[r], n, <<p, d>>) = Of(held[r], n, <<p, e>>)
  BY <1>1, <1>2, ExpertsAlike
<1> QED BY <1>1, <1>3, BitsAlike, ScaleFound DEF ExpertsFit

\* What of the modules that have begun has come so far is in the collectors.
ArrivedTo(r) ==
    \A m \in Modules \ stream.left, n \in Names : \A i \in KeysOf(m) :
        <<n, i>> \in DOMAIN held[r] \/ (m = stream.now /\ n \in stream.names)
ServedInv ==
    Servable => /\ \A r \in Rank : state[r] # "refused"
                /\ stream.built => \A r \in Rank : state[r] = "loading" => ArrivedTo(r)

LEMMA StillServable ==
    ASSUME Still
    PROVE  Servable' = Servable /\ \A m : KeysOf(m)' = KeysOf(m) /\ Sent(m)' = Sent(m)
<1>1. layer' = layer /\ ck' = ck /\ Modules' = Modules
  BY StillSame DEF Still
<1>2. Exact' = Exact
  BY <1>1 DEF Exact, Padded
<1>3. Cuttable' = Cuttable
  BY <1>1 DEF Cuttable, Replicas, OutSize, Padded
<1>4. Sound' = Sound
  BY <1>1 DEF Sound, Experts
<1> QED BY <1>1, <1>2, <1>3, <1>4 DEF Servable, KeysOf, Sent

LEMMA StillArrived ==
    ASSUME Still, NEW r,
           \A m \in Modules \ stream'.left, n \in Names : \A i \in KeysOf(m) :
               <<n, i>> \in DOMAIN held'[r] \/ (m = stream'.now /\ n \in stream'.names)
    PROVE  ArrivedTo(r)'
<1>1. Modules' = Modules /\ Names' = Names
  BY StillSame DEF Names
<1>2. \A m : KeysOf(m)' = KeysOf(m)
  BY DEF Still, KeysOf
<1> SUFFICES ASSUME NEW m \in Modules' \ stream'.left, NEW n \in Names', NEW i \in KeysOf(m)'
             PROVE  <<n, i>> \in DOMAIN held'[r] \/ (m = stream'.now /\ n \in stream'.names)
  BY DEF ArrivedTo
<1>3. m \in Modules \ stream'.left /\ n \in Names /\ i \in KeysOf(m)
  BY <1>1, <1>2
<1> QED BY <1>3

LEMMA ServedCreate == SliceInv /\ ServedInv /\ CreateWeights => ServedInv'
<1> SUFFICES ASSUME SliceInv, ServedInv, CreateWeights, Servable' PROVE ServedInv'
  BY DEF ServedInv
<1>1. Still
  BY DEF CreateWeights, Still
<1>2. Servable /\ Fixed
  BY <1>1, StillServable DEF SliceInv
<1>3. ValidTp
  BY <1>2, ValidExact DEF Servable
<1>4. state' = [r \in Rank |-> "loading"]
  BY <1>3 DEF CreateWeights
<1>5. stream'.left = Modules
  BY DEF CreateWeights, SliceInv, Streams
<1> QED BY <1>1, <1>4, <1>5, StillSame DEF ServedInv, ArrivedTo

LEMMA ServedModule == ASSUME NEW m \in Modules PROVE SliceInv /\ ServedInv /\ NextModule(m) => ServedInv'
<1> SUFFICES ASSUME SliceInv, ServedInv, NextModule(m), Servable' PROVE ServedInv'
  BY DEF ServedInv
<1>1. Still /\ UNCHANGED <<held, state>>
  BY DEF NextModule, Still
<1>2. Servable
  BY <1>1, StillServable
<1>3. /\ stream'.left = stream.left \ {m} /\ stream'.now = m /\ stream'.names = Sent(m)
      /\ stream.names = {} /\ stream'.built = stream.built
  BY DEF NextModule, SliceInv, Streams
<1>4. Sent(m) = Names
  BY <1>2 DEF Sent, Servable, Sound
<1>5. ASSUME NEW r \in Rank, stream.built, state[r] = "loading" PROVE ArrivedTo(r)'
  <2>1. ArrivedTo(r)
    BY <1>2, <1>5 DEF ServedInv
  <2>2. ASSUME NEW o \in Modules \ stream'.left, NEW n \in Names, NEW i \in KeysOf(o)
        PROVE  <<n, i>> \in DOMAIN held'[r] \/ (o = stream'.now /\ n \in stream'.names)
    <3>1. CASE o = m
      BY <1>3, <1>4, <3>1
    <3>2. CASE o # m
      BY <1>1, <1>3, <2>1, <3>2 DEF ArrivedTo
    <3> QED BY <3>1, <3>2
  <2> QED BY <1>1, <2>2, StillArrived
<1> QED BY <1>1, <1>2, <1>3, <1>5, StillSame DEF ServedInv

LEMMA ServedLoad == ASSUME NEW name \in Names PROVE SliceInv /\ ServedInv /\ Load(name) => ServedInv'
<1> SUFFICES ASSUME SliceInv, ServedInv, Load(name), Servable' PROVE ServedInv'
  BY DEF ServedInv
<1> DEFINE m == stream.now
           taken == [r \in Rank |-> Taken(name, m, r)]
<1>1. Still
  BY DEF Load, Still
<1>2. Servable /\ Fixed
  BY <1>1, StillServable DEF SliceInv
<1>3. /\ stream'.left = stream.left /\ stream'.now = m /\ stream'.names = stream.names \ {name}
      /\ name \in stream.names /\ stream'.built = stream.built /\ m \in Modules
  BY DEF Load, SliceInv, Streams
<1>4. /\ state' = [r \in Rank |-> IF taken[r] = Refused THEN "refused" ELSE state[r]]
      /\ held' = [r \in Rank |-> IF state'[r] = "loading" THEN Store(held[r], name, taken[r]) ELSE held[r]]
  BY DEF Load
<1>5. \A r \in Rank : taken[r] = Taken(name, m, r)
  OBVIOUS
<1> HIDE DEF m, taken
<1>6. \A r \in Rank : taken[r] # Refused /\ DOMAIN taken[r] = KeysOf(m)
  BY <1>2, <1>3, <1>5, TakenWhole DEF Servable
<1>7. \A r \in Rank : state'[r] = state[r]
  BY <1>4, <1>6
<1>8. ASSUME NEW r \in Rank, stream.built, state[r] = "loading" PROVE ArrivedTo(r)'
  <2>1. ArrivedTo(r)
    BY <1>2, <1>8 DEF ServedInv
  <2>2. held'[r] = Store(held[r], name, taken[r])
    BY <1>4, <1>7, <1>8
  <2>3. DOMAIN held'[r] = DOMAIN held[r] \cup ({name} \X KeysOf(m))
    BY <1>6, <2>2 DEF Store
  <2>4. ASSUME NEW o \in Modules \ stream.left, NEW n \in Names, NEW i \in KeysOf(o)
        PROVE  <<n, i>> \in DOMAIN held'[r] \/ (o = m /\ n \in stream.names \ {name})
    <3>1. <<n, i>> \in DOMAIN held[r] \/ (o = m /\ n \in stream.names)
      BY <2>1, <2>4 DEF ArrivedTo, m
    <3>2. CASE <<n, i>> \in DOMAIN held[r]
      BY <2>3, <3>2
    <3>3. CASE o = m /\ n \in stream.names /\ n # name
      BY <3>3
    <3>4. CASE o = m /\ n = name
      BY <2>3, <2>4, <3>4
    <3> QED BY <3>1, <3>2, <3>3, <3>4
  <2> QED BY <1>1, <1>3, <2>4, StillArrived
<1>9. \A r \in Rank : state'[r] # "refused"
  BY <1>2, <1>7 DEF ServedInv
<1> QED BY <1>1, <1>3, <1>7, <1>8, <1>9, StillSame DEF ServedInv

LEMMA ServedProcess == ASSUME NEW r \in Rank PROVE SliceInv /\ ServedInv /\ Process(r) => ServedInv'
<1> SUFFICES ASSUME SliceInv, ServedInv, Process(r), Servable' PROVE ServedInv'
  BY DEF ServedInv
<1> DEFINE fits == CASE layer.kind = "moe" -> ExpertsFit(r)
                     [] layer.kind = "head" -> HeadFits(r)
                     [] OTHER -> LinearFits(r)
<1>1. Still /\ stream' = stream /\ state[r] = "loading" /\ Loaded
  BY DEF Process, Still
<1>2. Servable /\ Fixed
  BY <1>1, StillServable DEF SliceInv
<1>3. /\ state' = [state EXCEPT ![r] = IF fits THEN "served" ELSE "refused"]
      /\ held' = IF fits THEN [held EXCEPT ![r] = NoSlices] ELSE held
  BY DEF Process
<1>4. AllThree(held[r])
  <2>1. ArrivedTo(r) /\ stream.left = {} /\ stream.names = {}
    BY <1>1, <1>2 DEF ServedInv, Loaded
  <2>2. ASSUME NEW n \in Names, NEW i \in Keys PROVE <<n, i>> \in DOMAIN held[r]
    <3>1. PICK m \in Modules : i \in KeysOf(m)
      BY <1>2, KeysCovered
    <3> QED BY <2>1, <3>1 DEF ArrivedTo
  <2> QED BY <2>2 DEF AllThree
<1>5. layer.kind = "moe" => ExpertsFit(r)
  BY <1>2, <1>4, ExpertsServed
<1>6. layer.kind # "moe" => LinearFits(r)
  BY <1>2, <1>4, ShapesServed DEF LinearFits, Complete, AllThree
<1>7. layer.kind = "head" => HeadFits(r)
  BY <1>2, <1>6, RowsFit DEF HeadFits
<1>8. fits
  BY <1>5, <1>6, <1>7
<1> HIDE DEF fits
<1>9. /\ state'[r] = "served" /\ DOMAIN state = Rank /\ DOMAIN held = Rank
      /\ \A q \in Rank \ {r} : state'[q] = state[q] /\ held'[q] = held[q]
  BY <1>3, <1>8 DEF SliceInv, Ranks
<1>10. ASSUME NEW q \in Rank, stream.built, state'[q] = "loading" PROVE ArrivedTo(q)'
  <2>1. q # r /\ state[q] = "loading" /\ held'[q] = held[q]
    BY <1>9, <1>10
  <2>2. ArrivedTo(q)
    BY <1>2, <1>10, <2>1 DEF ServedInv
  <2> QED BY <1>1, <2>1, <2>2, StillArrived DEF ArrivedTo
<1>11. \A q \in Rank : state'[q] # "refused"
  BY <1>2, <1>9 DEF ServedInv
<1> QED BY <1>1, <1>10, <1>11, StillSame DEF ServedInv

LEMMA ServedStep == SliceInv /\ ServedInv /\ [Next]_vars => ServedInv'
<1> SUFFICES ASSUME SliceInv, ServedInv, [Next]_vars PROVE ServedInv'
  OBVIOUS
<1>1. CASE CreateWeights
  BY <1>1, ServedCreate
<1>2. ASSUME NEW m \in Modules, NextModule(m) PROVE ServedInv'
  BY <1>2, ServedModule
<1>3. ASSUME NEW name \in Names, Load(name) PROVE ServedInv'
  BY <1>3, ServedLoad
<1>4. ASSUME NEW r \in Rank, Process(r) PROVE ServedInv'
  BY <1>4, ServedProcess
<1>5. CASE UNCHANGED vars
  <2>1. Still /\ UNCHANGED <<stream, state, held>>
    BY <1>5 DEF vars, Still
  <2>2. \A r \in Rank : ArrivedTo(r)' = ArrivedTo(r)
    BY <2>1, StillSame, StillServable DEF ArrivedTo
  <2> QED BY <2>1, <2>2, StillSame, StillServable DEF ServedInv
<1> QED BY <1>1, <1>2, <1>3, <1>4, <1>5 DEF Next

\* A checkpoint of this very model, with nothing missing, whose widths the ranks
\* divide into whole blocks, is never refused: by no loader, in no order of its
\* tensors, by no check of shapes, and, of experts, by no measurement of which
\* most lie within the tolerance.
THEOREM ExactAlwaysServed == Spec => []ExactServed
<1>1. Init => ServedInv
  <2>1. Init => ~stream.built /\ \A r \in Rank : state[r] # "refused"
    BY DEF Init
  <2> QED BY <2>1 DEF ServedInv
<1>2. ServedInv => ExactServed
  BY DEF ServedInv, ExactServed, Servable
<1> QED BY <1>1, <1>2, ServedStep, SliceInvAlways, PTL DEF Spec
=============================================================================
