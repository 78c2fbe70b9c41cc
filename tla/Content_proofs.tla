----------------------------- MODULE Content_proofs ----------------------------
(***************************************************************************)
(* Where the bytes of a file are: the clusters of its record and of its    *)
(* handle, the cluster a handle remembers and the cursors of the walks.    *)
(* Then what they are: the bytes that were written to the file, in that    *)
(* order; and that the files behave as the abstract store of FileStore.    *)
(***************************************************************************)
EXTENDS FileStreams_proofs, FunctionTheorems

-----------------------------------------------------------------------------
(* Chains.                                                                 *)

Links == [FatSlots -> Nat]

(* The clusters that a data_length takes.                                  *)
Count(s) == CeilDiv(s.data, ClusterBytes)

(* All clusters of a stream lie in the heap, each once.                    *)
Laid(F, s) ==
    /\ Count(s) <= ClusterCount
    /\ \A i \in 0..(Count(s) - 1) : ChainIn(F, s)[i] \in Clusters
    /\ \A i, j \in 0..(Count(s) - 1) : ChainIn(F, s)[i] = ChainIn(F, s)[j] => i = j
    /\ s.data = 0 => s.first = 0

(* The last cluster of a length holds its last byte.                       *)
LEMMA LastIndex ==
    ASSUME NEW d \in Nat \ {0}
    PROVE  (d - 1) \div ClusterBytes = CeilDiv(d, ClusterBytes) - 1
<1>. DEFINE b == ClusterBytes
            q == (d - 1) \div b
            r == (d - 1) % b
<1>1. b \in Nat \ {0} /\ d - 1 \in Nat
  BY Parameters
<1>2. q \in Nat /\ r \in 0..(b - 1) /\ d - 1 = b * q + r
  BY <1>1
<1>. HIDE DEF q, r
<1>3. b * (q + 1) = b * q + b
  BY <1>1, <1>2
<1>4. d + b - 1 = b * (q + 1) + r /\ q + 1 \in Nat
  BY <1>1, <1>2, <1>3
<1>5. (d + b - 1) \div b = q + 1
  BY <1>1, <1>2, <1>4
<1>. QED
  BY <1>2, <1>5 DEF CeilDiv, q

(* A longer file has no fewer clusters, and a position inside a length lies *)
(* in one of its clusters.                                                 *)
LEMMA CeilMonotone ==
    ASSUME NEW d \in Nat, NEW e \in Nat
    PROVE  /\ d <= e => CeilDiv(d, ClusterBytes) <= CeilDiv(e, ClusterBytes)
           /\ d < e => d \div ClusterBytes < CeilDiv(e, ClusterBytes)
<1>1. ASSUME NEW x \in Nat, NEW y \in Nat, x <= y
      PROVE  x \div ClusterBytes <= y \div ClusterBytes
  <2>. DEFINE b == ClusterBytes
              p == x \div b
              q == y \div b
              l == x % b
              r == y % b
              k == p - (q + 1)
  <2>1. b \in Nat \ {0}
    BY Parameters
  <2>2. p \in Nat /\ l \in 0..(b - 1) /\ x = b * p + l /\ q \in Nat /\ r \in 0..(b - 1) /\ y = b * q + r
    BY <2>1
  <2>3. SUFFICES ASSUME ~(p <= q) PROVE FALSE
    OBVIOUS
  <2>. HIDE DEF p, q, l, r
  <2>4. k \in Nat /\ p = q + 1 + k
    BY <2>2, <2>3
  <2>. HIDE DEF k
  <2>. DEFINE bp == b * p
              bq == b * q
              bk == b * k
  <2>5. bp = bq + b + bk /\ bq \in Nat /\ bk \in Nat
    BY <2>1, <2>2, <2>4
  <2>6. x = bp + l /\ y = bq + r
    BY <2>2
  <2>. HIDE DEF bp, bq, bk
  <2>. QED
    BY <1>1, <2>1, <2>2, <2>5, <2>6
<1>2. d <= e => CeilDiv(d, ClusterBytes) <= CeilDiv(e, ClusterBytes)
  <2>1. d + ClusterBytes - 1 \in Nat /\ e + ClusterBytes - 1 \in Nat
    BY Parameters
  <2>2. d <= e => d + ClusterBytes - 1 <= e + ClusterBytes - 1
    BY Parameters
  <2>. QED
    BY <1>1, <2>1, <2>2 DEF CeilDiv
<1>3. d < e => d \div ClusterBytes < CeilDiv(e, ClusterBytes)
  <2>1. SUFFICES ASSUME d < e PROVE d \div ClusterBytes < CeilDiv(e, ClusterBytes)
    OBVIOUS
  <2>2. e - 1 \in Nat /\ d <= e - 1 /\ e \in Nat \ {0}
    BY <2>1
  <2>3. d \div ClusterBytes <= (e - 1) \div ClusterBytes
    BY <1>1, <2>2
  <2>4. (e - 1) \div ClusterBytes = CeilDiv(e, ClusterBytes) - 1
    BY <2>2, LastIndex
  <2>5. d \div ClusterBytes \in Nat /\ CeilDiv(e, ClusterBytes) \in Nat
    BY ClusterCounts
  <2>. QED
    BY <2>3, <2>4, <2>5
<1>. QED
  BY <1>2, <1>3

(* What a length says of its clusters.                                     *)
LEMMA Counted ==
    ASSUME NEW s, Located(s)
    PROVE  /\ Count(s) \in Nat /\ s.first \in Nat
           /\ s.data = 0 <=> Count(s) = 0
           /\ s.data # 0 => (s.data - 1) \div ClusterBytes = Count(s) - 1
           /\ s.data % ClusterBytes = 0 => s.data \div ClusterBytes = Count(s)
<1>1. s.data \in Nat /\ s.first \in Nat
  <2>1. s.first \in {0} \cup Clusters /\ s.data \in Nat
    BY DEF Located
  <2>. QED
    BY <2>1 DEF Clusters
<1>2. s.data # 0 => (s.data - 1) \div ClusterBytes = Count(s) - 1
  BY <1>1, LastIndex DEF Count
<1>. QED
  BY <1>1, <1>2, ClusterCounts DEF Count

(* A contiguous chain counts upwards.                                      *)
LEMMA Contiguous ==
    ASSUME NEW F \in Links, NEW s, Located(s), s.nofat
    PROVE  \A i \in 0..ClusterCount : ChainIn(F, s)[i] = s.first + i
<1>. DEFINE c == ChainIn(F, s)
            T == {i \in 0..ClusterCount : c[i] = s.first + i}
<1>1. /\ c \in [0..ClusterCount -> Nat] /\ c[0] = s.first
      /\ \A i \in 1..ClusterCount : c[i] = c[i - 1] + 1
  BY ChainEquation DEF Links
<1>2. s.first \in Nat /\ ClusterCount \in Nat
  BY Counted, Parameters
<1>. HIDE DEF c
<1>3. 0 \in T /\ \A i \in 1..ClusterCount : i - 1 \in T => i \in T
  BY <1>1, <1>2
<1>. HIDE DEF T
<1>4. \A i \in 0..ClusterCount : i \in T
  BY <1>2, <1>3, IntervalInduction
<1>. QED
  BY <1>4 DEF T, c

(* Two FATs that agree on the first links of a chain lead the same way.    *)
LEMMA SameChain ==
    ASSUME NEW F \in Links, NEW G \in Links, NEW s, Located(s), NEW t, Located(t),
           t.first = s.first, t.nofat = s.nofat, NEW k \in 0..ClusterCount,
           s.nofat \/ \A i \in 0..(k - 1) :
                        /\ ChainIn(F, s)[i] \in FatSlots
                        /\ G[ChainIn(F, s)[i]] = F[ChainIn(F, s)[i]]
    PROVE  \A i \in 0..k : ChainIn(G, t)[i] = ChainIn(F, s)[i]
<1>. DEFINE c == ChainIn(F, s)
            d == ChainIn(G, t)
            T == {i \in 0..k : d[i] = c[i]}
<1>1. /\ c \in [0..ClusterCount -> Nat] /\ c[0] = s.first
      /\ \A i \in 1..ClusterCount :
           c[i] = IF s.nofat THEN c[i - 1] + 1 ELSE IF c[i - 1] \in FatSlots THEN F[c[i - 1]] ELSE 0
  BY ChainEquation DEF Links
<1>2. /\ d \in [0..ClusterCount -> Nat] /\ d[0] = t.first
      /\ \A i \in 1..ClusterCount :
           d[i] = IF t.nofat THEN d[i - 1] + 1 ELSE IF d[i - 1] \in FatSlots THEN G[d[i - 1]] ELSE 0
  BY ChainEquation DEF Links
<1>3. s.nofat \/ \A i \in 0..(k - 1) : c[i] \in FatSlots /\ G[c[i]] = F[c[i]]
  OBVIOUS
<1>4. ClusterCount \in Nat /\ k \in Nat
  BY Parameters
<1>. HIDE DEF c, d
<1>5. 0 \in T
  BY <1>1, <1>2, <1>4
<1>6. ASSUME NEW i \in 1..k, i - 1 \in T PROVE i \in T
  <2>1. i \in 1..ClusterCount /\ i - 1 \in 0..(k - 1) /\ i \in 0..k
    BY <1>4
  <2>2. d[i - 1] = c[i - 1]
    BY <1>6
  <2>. QED
    BY <1>1, <1>2, <1>3, <2>1, <2>2
<1>. HIDE DEF T
<1>7. \A i \in 0..k : i \in T
  BY <1>4, <1>5, <1>6, IntervalInduction
<1>. QED
  BY <1>7 DEF T, c, d

(* So a chain stays laid while its own links stay.                         *)
LEMMA LaidSame ==
    ASSUME NEW F \in Links, NEW G \in Links, NEW s, Located(s), NEW t, Located(t), Laid(F, s),
           t.first = s.first, t.nofat = s.nofat, Count(t) <= Count(s), t.data = 0 => t.first = 0,
           s.nofat \/ \A i \in 0..(Count(t) - 2) : G[ChainIn(F, s)[i]] = F[ChainIn(F, s)[i]]
    PROVE  /\ Laid(G, t)
           /\ \A i \in 0..(Count(t) - 1) : ChainIn(G, t)[i] = ChainIn(F, s)[i]
<1>1. Count(s) \in Nat /\ Count(t) \in Nat /\ Count(t) <= ClusterCount /\ ClusterCount \in Nat
  BY Counted, Parameters DEF Laid
<1>2. CASE Count(t) = 0
  BY <1>1, <1>2 DEF Laid
<1>3. CASE Count(t) # 0
  <2>. DEFINE k == Count(t) - 1
  <2>1. k \in 0..ClusterCount /\ k - 1 = Count(t) - 2 /\ k \in Nat /\ k <= Count(s) - 1
    BY <1>1, <1>3
  <2>2. \A i \in 0..(k - 1) : ChainIn(F, s)[i] \in FatSlots
    <3>1. \A i \in 0..(k - 1) : i \in 0..(Count(s) - 1)
      BY <1>1, <2>1
    <3>2. Clusters \subseteq FatSlots
      BY Parameters DEF Clusters, FatSlots
    <3>. QED
      BY <3>1, <3>2 DEF Laid
  <2>3. s.nofat \/ \A i \in 0..(k - 1) : G[ChainIn(F, s)[i]] = F[ChainIn(F, s)[i]]
    BY <2>1
  <2>. HIDE DEF k
  <2>4. \A i \in 0..k : ChainIn(G, t)[i] = ChainIn(F, s)[i]
    BY <2>1, <2>2, <2>3, SameChain
  <2>5. \A i \in 0..k : i \in 0..(Count(s) - 1)
    BY <1>1, <2>1
  <2>. QED
    BY <1>1, <2>4, <2>5 DEF Laid, k
<1>. QED
  BY <1>2, <1>3
(* The same for the links of one stream.                                   *)
LEMMA LaidStays ==
    ASSUME NEW F \in Links, NEW G \in Links, NEW s, Located(s), Laid(F, s),
           \A i \in 0..(Count(s) - 2) : G[ChainIn(F, s)[i]] = F[ChainIn(F, s)[i]]
    PROVE  /\ Laid(G, s)
           /\ \A i \in 0..(Count(s) - 1) : ChainIn(G, s)[i] = ChainIn(F, s)[i]
<1>1. Count(s) <= Count(s) /\ (s.data = 0 => s.first = 0)
  BY Counted DEF Laid
<1>. QED
  BY <1>1, LaidSame

(* There are no more clusters in a chain than in the heap.                 *)
LEMMA Pigeonhole ==
    ASSUME NEW n \in Nat, NEW g \in [0..(n - 1) -> Clusters],
           \A i, j \in 0..(n - 1) : g[i] = g[j] => i = j
    PROVE  n <= ClusterCount
<1>1. ClusterCount \in Nat /\ IsFiniteSet(Clusters) /\ Cardinality(Clusters) = ClusterCount
  BY FS_Interval, Parameters DEF Clusters
<1>2. IsFiniteSet(0..(n - 1)) /\ Cardinality(0..(n - 1)) = n
  BY FS_Interval
<1>3. g \in Injection(0..(n - 1), Clusters)
  BY Fun_IsInj
<1>. QED
  BY <1>1, <1>2, <1>3, FS_Injection

(* A chain with a link to a cluster it does not have is one longer.        *)
LEMMA LaidExtended ==
    ASSUME NEW F \in Links, NEW G \in Links, NEW s, Located(s), NEW t, Located(t), Laid(F, s),
           s.data # 0, t.first = s.first, ~s.nofat, ~t.nofat, t.data = s.data + ClusterBytes,
           NEW new \in Clusters, \A i \in 0..(Count(s) - 1) : ChainIn(F, s)[i] # new,
           G[ChainIn(F, s)[Count(s) - 1]] = new,
           \A c \in FatSlots : c # ChainIn(F, s)[Count(s) - 1] => G[c] = F[c]
    PROVE  /\ Laid(G, t) /\ Count(t) = Count(s) + 1
           /\ \A i \in 0..(Count(s) - 1) : ChainIn(G, t)[i] = ChainIn(F, s)[i]
           /\ ChainIn(G, t)[Count(s)] = new
<1>. DEFINE c == ChainIn(F, s)
            n == Count(s)
            d == ChainIn(G, t)
<1>1. n \in Nat \ {0} /\ Count(t) = n + 1 /\ n <= ClusterCount /\ ClusterCount \in Nat
  <2>1. n \in Nat \ {0} /\ s.data \in Nat
    BY Counted DEF Located
  <2>. QED
    BY <2>1, ClusterCounts, Parameters DEF Count, Laid
<1>2. /\ \A i \in 0..(n - 1) : c[i] \in Clusters /\ c[i] # new
      /\ \A i, j \in 0..(n - 1) : c[i] = c[j] => i = j
  BY DEF Laid
<1>3. n + 1 <= ClusterCount
  <2>. DEFINE g == [i \in 0..n |-> IF i = n THEN new ELSE c[i]]
  <2>1. \A i \in 0..n : i = n \/ i \in 0..(n - 1)
    BY <1>1
  <2>2. g \in [0..((n + 1) - 1) -> Clusters]
    BY <1>1, <1>2, <2>1
  <2>3. \A i, j \in 0..((n + 1) - 1) : g[i] = g[j] => i = j
    BY <1>1, <1>2, <2>1
  <2>. HIDE DEF g, c, n
  <2>. QED
    BY <1>1, <2>2, <2>3, Pigeonhole
<1>. HIDE DEF n
<1>4. \A i \in 0..(n - 1) : d[i] = c[i]
  <2>1. n - 1 \in 0..ClusterCount /\ Clusters \subseteq FatSlots
    BY <1>1, Parameters DEF Clusters, FatSlots
  <2>2. \A i \in 0..(n - 1 - 1) : c[i] \in FatSlots /\ G[c[i]] = F[c[i]]
    <3>1. \A i \in 0..(n - 1 - 1) : i \in 0..(n - 1) /\ i # n - 1 /\ n - 1 \in 0..(n - 1)
      BY <1>1
    <3>2. \A i \in 0..(n - 1 - 1) : c[i] # c[n - 1] /\ c[i] \in FatSlots
      BY <1>2, <2>1, <3>1
    <3>3. \A e \in FatSlots : e # c[n - 1] => G[e] = F[e]
      BY DEF n
    <3>. QED
      BY <3>2, <3>3
  <2>3. s.nofat = t.nofat
    BY DEF Located
  <2>. DEFINE k == n - 1
  <2>. HIDE DEF k
  <2>4. k \in 0..ClusterCount /\ \A i \in 0..(k - 1) : c[i] \in FatSlots /\ G[c[i]] = F[c[i]]
    BY <2>1, <2>2 DEF k
  <2>5. \A i \in 0..k : ChainIn(G, t)[i] = ChainIn(F, s)[i]
    BY ONLY <2>3, <2>4, F \in Links, G \in Links, Located(s), Located(t), t.first = s.first, SameChain
  <2>6. \A i \in 0..(n - 1) : ChainIn(G, t)[i] = ChainIn(F, s)[i]
    BY <2>5 DEF k
  <2>. QED
    BY <2>6
<1>5. d[n] = new
  <2>1. n \in 1..ClusterCount /\ n - 1 \in 0..(n - 1)
    BY <1>1
  <2>2. \A i \in 1..ClusterCount : d[i] = IF d[i - 1] \in FatSlots THEN G[d[i - 1]] ELSE 0
    <3>1. G \in [FatSlots -> Nat]
      BY DEF Links
    <3>2. \A i \in 1..ClusterCount : d[i] = IF t.nofat THEN d[i - 1] + 1
                                          ELSE IF d[i - 1] \in FatSlots THEN G[d[i - 1]] ELSE 0
      BY ONLY <3>1, Located(t), ChainEquation
    <3>. QED
      BY <3>2
  <2>3. d[n - 1] = c[n - 1] /\ c[n - 1] \in Clusters /\ c[n - 1] \in FatSlots
    <3>1. Clusters \subseteq FatSlots
      BY Parameters DEF Clusters, FatSlots
    <3>. HIDE DEF c, d
    <3>. QED
      BY <1>2, <1>4, <2>1, <3>1
  <2>4. G[c[n - 1]] = new
    BY DEF n
  <2>. HIDE DEF d, c
  <2>. QED
    BY <2>1, <2>2, <2>3, <2>4
<1>6. Laid(G, t)
  <2>. HIDE DEF c, d
  <2>1. \A i \in 0..n : i = n \/ i \in 0..(n - 1)
    BY <1>1
  <2>2. 0..(Count(t) - 1) = 0..n
    BY <1>1
  <2>3. \A i \in 0..n : d[i] \in Clusters
    BY <1>2, <1>4, <1>5, <2>1
  <2>4. \A i, j \in 0..n : d[i] = d[j] => i = j
    BY <1>2, <1>4, <1>5, <2>1
  <2>5. t.data # 0
    BY Parameters DEF Located
  <2>. QED
    BY <1>1, <1>3, <2>2, <2>3, <2>4, <2>5 DEF Laid, d, n
<1>. QED
  BY <1>1, <1>4, <1>5, <1>6 DEF n

(* A contiguous stretch with the next cluster is one longer, whatever the  *)
(* FAT says.                                                               *)
LEMMA StretchExtended ==
    ASSUME NEW F \in Links, NEW G \in Links, NEW s, Located(s), NEW t, Located(t), Laid(F, s),
           s.data # 0, t.first = s.first, s.nofat, t.nofat, t.data = s.data + ClusterBytes,
           s.first + Count(s) \in Clusters
    PROVE  /\ Laid(G, t) /\ Count(t) = Count(s) + 1
           /\ \A i \in 0..(Count(s) - 1) : ChainIn(G, t)[i] = ChainIn(F, s)[i]
           /\ ChainIn(G, t)[Count(s)] = s.first + Count(s)
<1>. DEFINE n == Count(s)
<1>1. n \in Nat \ {0} /\ Count(t) = n + 1 /\ n <= ClusterCount /\ ClusterCount \in Nat
  <2>1. n \in Nat \ {0} /\ s.data \in Nat
    BY Counted DEF Located
  <2>. QED
    BY <2>1, ClusterCounts, Parameters DEF Count, Laid
<1>2. s.first \in Clusters /\ s.first \in Nat
  <2>1. 0 \in 0..(n - 1)
    BY <1>1
  <2>2. ChainIn(F, s)[0] = s.first
    BY ChainEquation DEF Links
  <2>. QED
    BY <2>1, <2>2, Parameters DEF Laid
<1>3. n + 1 <= ClusterCount
  BY <1>1, <1>2 DEF Clusters
<1>4. /\ \A i \in 0..ClusterCount : ChainIn(F, s)[i] = s.first + i
      /\ \A i \in 0..ClusterCount : ChainIn(G, t)[i] = s.first + i
  BY Contiguous
<1>5. \A i \in 0..n : i \in 0..ClusterCount /\ s.first + i \in Clusters
  BY <1>1, <1>2, <1>3 DEF Clusters
<1>6. t.data # 0
  BY Parameters DEF Located
<1>. HIDE DEF n
<1>7. 0..(Count(t) - 1) = 0..n /\ \A i \in 0..(n - 1) : i \in 0..n
  BY <1>1
<1>8. \A i \in 0..n : ChainIn(G, t)[i] = s.first + i /\ ChainIn(F, s)[i] = s.first + i
  BY <1>4, <1>5
<1>9. \A i, j \in 0..n : ChainIn(G, t)[i] = ChainIn(G, t)[j] => i = j
  BY <1>1, <1>2, <1>8
<1>10. Laid(G, t)
  BY <1>1, <1>3, <1>5, <1>6, <1>7, <1>8, <1>9 DEF Laid
<1>11. n \in 0..n
  BY <1>1
<1>. QED
  BY <1>1, <1>7, <1>8, <1>10, <1>11 DEF n

(* One cluster is a chain.                                                 *)
LEMMA LaidFirst ==
    ASSUME NEW G \in Links, NEW t, Located(t), t.first \in Clusters, t.data = 0 + ClusterBytes
    PROVE  Laid(G, t) /\ Count(t) = 1 /\ ChainIn(G, t)[0] = t.first
<1>1. Count(t) = 1 /\ 0..(Count(t) - 1) = {0} /\ 1 <= ClusterCount
  <2>1. CeilDiv(0 + ClusterBytes, ClusterBytes) = CeilDiv(0, ClusterBytes) + 1
    BY ClusterCounts
  <2>2. CeilDiv(0, ClusterBytes) = 0
    BY ClusterCounts
  <2>3. Count(t) = 1
    BY <2>1, <2>2 DEF Count
  <2>. QED
    BY <2>3, Parameters
<1>2. ChainIn(G, t)[0] = t.first
  BY ChainEquation DEF Links
<1>3. t.data # 0
  BY Parameters
<1>. QED
  BY <1>1, <1>2, <1>3 DEF Laid

(* When all its links are written, a contiguous stretch is a chain.        *)
LEMMA StretchLinked ==
    ASSUME NEW F \in Links, NEW s, Located(s), NEW t, Located(t), Laid(F, s), s.nofat, ~t.nofat,
           t.first = s.first, t.data = s.data,
           \A i \in 0..(Count(s) - 2) : F[s.first + i] = s.first + i + 1
    PROVE  /\ Laid(F, t) /\ Count(t) = Count(s)
           /\ \A i \in 0..(Count(s) - 1) : ChainIn(F, t)[i] = ChainIn(F, s)[i]
<1>. DEFINE n == Count(s)
            d == ChainIn(F, t)
<1>1. n \in Nat /\ Count(t) = n /\ n <= ClusterCount /\ ClusterCount \in Nat /\ s.first \in Nat
  BY Counted, Parameters DEF Laid, Count
<1>2. \A i \in 0..ClusterCount : ChainIn(F, s)[i] = s.first + i
  BY Contiguous
<1>3. CASE n = 0
  BY <1>1, <1>3 DEF Laid
<1>4. CASE n # 0
  <2>. DEFINE T == {i \in 0..(n - 1) : d[i] = s.first + i}
  <2>1. /\ d[0] = t.first
        /\ \A i \in 1..ClusterCount : d[i] = IF d[i - 1] \in FatSlots THEN F[d[i - 1]] ELSE 0
    BY ChainEquation DEF Links
  <2>2. \A i \in 0..(n - 1) : s.first + i \in Clusters
    BY <1>1, <1>2 DEF Laid
  <2>. HIDE DEF d
  <2>3. 0 \in T
    BY <1>1, <1>4, <2>1
  <2>4. ASSUME NEW i \in 1..(n - 1), i - 1 \in T PROVE i \in T
    <3>1. /\ i \in 1..ClusterCount /\ i - 1 \in 0..(n - 2) /\ i - 1 \in 0..(n - 1) /\ i \in 0..(n - 1)
          /\ s.first + (i - 1) + 1 = s.first + i
      BY <1>1
    <3>2. d[i - 1] = s.first + (i - 1) /\ s.first + (i - 1) \in FatSlots
      BY <2>2, <2>4, <3>1, Parameters DEF Clusters, FatSlots
    <3>3. F[s.first + (i - 1)] = s.first + i
      BY <3>1
    <3>. QED
      BY <2>1, <3>1, <3>2, <3>3
  <2>. HIDE DEF T
  <2>5. n - 1 \in Nat
    BY <1>1, <1>4
  <2>6. \A i \in 0..(n - 1) : i \in T
    BY <2>3, <2>4, <2>5, IntervalInduction
  <2>7. \A i \in 0..(n - 1) : d[i] = ChainIn(F, s)[i]
    BY <1>1, <1>2, <2>6 DEF T
  <2>. QED
    BY <1>1, <2>7 DEF Laid, d
<1>. QED
  BY <1>3, <1>4

-----------------------------------------------------------------------------
(* The layout of the volume and of the operation in progress.              *)

(* The cluster a handle remembers is the one at the remembered index.      *)
CacheHolds(F, h) ==
    h.cachedIndex # None =>
        /\ h.open
        /\ h.nofat \/ /\ h.cachedIndex \in 0..(Count(h) - 1)
                      /\ h.cachedCluster = ChainIn(F, h)[h.cachedIndex]

(* A growing handle goes on where the one that append has put aside ends.  *)
Growth ==
    /\ Laid(fat, mine)
    /\ CacheHolds(fat, op.saved)
    /\ op.saved.data # 0 => mine.first = op.saved.first /\ (mine.nofat => op.saved.nofat)
    /\ op.saved.data <= mine.data

InChain(c) == \E i \in 0..(Count(mine) - 1) : ChainIn(fat, mine)[i] = c

(* Where the walks stand, which cluster is the tail, that the new cluster  *)
(* is new, and which links a materialisation has written.                  *)
CursorsPlaced ==
    /\ op.pc \in {"grow", "claim", "mark", "terminate"} => op.idx = 0
    /\ At("tail") => op.idx \in 0..(Count(mine) - 1) /\ op.cl = ChainIn(fat, mine)[op.idx]
    /\ op.pc \in {"claim", "mark", "terminate", "materialize", "link"} /\ mine.data # 0 =>
         op.tail = ChainIn(fat, mine)[Count(mine) - 1]
    /\ op.pc \in {"materialize", "link"} => mine.data # 0 /\ ~InChain(op.new)
    /\ At("materialize") =>
         /\ op.idx < Count(mine)
         /\ \A i \in 0..(op.idx - 1) : fat[mine.first + i] = mine.first + i + 1
    /\ At("walk") => ~mine.nofat /\ op.idx <= Wanted /\ op.cl = ChainIn(fat, mine)[op.idx]
    /\ At("transfer") => op.cl = ChainIn(fat, mine)[Wanted]

Layout ==
    /\ \A f \in live : Laid(fat, sealed[f])
    /\ \A f \in Files : CacheHolds(fat, handle[f])
    /\ op.kind = "append" => Growth
    /\ CursorsPlaced

(* What is known of a state when the layout is to be kept.                 *)
Laying(o) == Owning(o) /\ HandleInv /\ LengthsOK /\ Layout /\ WholeClusters

(* An open handle leads to clusters of its file, each once.                *)
LEMMA HandleLaid ==
    ASSUME NEW o, Laying(o), NEW f \in Files, handle[f].open
    PROVE  /\ f \in live /\ Owns(o, f, handle[f]) /\ Located(handle[f]) /\ Laid(fat, handle[f])
           /\ handle[f].data % ClusterBytes = 0
<1>1. /\ f \in live /\ Owns(o, f, handle[f]) /\ handle[f] \in HandleType
      /\ handle[f].data % ClusterBytes = 0
  BY DEF Laying, Owning, Owned, HandlesOwned, TypeOK, MemoryTypeOK, LengthsOK, Fits
<1>2. Located(handle[f])
  BY <1>1 DEF HandleType, Located
<1>3. ASSUME HandleMatches(f) PROVE Laid(fat, handle[f])
  <2>1. StreamOf(handle[f]) = sealed[f] /\ Laid(fat, sealed[f]) /\ fat \in Links
    BY <1>1, <1>3 DEF HandleMatches, Laying, Layout, Owning, TypeOK, VolumeTypeOK, Links
  <2>2. /\ sealed[f].first = handle[f].first /\ sealed[f].data = handle[f].data
        /\ sealed[f].nofat = handle[f].nofat /\ Located(sealed[f])
    BY <1>2, <2>1 DEF StreamOf, Located
  <2>3. Count(sealed[f]) = Count(handle[f]) /\ Count(handle[f]) \in Nat
    BY <1>2, <2>2, Counted DEF Count
  <2>. QED
    BY <1>2, <2>1, <2>2, <2>3, LaidSame DEF Laid
<1>4. op.file # f => Laid(fat, handle[f])
  BY <1>3 DEF Laying, HandleInv, HandlesMatch
<1>5. ASSUME op.file = f PROVE Laid(fat, handle[f])
  <2>1. ~At("idle")
    BY <1>5, Parameters, IdleFields DEF Laying, Owning, KindOK
  <2>2. op.kind \in {"append", "read", "write", "remove"} /\ mine = handle[f]
    BY <1>5, <2>1, OwningCall DEF Laying
  <2>3. CASE op.kind = "append"
    BY <2>2, <2>3 DEF Laying, Layout, Growth
  <2>4. CASE op.kind # "append"
    BY <1>3, <1>5, <2>2, <2>4 DEF Laying, HandleInv, CallMatches
  <2>. QED
    BY <2>3, <2>4
<1>. QED
  BY <1>1, <1>2, <1>4, <1>5

(* The operation in progress and its file.                                 *)
LEMMA LayingCall ==
    ASSUME NEW o, Laying(o), ~At("idle"), op.kind # "remove"
    PROVE  /\ op \in OpType /\ op.file \in Files /\ op.file # None /\ op.file \in live
           /\ mine = handle[op.file] /\ mine \in HandleType /\ handle \in [Files -> HandleType]
           /\ op.kind \in {"append", "read", "write"} /\ mine.open
           /\ Owns(o, op.file, mine) /\ Located(mine) /\ Laid(fat, mine)
           /\ mine.data % ClusterBytes = 0 /\ Count(mine) \in Nat /\ mine.first \in Nat
           /\ mine.data = 0 <=> Count(mine) = 0
           /\ mine.data = 0 <=> mine.first = 0
<1>1. /\ op \in OpType /\ op.file \in Files /\ op.file # None /\ op.file \in live
      /\ mine = handle[op.file] /\ mine \in HandleType /\ handle \in [Files -> HandleType]
      /\ op.kind \in {"append", "read", "write"} /\ mine.open
  BY OwningCall DEF Laying
<1>2. /\ Owns(o, op.file, mine) /\ Located(mine) /\ Laid(fat, mine)
      /\ mine.data % ClusterBytes = 0
  BY <1>1, HandleLaid
<1>3. mine.data = 0 <=> mine.first = 0
  BY <1>2 DEF Owns, Laid
<1>. QED
  BY <1>1, <1>2, <1>3, Counted

(* A link that leaves the clusters of a file leaves its chains.            *)
LEMMA ChainKept ==
    ASSUME NEW o, Laying(o), fat' \in Links, NEW x \in Clusters,
           \A c \in FatSlots : c # x => fat'[c] = fat[c], NEW f \in Files, o[x] # f, NEW s, Located(s), Owns(o, f, s), Laid(fat, s)
    PROVE  /\ Laid(fat', s)
           /\ \A i \in 0..(Count(s) - 1) : ChainIn(fat', s)[i] = ChainIn(fat, s)[i]
<1>1. TypeOK /\ o \in OwnerMaps /\ LinksOwned(o) /\ fat \in [FatSlots -> Nat] /\ fat \in Links
  BY DEF Laying, Owning, Owned, TypeOK, VolumeTypeOK, Links
<1>2. Count(s) \in Nat /\ Count(s) <= ClusterCount /\ ClusterCount \in Nat
  BY Counted, Parameters DEF Laid
<1>3. ASSUME NEW i \in 0..(Count(s) - 2) PROVE fat'[ChainIn(fat, s)[i]] = fat[ChainIn(fat, s)[i]]
  <2>1. i \in 0..ClusterCount /\ i < Count(s) /\ i \in 0..(Count(s) - 1)
    BY <1>2
  <2>2. ChainIn(fat, s)[i] \in Clusters
    BY <2>1 DEF Laid
  <2>3. o[ChainIn(fat, s)[i]] = f
    BY <1>1, <2>1, <2>2, ChainOwned DEF Count
  <2>4. ChainIn(fat, s)[i] # x /\ ChainIn(fat, s)[i] \in FatSlots
    BY <2>2, <2>3, Parameters DEF Clusters, FatSlots
  <2>. HIDE DEF ChainIn
  <2>. QED
    BY <1>1, <2>4
<1>. QED
  BY ONLY <1>1, <1>3, fat' \in Links, Located(s), Laid(fat, s), LaidStays

(* So what a handle remembers stays right.                                 *)
LEMMA CacheKept ==
    ASSUME NEW h, Located(h), CacheHolds(fat, h), NEW G,
           \A i \in 0..(Count(h) - 1) : ChainIn(G, h)[i] = ChainIn(fat, h)[i]
    PROVE  CacheHolds(G, h)
BY DEF CacheHolds

(* A step that changes a link of its own file or of a new cluster leaves   *)
(* the other files' records and handles.                                   *)
LEMMA OthersKept ==
    ASSUME NEW o, Laying(o), ~At("idle"), TypeOK', NEW x \in Clusters,
           \A c \in FatSlots : c # x => fat'[c] = fat[c], o[x] \in {None, op.file}
    PROVE  /\ \A f \in live : f # op.file => Laid(fat', sealed[f])
           /\ \A f \in Files : f # op.file => CacheHolds(fat', handle[f])
<1>1. fat' \in Links /\ None \notin Files /\ live \subseteq Files /\ sealed \in [Files -> Stream]
  BY Parameters DEF TypeOK, VolumeTypeOK, Links, Laying, Owning
<1>2. ASSUME NEW f \in live, f # op.file PROVE Laid(fat', sealed[f])
  <2>1. Located(sealed[f]) /\ Owns(o, f, sealed[f]) /\ Laid(fat, sealed[f]) /\ o[x] # f /\ f \in Files
    <3>1. sealed[f] \in Stream /\ o[x] # f /\ f \in Files
      BY <1>1, <1>2
    <3>. QED
      BY <3>1 DEF Stream, Located, Laying, Owning, Owned, RecordsOwned, Layout
  <2>. QED
    BY <1>1, <2>1, ChainKept
<1>3. ASSUME NEW f \in Files, f # op.file PROVE CacheHolds(fat', handle[f])
  <2>1. CASE handle[f].cachedIndex = None
    BY <2>1 DEF CacheHolds
  <2>2. CASE handle[f].cachedIndex # None
    <3>1. handle[f].open /\ CacheHolds(fat, handle[f])
      BY <2>2 DEF Laying, Layout, CacheHolds
    <3>2. Owns(o, f, handle[f]) /\ Located(handle[f]) /\ Laid(fat, handle[f])
      BY <3>1, HandleLaid
    <3>3. o[x] # f
      BY <1>1, <1>3
    <3>4. \A i \in 0..(Count(handle[f]) - 1) : ChainIn(fat', handle[f])[i] = ChainIn(fat, handle[f])[i]
      BY <1>1, <3>2, <3>3, ChainKept
    <3>. QED
      BY <3>1, <3>2, <3>4, CacheKept
  <2>. QED
    BY <2>1, <2>2
<1>. QED
  BY <1>2, <1>3

-----------------------------------------------------------------------------
(* How a step keeps the layout.                                            *)

(* Records and handles that say the same of where the file lies.           *)
LEMMA SamePlaces ==
    ASSUME NEW F \in Links, NEW s, NEW t, Located(s), Laid(F, s),
           t.first = s.first, t.data = s.data, t.nofat = s.nofat
    PROVE  /\ Located(t) /\ Laid(F, t) /\ Count(t) = Count(s)
           /\ \A i \in 0..(Count(s) - 1) : ChainIn(F, t)[i] = ChainIn(F, s)[i]
<1>1. Located(t) /\ Count(t) = Count(s) /\ Count(s) \in Nat
  BY Counted DEF Located, Count
<1>2. Count(t) <= Count(s) /\ (t.data = 0 => t.first = 0)
  BY <1>1 DEF Laid
<1>. QED
  BY <1>1, <1>2, LaidSame

(* An operation moves on without touching the volume or a handle.          *)
LEMMA LocalLaid ==
    ASSUME NEW o, Laying(o), UNCHANGED <<fat, live, sealed, handle>>, Continues, CursorsPlaced'
    PROVE  Layout'
BY DEF Laying, Layout, Growth, Continues, mine

(* It changes its own handle, or a link.                                   *)
LEMMA Relaid ==
    ASSUME NEW o, Laying(o), ~At("idle"), NEW h, SetMine(h), live' = live,
           \A f \in live : Laid(fat', sealed'[f]),
           \A f \in Files : f # op.file => CacheHolds(fat', handle[f]), CacheHolds(fat', h),
           op'.kind = "append" => Growth', CursorsPlaced'
    PROVE  Layout'
<1>1. op.file \in Files /\ handle' = [handle EXCEPT ![op.file] = h] /\ handle \in [Files -> HandleType]
  BY OwningCall DEF Laying, SetMine
<1>2. \A f \in Files : handle'[f] = IF f = op.file THEN h ELSE handle[f]
  BY <1>1
<1>. QED
  BY <1>2 DEF Layout

(* It ends, with its own handle changed.                                   *)
LEMMA EndLaid ==
    ASSUME NEW o, Laying(o), ~At("idle"), NEW h, SetMine(h), live' = live, fat' = fat,
           \A f \in live : Laid(fat, sealed'[f]), CacheHolds(fat, h), op' = Idle
    PROVE  Layout'
<1>1. CursorsPlaced' /\ op'.kind = "none"
  BY IdleFields DEF CursorsPlaced, At
<1>2. \A f \in Files : CacheHolds(fat, handle[f])
  BY DEF Laying, Layout
<1>. QED
  BY <1>1, <1>2, Relaid

(* What append has put aside is the sealed record of its file.             *)
LEMMA SavedLaid ==
    ASSUME NEW o, Laying(o), op.kind = "append"
    PROVE  /\ op.saved.open /\ Owns(o, op.file, op.saved) /\ Located(op.saved) /\ Laid(fat, op.saved)
           /\ op.saved \in HandleType /\ op.file \in live /\ op.file \in Files
           /\ CacheHolds(fat, op.saved) /\ Laid(fat, mine) /\ Count(op.saved) <= Count(mine)
           /\ op.saved.first = sealed[op.file].first /\ op.saved.data = sealed[op.file].data
           /\ op.saved.nofat = sealed[op.file].nofat /\ Located(sealed[op.file])
<1>1. ~At("idle")
  BY IdleFields DEF Laying, Owning, KindOK
<1>2. op.saved \in HandleType /\ op.file \in live /\ op.file \in Files /\ Located(mine)
  BY <1>1, LayingCall DEF OpType
<1>3. Located(op.saved) /\ sealed[op.file] \in Stream
  BY <1>2 DEF HandleType, Located, Laying, Owning, TypeOK, VolumeTypeOK
<1>4. op.saved.open /\ StreamOf(op.saved) = sealed[op.file] /\ Laid(fat, sealed[op.file])
  BY <1>2 DEF Laying, HandleInv, CallMatches, Layout
<1>5. /\ op.saved.first = sealed[op.file].first /\ op.saved.data = sealed[op.file].data
      /\ op.saved.nofat = sealed[op.file].nofat /\ Located(sealed[op.file])
  BY <1>3, <1>4 DEF StreamOf, Located
<1>6. Laid(fat, op.saved)
  <2>1. fat \in Links
    BY DEF Laying, Owning, TypeOK, VolumeTypeOK, Links
  <2>. QED
    BY <1>4, <1>5, <2>1, SamePlaces
<1>7. Owns(o, op.file, op.saved)
  BY DEF Laying, Owning, Owned, CallOwned
<1>8. CacheHolds(fat, op.saved) /\ Laid(fat, mine) /\ Count(op.saved) <= Count(mine)
  <2>1. op.saved.data <= mine.data /\ CacheHolds(fat, op.saved) /\ Laid(fat, mine)
    BY DEF Laying, Layout, Growth
  <2>2. op.saved.data \in Nat /\ mine.data \in Nat
    BY <1>2, <1>3 DEF Located
  <2>. QED
    BY <2>1, <2>2, CeilMonotone DEF Count
<1>. QED
  BY <1>2, <1>3, <1>4, <1>5, <1>6, <1>7, <1>8

(* A step that leaves the links of the growing handle, but perhaps that of *)
(* its tail, leaves the chain of the record and the handle put aside.      *)
LEMMA SavedKept ==
    ASSUME NEW o, Laying(o), op.kind = "append", fat' \in Links,
           mine.nofat \/ \A i \in 0..(Count(mine) - 2) :
                            fat'[ChainIn(fat, mine)[i]] = fat[ChainIn(fat, mine)[i]]
    PROVE  Laid(fat', sealed[op.file]) /\ CacheHolds(fat', op.saved)
<1>1. /\ Located(op.saved) /\ Laid(fat, op.saved) /\ CacheHolds(fat, op.saved)
      /\ Count(op.saved) <= Count(mine) /\ Laid(fat, mine)
      /\ op.saved.first = sealed[op.file].first /\ op.saved.data = sealed[op.file].data
      /\ op.saved.nofat = sealed[op.file].nofat /\ Located(sealed[op.file])
  BY SavedLaid
<1>2. ~At("idle") /\ fat \in Links
  BY IdleFields DEF Laying, Owning, KindOK, TypeOK, VolumeTypeOK, Links
<1>3. Located(mine) /\ Count(mine) \in Nat /\ Count(op.saved) \in Nat
  BY <1>1, <1>2, LayingCall, Counted
<1>4. op.saved.data # 0 => mine.first = op.saved.first /\ (mine.nofat => op.saved.nofat)
  BY DEF Laying, Layout, Growth
<1>5. /\ Laid(fat', op.saved)
      /\ \A i \in 0..(Count(op.saved) - 1) : ChainIn(fat', op.saved)[i] = ChainIn(fat, op.saved)[i]
  <2>1. Count(op.saved) <= Count(op.saved) /\ (op.saved.data = 0 => op.saved.first = 0)
    BY <1>1, <1>3 DEF Laid
  <2>2. CASE op.saved.nofat
    BY <1>1, <1>2, <2>1, <2>2, LaidSame
  <2>3. CASE op.saved.data = 0
    <3>1. Count(op.saved) = 0
      BY <1>1, <2>3, Counted
    <3>. QED
      BY <1>1, <3>1 DEF Laid
  <2>4. CASE ~op.saved.nofat /\ op.saved.data # 0
    <3>1. mine.first = op.saved.first /\ mine.nofat = op.saved.nofat /\ ~mine.nofat
      BY <1>1, <1>3, <1>4, <2>4 DEF Located
    <3>2. \A i \in 0..(Count(op.saved) - 2) : i \in 0..(Count(mine) - 2)
      BY <1>1, <1>3
    <3>3. /\ Laid(fat', op.saved)
          /\ \A i \in 0..(Count(op.saved) - 1) : ChainIn(fat', op.saved)[i] = ChainIn(fat, mine)[i]
      BY <1>1, <1>2, <1>3, <2>1, <3>1, <3>2, LaidSame
    <3>4. \A i \in 0..(Count(op.saved) - 1) : ChainIn(fat, op.saved)[i] = ChainIn(fat, mine)[i]
      BY <1>1, <1>2, <1>3, <2>1, <3>1, LaidSame
    <3>. QED
      BY <3>3, <3>4
  <2>. QED
    BY <2>2, <2>3, <2>4
<1>6. CacheHolds(fat', op.saved)
  BY <1>1, <1>5, CacheKept
<1>7. Laid(fat', sealed[op.file])
  BY <1>1, <1>5, SamePlaces
<1>. QED
  BY <1>6, <1>7

-----------------------------------------------------------------------------
(* The growth loop.                                                        *)

(* The steps that look for the tail.                                       *)
LEMMA GrowLaid ==
    ASSUME NEW o, Laying(o), GrowEmpty \/ GrowContiguous \/ GrowChained
    PROVE  Layout'
<1>1. op.pc = "grow" /\ ~At("idle") /\ op.kind = "append"
  BY DEF GrowEmpty, GrowContiguous, GrowChained, Growing, At, Laying, Owning, KindOK
<1>2. /\ op \in OpType /\ Located(mine) /\ Laid(fat, mine) /\ fat \in Links
      /\ mine.data % ClusterBytes = 0 /\ Count(mine) \in Nat /\ mine.first \in Nat
      /\ mine.data = 0 <=> Count(mine) = 0
      /\ mine.data = 0 <=> mine.first = 0
      /\ op.idx = 0
  BY <1>1, LayingCall DEF Laying, Owning, TypeOK, VolumeTypeOK, Links, Layout, CursorsPlaced
<1>3. UNCHANGED <<fat, live, sealed, handle>>
  BY DEF GrowEmpty, GrowContiguous, GrowChained, device
<1>4. CASE GrowEmpty
  <2>1. /\ Continues /\ op'.pc = "claim" /\ op'.idx = op.idx /\ mine' = mine /\ mine.first = 0
    BY <1>2, <1>4 DEF GrowEmpty, Goto, Continues, OpType, mine
  <2>2. CursorsPlaced'
    BY <1>2, <2>1 DEF CursorsPlaced, At
  <2>. QED
    BY <1>3, <2>1, <2>2, LocalLaid
<1>5. CASE GrowContiguous
  <2>1. /\ Continues /\ op'.pc = "claim" /\ op'.idx = op.idx /\ mine' = mine /\ mine.nofat
        /\ op'.tail = mine.first + mine.data \div ClusterBytes - 1
    BY <1>2, <1>5 DEF GrowContiguous, Continues, OpType, mine
  <2>2. mine.data \div ClusterBytes = Count(mine)
    BY <1>2, Counted
  <2>3. mine.data # 0 => op'.tail = ChainIn(fat, mine)[Count(mine) - 1]
    <3>1. \A i \in 0..ClusterCount : ChainIn(fat, mine)[i] = mine.first + i
      BY <1>2, <2>1, Contiguous
    <3>2. mine.data # 0 => Count(mine) - 1 \in 0..ClusterCount
      BY <1>2, Parameters DEF Laid
    <3>. HIDE DEF ChainIn
    <3>. QED
      BY <1>2, <2>1, <2>2, <3>1, <3>2
  <2>4. CursorsPlaced'
    BY <1>2, <1>3, <2>1, <2>3 DEF CursorsPlaced, At
  <2>. QED
    BY <1>3, <2>1, <2>4, LocalLaid
<1>6. CASE GrowChained
  <2>1. /\ Continues /\ op'.pc = "tail" /\ op'.idx = op.idx /\ mine' = mine /\ mine.first # 0
        /\ op'.cl = mine.first
    BY <1>2, <1>6 DEF GrowChained, Continues, OpType, mine
  <2>2. ChainIn(fat, mine)[0] = mine.first
    BY <1>2, ChainEquation DEF Links
  <2>3. 0 \in 0..(Count(mine) - 1)
    BY <1>2, <2>1
  <2>4. CursorsPlaced'
    BY <1>2, <1>3, <2>1, <2>2, <2>3 DEF CursorsPlaced, At
  <2>. QED
    BY <1>3, <2>1, <2>4, LocalLaid
<1>. QED
  BY <1>4, <1>5, <1>6

(* A walk that stands on the i-th cluster follows its link to the next.    *)
LEMMA NextInChain ==
    ASSUME NEW F \in Links, NEW s, Located(s), Laid(F, s), ~s.nofat, NEW i \in Nat, i + 1 < Count(s)
    PROVE  F[ChainIn(F, s)[i]] = ChainIn(F, s)[i + 1]
<1>1. /\ i + 1 \in 1..ClusterCount /\ i \in 0..(Count(s) - 1) /\ (i + 1) - 1 = i
  BY Counted, Parameters DEF Laid
<1>2. ChainIn(F, s)[i] \in FatSlots
  <2>1. ChainIn(F, s)[i] \in Clusters
    BY <1>1 DEF Laid
  <2>. QED
    BY <2>1, Parameters DEF Clusters, FatSlots
<1>3. \A j \in 1..ClusterCount :
        ChainIn(F, s)[j] = IF ChainIn(F, s)[j - 1] \in FatSlots THEN F[ChainIn(F, s)[j - 1]] ELSE 0
  BY ChainEquation DEF Links
<1>. DEFINE c == ChainIn(F, s)
<1>4. c[i + 1] = IF c[(i + 1) - 1] \in FatSlots THEN F[c[(i + 1) - 1]] ELSE 0
  BY <1>1, <1>3
<1>. HIDE DEF c
<1>5. c[i] \in FatSlots => c[i + 1] = F[c[i]]
  BY <1>1, <1>4
<1>. QED
  BY <1>2, <1>5 DEF c

(* The walk to the tail.                                                   *)
LEMMA TailLaid ==
    ASSUME NEW o, Laying(o), FollowTail \/ FoundTail
    PROVE  Layout'
<1>1. op.pc = "tail" /\ ~At("idle") /\ op.kind = "append" /\ ~mine.nofat
  BY DEF FollowTail, FoundTail, At, Laying, Owning, KindOK, Owned, CursorsOwned
<1>2. /\ op \in OpType /\ Located(mine) /\ Laid(fat, mine) /\ fat \in Links
      /\ Count(mine) \in Nat /\ (mine.data = 0 <=> Count(mine) = 0)
      /\ op.idx \in 0..(Count(mine) - 1) /\ op.cl = ChainIn(fat, mine)[op.idx]
  BY <1>1, LayingCall DEF Laying, Owning, TypeOK, VolumeTypeOK, Links, Layout, CursorsPlaced, At
<1>3. UNCHANGED <<fat, live, sealed, handle>>
  BY DEF FollowTail, FoundTail, device
<1>4. TailIndex = Count(mine) - 1
  BY <1>2, Counted DEF TailIndex
<1>5. CASE FollowTail
  <2>1. /\ Continues /\ op'.pc = "tail" /\ op'.idx = op.idx + 1 /\ mine' = mine
        /\ op'.cl = fat[op.cl] /\ op.idx < TailIndex
    BY <1>2, <1>5 DEF FollowTail, Continues, OpType, At, mine
  <2>2. op.idx + 1 \in 0..(Count(mine) - 1) /\ op.idx \in Nat /\ op.idx + 1 < Count(mine)
    BY <1>2, <1>4, <2>1
  <2>3. fat[op.cl] = ChainIn(fat, mine)[op.idx + 1]
    BY <1>1, <1>2, <2>2, NextInChain
  <2>4. CursorsPlaced'
    BY <1>3, <2>1, <2>2, <2>3 DEF CursorsPlaced, At
  <2>. QED
    BY <1>3, <2>1, <2>4, LocalLaid
<1>6. CASE FoundTail
  <2>1. /\ Continues /\ op'.pc = "claim" /\ op'.idx = 0 /\ mine' = mine /\ op'.tail = op.cl
        /\ op.idx = TailIndex
    BY <1>2, <1>6 DEF FoundTail, Continues, OpType, mine
  <2>2. CursorsPlaced'
    BY <1>2, <1>3, <1>4, <2>1 DEF CursorsPlaced, At
  <2>. QED
    BY <1>3, <2>1, <2>2, LocalLaid
<1>. QED
  BY <1>5, <1>6

(* A cluster is claimed and its bit is set: the tail stays the tail.       *)
LEMMA ClaimLaid ==
    ASSUME NEW o, Laying(o), Claim \/ MarkUsed
    PROVE  Layout'
<1>1. op.pc \in {"claim", "mark"} /\ ~At("idle") /\ op \in OpType
  BY OwningCall DEF Claim, MarkUsed, At, Laying
<1>2. UNCHANGED <<fat, live, sealed, handle>>
  BY DEF Claim, MarkUsed
<1>3. /\ Continues /\ op'.pc \in {"mark", "terminate"} /\ op'.idx = op.idx /\ op'.tail = op.tail
      /\ mine' = mine
  <2>1. CASE Claim
    BY <1>1, <2>1 DEF Claim, Continues, OpType, mine
  <2>2. CASE MarkUsed
    BY <1>1, <2>2 DEF MarkUsed, Goto, Continues, OpType, mine
  <2>. QED
    BY <2>1, <2>2
<1>4. CursorsPlaced
  BY DEF Laying, Layout
<1>5. CursorsPlaced'
  BY <1>1, <1>2, <1>3, <1>4 DEF CursorsPlaced, At
<1>. QED
  BY <1>2, <1>3, <1>5, LocalLaid

(* A new cluster's FAT entry is terminated: no chain led through it.       *)
LEMMA NewTerminated ==
    ASSUME NEW o, Laying(o), TypeOK', Terminate
    PROVE  /\ \A f \in live : Laid(fat', sealed[f])
           /\ \A f \in Files : CacheHolds(fat', handle[f])
           /\ CacheHolds(fat', op.saved)
           /\ Laid(fat', mine)
           /\ \A i \in 0..(Count(mine) - 1) : ChainIn(fat', mine)[i] = ChainIn(fat, mine)[i]
           /\ fat \in Links /\ fat' \in Links /\ op.new \in Clusters
           /\ ~At("idle") /\ op.kind = "append" /\ ~InChain(op.new) /\ op.idx = 0
           /\ mine.data # 0 => op.tail = ChainIn(fat, mine)[Count(mine) - 1]
<1>1. /\ ~At("idle") /\ op.kind = "append" /\ op.new \in Clusters /\ op.idx = 0
      /\ mine.data # 0 => op.tail = ChainIn(fat, mine)[Count(mine) - 1]
  BY DEF Terminate, At, Laying, Owning, KindOK, TypeOK, OpTypeOK, Layout, CursorsPlaced
<1>2. /\ op.file \in Files /\ op.file # None /\ op.file \in live /\ mine = handle[op.file]
      /\ Owns(o, op.file, mine) /\ Located(mine) /\ Laid(fat, mine) /\ Count(mine) \in Nat
  BY <1>1, LayingCall
<1>3. fat \in Links /\ fat' \in Links
  BY DEF Laying, Owning, TypeOK, VolumeTypeOK, Links
<1>4. o[op.new] = None
  BY DEF Laying, Owning, Owned, CursorsOwned, Terminate
<1>5. \A c \in FatSlots : c # op.new => fat'[c] = fat[c]
  BY <1>3 DEF Terminate, SetFat, Links
<1>6. /\ \A f \in live : f # op.file => Laid(fat', sealed[f])
      /\ \A f \in Files : f # op.file => CacheHolds(fat', handle[f])
  BY <1>1, <1>4, <1>5, OthersKept
<1>7. /\ Laid(fat', mine)
      /\ \A i \in 0..(Count(mine) - 1) : ChainIn(fat', mine)[i] = ChainIn(fat, mine)[i]
  BY <1>1, <1>2, <1>3, <1>4, <1>5, ChainKept
<1>8. CacheHolds(fat', mine)
  BY <1>2, <1>7, CacheKept DEF Laying, Layout
<1>9. \A i \in 0..(Count(mine) - 1) : ChainIn(fat, mine)[i] \in Clusters /\ ChainIn(fat, mine)[i] # op.new
  <2>1. ASSUME NEW i \in 0..(Count(mine) - 1)
        PROVE  ChainIn(fat, mine)[i] \in Clusters /\ ChainIn(fat, mine)[i] # op.new
    <3>1. i \in 0..ClusterCount /\ i < CeilDiv(mine.data, ClusterBytes)
      BY <1>2, Parameters DEF Laid, Count
    <3>2. ChainIn(fat, mine)[i] \in Clusters
      BY <1>2 DEF Laid
    <3>3. TypeOK /\ o \in OwnerMaps /\ LinksOwned(o)
      BY DEF Laying, Owning, Owned
    <3>4. o[ChainIn(fat, mine)[i]] = op.file
      BY <1>2, <3>1, <3>2, <3>3, ChainOwned
    <3>. QED
      BY <1>2, <1>4, <3>2, <3>4
  <2>. QED
    BY <2>1
<1>10. mine.nofat \/ \A i \in 0..(Count(mine) - 2) :
                       fat'[ChainIn(fat, mine)[i]] = fat[ChainIn(fat, mine)[i]]
  <2>1. \A i \in 0..(Count(mine) - 2) : i \in 0..(Count(mine) - 1)
    BY <1>2
  <2>2. Clusters \subseteq FatSlots
    BY Parameters DEF Clusters, FatSlots
  <2>. QED
    BY <1>5, <1>9, <2>1, <2>2
<1>11. Laid(fat', sealed[op.file]) /\ CacheHolds(fat', op.saved)
  BY <1>1, <1>3, <1>10, SavedKept
<1>. QED
  BY <1>1, <1>2, <1>3, <1>6, <1>7, <1>8, <1>9, <1>11 DEF InChain

(* The handle of a growing file, one cluster longer.                       *)
LEMMA GrownLonger ==
    ASSUME NEW o, Laying(o), op.kind = "append", NEW h \in HandleType, SetMine(h), Continues,
           Laid(fat', h), CacheHolds(fat', op.saved), h.data = mine.data + ClusterBytes,
           h.first = mine.first \/ mine.data = 0, h.nofat = mine.nofat
    PROVE  Growth' /\ mine' = h
<1>1. ~At("idle")
  BY IdleFields DEF Laying, Owning, KindOK
<1>2. mine' = h /\ mine.data \in Nat /\ op.saved.data \in Nat
  <2>1. /\ op.file \in Files /\ handle \in [Files -> HandleType] /\ Located(mine) /\ Located(op.saved)
    BY <1>1, LayingCall, SavedLaid
  <2>. QED
    BY <2>1 DEF mine, SetMine, Continues, Located
<1>3. /\ op.saved.data # 0 => mine.first = op.saved.first /\ (mine.nofat => op.saved.nofat)
      /\ op.saved.data <= mine.data
  BY DEF Laying, Layout, Growth
<1>4. op.saved.data <= h.data /\ (mine.data = 0 => op.saved.data = 0)
  BY <1>2, <1>3, Parameters
<1>. QED
  BY <1>2, <1>3, <1>4 DEF Growth, Continues

(* The handle with one cluster more.                                       *)
LEMMA LongerHandle ==
    ASSUME NEW h \in HandleType
    PROVE  /\ AddCluster(h) \in HandleType /\ AddCluster(h).data = h.data + ClusterBytes
           /\ AddCluster(h).first = h.first /\ AddCluster(h).nofat = h.nofat
           /\ AddCluster(h).open = h.open /\ AddCluster(h).cachedIndex = h.cachedIndex
           /\ AddCluster(h).cachedCluster = h.cachedCluster
BY AddClusterType DEF AddCluster, HandleType

(* It becomes the first of its file, or follows a contiguous one, or is    *)
(* left to be linked.                                                      *)
LEMMA TerminateLaid ==
    ASSUME NEW o, Laying(o), TypeOK', TerminateFirst \/ TerminateAdjacent \/ TerminateDetached
    PROVE  Layout'
<1>1. Terminate /\ live' = live /\ sealed' = sealed
  BY DEF TerminateFirst, TerminateAdjacent, TerminateDetached
<1>2. /\ \A f \in live : Laid(fat', sealed'[f])
      /\ \A f \in Files : CacheHolds(fat', handle[f])
      /\ CacheHolds(fat', op.saved)
      /\ Laid(fat', mine)
      /\ \A i \in 0..(Count(mine) - 1) : ChainIn(fat', mine)[i] = ChainIn(fat, mine)[i]
      /\ fat \in Links /\ fat' \in Links /\ op.new \in Clusters
      /\ ~At("idle") /\ op.kind = "append" /\ ~InChain(op.new) /\ op.idx = 0
      /\ mine.data # 0 => op.tail = ChainIn(fat, mine)[Count(mine) - 1]
  BY <1>1, NewTerminated
<1>3. /\ op \in OpType /\ mine \in HandleType /\ mine.open /\ Located(mine) /\ Laid(fat, mine)
      /\ Count(mine) \in Nat /\ mine.first \in Nat
      /\ mine.data = 0 <=> Count(mine) = 0
      /\ mine.data = 0 <=> mine.first = 0
      /\ mine = handle[op.file] /\ op.file \in Files /\ mine.data \in Nat
  BY <1>2, LayingCall DEF Located
<1>4. CASE TerminateFirst
  <2>. DEFINE g == [mine EXCEPT !.first = op.new]
              h == AddCluster(g)
  <2>0. /\ g \in HandleType /\ g.first = op.new /\ g.data = mine.data /\ g.nofat = mine.nofat
        /\ g.cachedIndex = mine.cachedIndex /\ g.open = mine.open /\ mine.first = 0
    BY <1>2, <1>3, <1>4 DEF TerminateFirst, HandleType
  <2>. HIDE DEF g
  <2>1. /\ h \in HandleType /\ h.first = op.new /\ h.data = 0 + ClusterBytes /\ h.nofat = mine.nofat
        /\ h.cachedIndex = mine.cachedIndex /\ h.open /\ mine.data = 0
    <3>1. mine.data = 0 /\ mine.open
      BY <1>3, <2>0
    <3>2. /\ AddCluster(g) \in HandleType /\ AddCluster(g).data = g.data + ClusterBytes
          /\ AddCluster(g).first = g.first /\ AddCluster(g).nofat = g.nofat
          /\ AddCluster(g).open = g.open /\ AddCluster(g).cachedIndex = g.cachedIndex
      BY <2>0, LongerHandle
    <3>. QED
      BY <2>0, <3>1, <3>2
  <2>2. Continues /\ op'.pc = "grow" /\ op'.idx = 0
    BY <1>3, <1>4 DEF TerminateFirst, GrowAgain, Continues, OpType
  <2>3. SetMine(h)
    BY <1>4 DEF TerminateFirst, g
  <2>. HIDE DEF h
  <2>4. Located(h)
    BY <2>1 DEF HandleType, Located
  <2>5. Laid(fat', h)
    BY <1>2, <2>1, <2>4, LaidFirst
  <2>6. CacheHolds(fat', h)
    <3>1. CacheHolds(fat', mine) /\ 0..(Count(mine) - 1) = {}
      BY <1>2, <1>3, <2>1
    <3>. QED
      BY <2>1, <3>1 DEF CacheHolds
  <2>7. Growth'
    BY <1>2, <1>3, <2>1, <2>2, <2>3, <2>5, GrownLonger
  <2>8. CursorsPlaced'
    BY <2>2 DEF CursorsPlaced, At
  <2>. QED
    BY <1>1, <1>2, <2>3, <2>6, <2>7, <2>8, Relaid
<1>5. CASE TerminateAdjacent
  <2>. DEFINE h == AddCluster(mine)
  <2>1. /\ h \in HandleType /\ h.first = mine.first /\ h.data = mine.data + ClusterBytes
        /\ h.nofat = mine.nofat /\ h.nofat /\ h.open /\ mine.data # 0
    BY <1>3, <1>5, LongerHandle DEF TerminateAdjacent, Adjacent
  <2>2. Continues /\ op'.pc = "grow" /\ op'.idx = 0
    BY <1>3, <1>5 DEF TerminateAdjacent, GrowAgain, Continues, OpType
  <2>3. SetMine(h)
    BY <1>5 DEF TerminateAdjacent
  <2>. HIDE DEF h
  <2>4. Located(h)
    BY <2>1 DEF HandleType, Located
  <2>5. mine.first + Count(mine) \in Clusters
    <3>1. \A i \in 0..ClusterCount : ChainIn(fat, mine)[i] = mine.first + i
      BY <1>2, <1>3, <2>1, Contiguous
    <3>2. Count(mine) - 1 \in 0..ClusterCount
      BY <1>3, <2>1, Parameters DEF Laid
    <3>3. op.new = op.tail + 1
      BY <1>5 DEF TerminateAdjacent, Adjacent
    <3>. HIDE DEF ChainIn
    <3>4. op.new = mine.first + (Count(mine) - 1) + 1
      BY <1>2, <2>1, <3>1, <3>2, <3>3
    <3>. QED
      BY <1>2, <1>3, <3>4
  <2>6. Laid(fat', h)
    BY <1>2, <1>3, <2>1, <2>4, <2>5, StretchExtended
  <2>7. CacheHolds(fat', h)
    BY <2>1 DEF CacheHolds
  <2>8. Growth'
    BY <1>2, <2>1, <2>2, <2>3, <2>6, GrownLonger
  <2>9. CursorsPlaced'
    BY <2>2 DEF CursorsPlaced, At
  <2>. QED
    BY <1>1, <1>2, <2>3, <2>7, <2>8, <2>9, Relaid
<1>6. CASE TerminateDetached
  <2>1. /\ Continues /\ op'.pc \in {"materialize", "link"} /\ op'.idx = op.idx /\ op'.tail = op.tail
        /\ op'.new = op.new /\ handle' = handle /\ mine' = mine /\ mine.data # 0
    BY <1>3, <1>6 DEF TerminateDetached, Goto, Continues, OpType, mine
  <2>2. Growth'
    BY <1>2, <2>1 DEF Growth, Continues, Laying, Layout
  <2>3. /\ Count(mine) - 1 \in 0..(Count(mine) - 1) /\ 0 < Count(mine) /\ 0..(0 - 1) = {}
    BY <1>3, <2>1
  <2>4. CursorsPlaced'
    <3>1. ~InChain(op.new)'
      BY <1>2, <2>1 DEF InChain
    <3>2. op'.tail = ChainIn(fat', mine)[Count(mine) - 1]
      BY <1>2, <2>1, <2>3
    <3>3. op'.idx = 0
      BY <1>2, <2>1
    <3>. QED
      BY <2>1, <2>3, <3>1, <3>2, <3>3 DEF CursorsPlaced, At, InChain
  <2>. QED
    BY <1>1, <1>2, <2>1, <2>2, <2>4 DEF Layout
<1>. QED
  BY <1>4, <1>5, <1>6

(* One more link of a contiguous file is written.                          *)
LEMMA MaterializeLaid ==
    ASSUME NEW o, Laying(o), TypeOK', Materialize
    PROVE  Layout'
<1>1. ~At("idle") /\ op.kind = "append" /\ op.pc = "materialize"
  BY DEF Materialize, At, Laying, Owning, KindOK
<1>2. /\ op \in OpType /\ op.file \in Files /\ op.file \in live /\ mine = handle[op.file]
      /\ Owns(o, op.file, mine) /\ Located(mine) /\ Laid(fat, mine) /\ Count(mine) \in Nat
      /\ mine.data % ClusterBytes = 0 /\ mine.first \in Nat /\ handle \in [Files -> HandleType]
  BY <1>1, LayingCall
<1>3. fat \in Links /\ fat' \in Links
  BY DEF Laying, Owning, TypeOK, VolumeTypeOK, Links
<1>4. /\ mine.nofat /\ mine.data # 0 /\ ~InChain(op.new) /\ op.idx < Count(mine) /\ op.idx \in Nat
      /\ \A i \in 0..(op.idx - 1) : fat[mine.first + i] = mine.first + i + 1
      /\ op.tail = ChainIn(fat, mine)[Count(mine) - 1]
  BY <1>1, <1>2 DEF Laying, Owning, Owned, CursorsOwned, Layout, CursorsPlaced, At, OpType
<1>5. op.idx + 1 < Count(mine)
  BY <1>2, Counted DEF Materialize, LinksMissing
<1>. DEFINE x == mine.first + op.idx
<1>6. x \in Clusters /\ o[x] = op.file
  BY <1>2, <1>4 DEF Owns, Count
<1>7. /\ Continues /\ op'.pc = "materialize" /\ op'.idx = op.idx + 1 /\ op'.new = op.new
      /\ op'.tail = op.tail /\ mine' = mine /\ handle' = handle /\ live' = live /\ sealed' = sealed
  BY <1>2, <1>1 DEF Materialize, Continues, OpType, At, mine
<1>8. /\ \A c \in FatSlots : c # x => fat'[c] = fat[c]
      /\ fat'[x] = x + 1
  <2>1. x \in FatSlots
    BY <1>6, Parameters DEF Clusters, FatSlots
  <2>. QED
    BY <1>3, <2>1 DEF Materialize, SetFat, Links
<1>. HIDE DEF x
<1>9. /\ \A f \in live : f # op.file => Laid(fat', sealed[f])
      /\ \A f \in Files : f # op.file => CacheHolds(fat', handle[f])
  BY <1>1, <1>6, <1>8, OthersKept
<1>10. Laid(fat', sealed[op.file]) /\ CacheHolds(fat', op.saved)
  BY <1>1, <1>3, <1>4, SavedKept
<1>11. /\ Laid(fat', mine)
       /\ \A i \in 0..(Count(mine) - 1) : ChainIn(fat', mine)[i] = ChainIn(fat, mine)[i]
  <2>1. Count(mine) <= Count(mine) /\ (mine.data = 0 => mine.first = 0)
    BY <1>2, <1>4
  <2>. QED
    BY <1>2, <1>3, <1>4, <2>1, LaidSame
<1>12. CacheHolds(fat', mine)
  BY <1>2, <1>11, CacheKept DEF Laying, Layout
<1>13. Growth'
  <2>1. op.saved.data # 0 => mine.first = op.saved.first /\ (mine.nofat => op.saved.nofat)
    BY <1>1 DEF Laying, Layout, Growth
  <2>2. op.saved.data <= mine.data
    BY <1>1 DEF Laying, Layout, Growth
  <2>. QED
    BY <1>7, <1>10, <1>11, <2>1, <2>2 DEF Growth, Continues
<1>14. CursorsPlaced'
  <2>1. ~InChain(op.new)'
    BY <1>4, <1>7, <1>11 DEF InChain
  <2>2. Count(mine) - 1 \in 0..(Count(mine) - 1)
    BY <1>2, <1>4, <1>5
  <2>3. ASSUME NEW i \in 0..op.idx PROVE fat'[mine.first + i] = mine.first + i + 1
    <3>1. CASE i = op.idx
      BY <1>8, <3>1 DEF x
    <3>2. CASE i # op.idx
      <4>1. i \in 0..(op.idx - 1) /\ i \in 0..(CeilDiv(mine.data, ClusterBytes) - 1)
        BY <1>2, <1>4, <3>2 DEF Count
      <4>2. mine.first + i \in Clusters /\ mine.first + i # x
        BY <1>2, <1>4, <3>2, <4>1 DEF Owns, x
      <4>3. mine.first + i \in FatSlots
        BY <4>2, Parameters DEF Clusters, FatSlots
      <4>. QED
        BY <1>4, <1>8, <4>1, <4>2, <4>3
    <3>. QED
      BY <3>1, <3>2
  <2>4. (op.idx + 1) - 1 = op.idx
    BY <1>4
  <2>. QED
    BY <1>4, <1>5, <1>7, <1>11, <2>1, <2>2, <2>3, <2>4 DEF CursorsPlaced, At, InChain
<1>15. \A f \in live : Laid(fat', sealed'[f])
  BY <1>7, <1>9, <1>10
<1>16. \A f \in Files : CacheHolds(fat', handle'[f])
  BY <1>2, <1>7, <1>9, <1>12
<1>. QED
  BY <1>7, <1>13, <1>14, <1>15, <1>16 DEF Layout

(* All links are there: the handle is a chained one from now on.           *)
LEMMA MaterializedLaid ==
    ASSUME NEW o, Laying(o), Materialized
    PROVE  Layout'
<1>1. ~At("idle") /\ op.kind = "append" /\ op.pc = "materialize"
  BY DEF Materialized, At, Laying, Owning, KindOK
<1>2. /\ op \in OpType /\ op.file \in Files /\ op.file \in live /\ mine = handle[op.file]
      /\ Located(mine) /\ Laid(fat, mine) /\ Count(mine) \in Nat /\ mine \in HandleType
      /\ mine.data % ClusterBytes = 0 /\ handle \in [Files -> HandleType]
  BY <1>1, LayingCall
<1>3. fat \in Links
  BY DEF Laying, Owning, TypeOK, VolumeTypeOK, Links
<1>4. /\ mine.nofat /\ mine.data # 0 /\ ~InChain(op.new) /\ op.idx < Count(mine) /\ op.idx \in Nat
      /\ \A i \in 0..(op.idx - 1) : fat[mine.first + i] = mine.first + i + 1
      /\ op.tail = ChainIn(fat, mine)[Count(mine) - 1]
  BY <1>1, <1>2 DEF Laying, Owning, Owned, CursorsOwned, Layout, CursorsPlaced, At, OpType
<1>5. op.idx = Count(mine) - 1
  BY <1>2, <1>4, Counted DEF Materialized, LinksMissing
<1>. DEFINE g == [mine EXCEPT !.nofat = FALSE]
            h == Uncached(g)
<1>6. g \in HandleType /\ g.first = mine.first /\ g.data = mine.data /\ ~g.nofat
  BY <1>2 DEF HandleType
<1>7. SetMine(h) /\ live' = live /\ fat' = fat /\ sealed' = sealed
  BY DEF Materialized, device
<1>. HIDE DEF g
<1>8. /\ h \in HandleType /\ h.first = mine.first /\ h.data = mine.data /\ ~h.nofat
      /\ h.cachedIndex = None
  BY <1>6, UncachedType DEF Uncached, HandleType
<1>9. /\ Continues /\ op'.pc = "link" /\ op'.tail = op.tail /\ op'.new = op.new
  BY <1>2 DEF Materialized, Goto, Continues, OpType
<1>. HIDE DEF h
<1>10. Located(h) /\ mine' = h
  BY <1>2, <1>7, <1>8, <1>9 DEF HandleType, Located, SetMine, mine, Continues
<1>11. /\ Laid(fat, h) /\ Count(h) = Count(mine)
       /\ \A i \in 0..(Count(mine) - 1) : ChainIn(fat, h)[i] = ChainIn(fat, mine)[i]
  <2>1. \A i \in 0..(Count(mine) - 2) : fat[mine.first + i] = mine.first + i + 1
    BY <1>2, <1>4, <1>5
  <2>. QED
    BY <1>2, <1>3, <1>4, <1>8, <1>10, <2>1, StretchLinked
<1>12. CacheHolds(fat, h)
  BY <1>8 DEF CacheHolds
<1>13. Growth'
  <2>1. /\ op.saved.data # 0 => mine.first = op.saved.first
        /\ op.saved.data <= mine.data /\ CacheHolds(fat, op.saved)
    BY <1>1 DEF Laying, Layout, Growth
  <2>. QED
    BY <1>7, <1>8, <1>9, <1>10, <1>11, <2>1 DEF Growth, Continues
<1>14. CursorsPlaced'
  <2>1. Count(mine) - 1 \in 0..(Count(mine) - 1)
    BY <1>2, <1>4, <1>5
  <2>. QED
    BY <1>4, <1>7, <1>8, <1>9, <1>10, <1>11, <2>1 DEF CursorsPlaced, At, InChain
<1>. QED
  BY <1>1, <1>7, <1>12, <1>13, <1>14, Relaid DEF Laying, Layout

(* The tail is linked to the new cluster.                                  *)
LEMMA LinkLaid ==
    ASSUME NEW o, Laying(o), TypeOK', Link
    PROVE  Layout'
<1>1. ~At("idle") /\ op.kind = "append" /\ op.pc = "link"
  BY DEF Link, At, Laying, Owning, KindOK
<1>2. /\ op \in OpType /\ op.file \in Files /\ op.file \in live /\ mine = handle[op.file]
      /\ Located(mine) /\ Laid(fat, mine) /\ Count(mine) \in Nat /\ mine \in HandleType /\ mine.open
  BY <1>1, LayingCall
<1>3. fat \in Links /\ fat' \in Links
  BY DEF Laying, Owning, TypeOK, VolumeTypeOK, Links
<1>4. /\ ~mine.nofat /\ mine.data # 0 /\ ~InChain(op.new) /\ op.new \in Clusters
      /\ op.tail = ChainIn(fat, mine)[Count(mine) - 1] /\ op.tail \in Clusters /\ o[op.tail] = op.file
  <2>1. /\ ~mine.nofat /\ mine.data # 0 /\ ~InChain(op.new) /\ op.new \in Clusters
        /\ op.tail = ChainIn(fat, mine)[Count(mine) - 1]
    BY <1>1 DEF Laying, Owning, Owned, CursorsOwned, Layout, CursorsPlaced, At, TypeOK, OpTypeOK
  <2>2. op.tail \in Clusters /\ o[op.tail] = op.file
    BY <1>1 DEF Laying, Owning, Owned, CursorsOwned, TailOwned, At
  <2>. QED
    BY <2>1, <2>2
<1>5. /\ Continues /\ op'.pc = "grow" /\ op'.idx = 0
      /\ live' = live /\ sealed' = sealed
  BY <1>2 DEF Link, GrowAgain, Continues, OpType
<1>6. fat' = [fat EXCEPT ![op.tail] = op.new]
  BY DEF Link, SetFat
<1>7. \A c \in FatSlots : c # op.tail => fat'[c] = fat[c]
  BY <1>3, <1>6 DEF Links
<1>8. /\ \A f \in live : f # op.file => Laid(fat', sealed[f])
      /\ \A f \in Files : f # op.file => CacheHolds(fat', handle[f])
  BY <1>1, <1>4, <1>7, OthersKept
<1>9. \A i \in 0..(Count(mine) - 2) : fat'[ChainIn(fat, mine)[i]] = fat[ChainIn(fat, mine)[i]]
  <2>1. \A i \in 0..(Count(mine) - 2) :
          i \in 0..(Count(mine) - 1) /\ Count(mine) - 1 \in 0..(Count(mine) - 1) /\ i # Count(mine) - 1
    BY <1>2
  <2>2. \A i \in 0..(Count(mine) - 2) : ChainIn(fat, mine)[i] \in Clusters /\ ChainIn(fat, mine)[i] # op.tail
    BY <1>2, <1>4, <2>1 DEF Laid
  <2>3. Clusters \subseteq FatSlots
    BY Parameters DEF Clusters, FatSlots
  <2>. QED
    BY <1>7, <2>2, <2>3
<1>10. Laid(fat', sealed[op.file]) /\ CacheHolds(fat', op.saved)
  BY <1>1, <1>3, <1>9, SavedKept
<1>. DEFINE h == AddCluster(mine)
<1>11. /\ h \in HandleType /\ h.data = mine.data + ClusterBytes /\ h.first = mine.first
       /\ h.nofat = mine.nofat /\ h.open /\ h.cachedIndex = mine.cachedIndex
       /\ h.cachedCluster = mine.cachedCluster
  BY <1>2, LongerHandle
<1>12. SetMine(h)
  BY DEF Link
<1>. HIDE DEF h
<1>13. Located(h)
  BY <1>11 DEF HandleType, Located
<1>14. /\ Laid(fat', h) /\ Count(h) = Count(mine) + 1
       /\ \A i \in 0..(Count(mine) - 1) : ChainIn(fat', h)[i] = ChainIn(fat, mine)[i]
  <2>1. \A i \in 0..(Count(mine) - 1) : ChainIn(fat, mine)[i] # op.new
    BY <1>4 DEF InChain
  <2>2. /\ fat'[ChainIn(fat, mine)[Count(mine) - 1]] = op.new
        /\ \A c \in FatSlots : c # ChainIn(fat, mine)[Count(mine) - 1] => fat'[c] = fat[c]
    <3>1. Clusters \subseteq FatSlots
      BY Parameters DEF Clusters, FatSlots
    <3>2. fat'[op.tail] = op.new
      BY <1>3, <1>4, <1>6, <3>1 DEF Links
    <3>. QED
      BY <1>4, <1>7, <3>2
  <2>3. ~h.nofat
    BY <1>4, <1>11
  <2>. DEFINE m == mine
              new == op.new
  <2>4. /\ Located(m) /\ Laid(fat, m) /\ m.data # 0 /\ h.first = m.first /\ ~m.nofat
        /\ h.data = m.data + ClusterBytes /\ new \in Clusters
        /\ \A i \in 0..(Count(m) - 1) : ChainIn(fat, m)[i] # new
        /\ fat'[ChainIn(fat, m)[Count(m) - 1]] = new
        /\ \A c \in FatSlots : c # ChainIn(fat, m)[Count(m) - 1] => fat'[c] = fat[c]
    BY <1>2, <1>4, <1>11, <2>1, <2>2
  <2>. HIDE DEF m, new
  <2>5. /\ Laid(fat', h) /\ Count(h) = Count(m) + 1
        /\ \A i \in 0..(Count(m) - 1) : ChainIn(fat', h)[i] = ChainIn(fat, m)[i]
    BY ONLY <1>3, <1>13, <2>3, <2>4, LaidExtended
  <2>. QED
    BY <2>5 DEF m
<1>15. CacheHolds(fat', h)
  <2>1. CacheHolds(fat, mine)
    BY <1>2 DEF Laying, Layout
  <2>2. \A i \in 0..(Count(mine) - 1) : i \in 0..(Count(h) - 1)
    BY <1>2, <1>14
  <2>. QED
    BY <1>4, <1>11, <1>14, <2>1, <2>2 DEF CacheHolds
<1>16. Growth'
  BY <1>1, <1>5, <1>10, <1>11, <1>12, <1>14, GrownLonger
<1>17. CursorsPlaced'
  BY <1>5 DEF CursorsPlaced, At
<1>18. \A f \in live : Laid(fat', sealed'[f])
  BY <1>5, <1>8, <1>10
<1>. QED
  BY <1>1, <1>5, <1>8, <1>12, <1>15, <1>16, <1>17, <1>18, Relaid

(* The clusters are there: the handle takes the new length.                *)
LEMMA GrownLaid ==
    ASSUME NEW o, Laying(o), Grown
    PROVE  Layout'
<1>1. ~At("idle") /\ op.kind = "append"
  BY DEF Grown, At, Laying, Owning, KindOK
<1>2. /\ op \in OpType /\ op.file \in Files /\ mine = handle[op.file]
      /\ Located(mine) /\ Laid(fat, mine) /\ mine \in HandleType /\ handle \in [Files -> HandleType]
  BY <1>1, LayingCall
<1>3. fat \in Links
  BY DEF Laying, Owning, TypeOK, VolumeTypeOK, Links
<1>. DEFINE h == [mine EXCEPT !.pos = mine.valid, !.valid = NewEnd]
<1>4. SetMine(h) /\ live' = live /\ fat' = fat /\ sealed' = sealed
  BY DEF Grown, device
<1>5. /\ h.first = mine.first /\ h.data = mine.data /\ h.nofat = mine.nofat /\ h.open = mine.open
      /\ h.cachedIndex = mine.cachedIndex /\ h.cachedCluster = mine.cachedCluster
  BY <1>2 DEF HandleType
<1>6. /\ Continues /\ op'.pc = "seek"
  BY <1>2 DEF Grown, Continues, OpType
<1>. HIDE DEF h
<1>7. mine' = h
  BY <1>2, <1>4, <1>6 DEF SetMine, mine, Continues
<1>8. /\ Laid(fat, h) /\ Count(h) = Count(mine)
      /\ \A i \in 0..(Count(mine) - 1) : ChainIn(fat, h)[i] = ChainIn(fat, mine)[i]
  BY <1>2, <1>3, <1>5, SamePlaces
<1>9. CacheHolds(fat, mine) /\ Growth
  BY <1>1, <1>2 DEF Laying, Layout
<1>10. CacheHolds(fat, h)
  BY <1>5, <1>8, <1>9 DEF CacheHolds
<1>11. Growth'
  BY <1>4, <1>5, <1>6, <1>7, <1>8, <1>9 DEF Growth, Continues
<1>12. CursorsPlaced'
  BY <1>6 DEF CursorsPlaced, At
<1>. QED
  BY <1>1, <1>4, <1>10, <1>11, <1>12, Relaid DEF Laying, Layout

-----------------------------------------------------------------------------
(* Transfers.                                                              *)

(* The position lies in one of the handle's clusters.                      *)
LEMMA PositionInside ==
    ASSUME NEW o, Laying(o), Moving
    PROVE  /\ op \in OpType /\ op.file \in Files /\ op.file \in live /\ mine = handle[op.file]
           /\ mine \in HandleType /\ handle \in [Files -> HandleType] /\ mine.open
           /\ op.kind \in {"append", "read", "write"} /\ ~At("idle") /\ Owns(o, op.file, mine)
           /\ Located(mine) /\ Laid(fat, mine) /\ Count(mine) \in Nat /\ fat \in Links
           /\ Wanted \in 0..(Count(mine) - 1) /\ Wanted \in 0..ClusterCount
<1>1. ~At("idle") /\ op.kind # "remove"
  BY DEF Moving, At, Laying, Owning, KindOK
<1>2. /\ op \in OpType /\ op.file \in Files /\ op.file \in live /\ mine = handle[op.file]
      /\ mine \in HandleType /\ handle \in [Files -> HandleType] /\ mine.open
      /\ op.kind \in {"append", "read", "write"} /\ Owns(o, op.file, mine)
      /\ Located(mine) /\ Laid(fat, mine) /\ Count(mine) \in Nat
  BY <1>1, LayingCall
<1>3. op.rem \in Nat \ {0} /\ mine.pos + op.rem <= mine.valid /\ mine.valid <= mine.data
  BY <1>2 DEF Laying, LengthsOK, CallFits, Fits
<1>4. mine.pos \in Nat /\ mine.data \in Nat /\ mine.valid \in Nat
  BY <1>2 DEF HandleType
<1>5. mine.pos < mine.data
  BY <1>3, <1>4
<1>6. Wanted \in Nat /\ Wanted < Count(mine)
  BY <1>4, <1>5, CeilMonotone, ClusterCounts DEF Wanted, Count
<1>7. Wanted \in 0..(Count(mine) - 1) /\ Wanted \in 0..ClusterCount
  BY <1>2, <1>6, Parameters DEF Laid
<1>8. fat \in Links
  BY DEF Laying, Owning, TypeOK, VolumeTypeOK, Links
<1>. QED
  BY <1>1, <1>2, <1>7, <1>8

(* The walk to the position, from the first cluster or the remembered one. *)
LEMMA SeekLaid ==
    ASSUME NEW o, Laying(o), SeekContiguous \/ SeekChained \/ Walk
    PROVE  Layout'
<1>1. Moving
  BY DEF SeekContiguous, SeekChained, Walk, At, Moving
<1>2. /\ op \in OpType /\ mine = handle[op.file] /\ op.file \in Files /\ ~At("idle")
      /\ Located(mine) /\ Laid(fat, mine) /\ Count(mine) \in Nat /\ fat \in Links
      /\ Wanted \in 0..(Count(mine) - 1) /\ Wanted \in 0..ClusterCount
  BY <1>1, PositionInside
<1>3. UNCHANGED <<fat, live, sealed, handle>>
  BY DEF SeekContiguous, SeekChained, Walk, device
<1>4. CASE SeekContiguous
  <2>1. /\ Continues /\ op'.pc = "transfer" /\ op'.cl = mine.first + Wanted /\ mine' = mine /\ mine.nofat
    BY <1>2, <1>4 DEF SeekContiguous, Continues, OpType, mine
  <2>2. \A i \in 0..ClusterCount : ChainIn(fat, mine)[i] = mine.first + i
    BY <1>2, <2>1, Contiguous
  <2>3. Wanted' = Wanted /\ op'.cl = ChainIn(fat, mine)[Wanted]
    BY <1>2, <2>1, <2>2 DEF Wanted
  <2>4. CursorsPlaced'
    BY <1>3, <2>1, <2>3 DEF CursorsPlaced, At
  <2>. QED
    BY <1>3, <2>1, <2>4, LocalLaid
<1>5. CASE SeekChained
  <2>1. /\ Continues /\ op'.pc = "walk" /\ mine' = mine /\ ~mine.nofat /\ op'.cl = WalkFrom
        /\ op'.idx = IF UseCache THEN mine.cachedIndex ELSE 0
    BY <1>2, <1>5 DEF SeekChained, Continues, OpType, mine
  <2>2. Wanted' = Wanted
    BY <2>1 DEF Wanted
  <2>3. op'.idx <= Wanted /\ op'.cl = ChainIn(fat, mine)[op'.idx]
    <3>1. CASE UseCache
      <4>1. CacheHolds(fat, mine)
        BY <1>2 DEF Laying, Layout
      <4>. QED
        BY <2>1, <3>1, <4>1 DEF UseCache, WalkFrom, CacheHolds
    <3>2. CASE ~UseCache
      <4>1. ChainIn(fat, mine)[0] = mine.first
        BY <1>2, ChainEquation DEF Links
      <4>. QED
        BY <1>2, <2>1, <3>2, <4>1 DEF WalkFrom
    <3>. QED
      BY <3>1, <3>2
  <2>4. CursorsPlaced'
    BY <1>3, <2>1, <2>2, <2>3 DEF CursorsPlaced, At
  <2>. QED
    BY <1>3, <2>1, <2>4, LocalLaid
<1>6. CASE Walk
  <2>1. /\ Continues /\ op'.pc = "walk" /\ mine' = mine /\ op'.cl = fat[op.cl]
        /\ op'.idx = op.idx + 1 /\ op.idx < Wanted /\ op.idx \in Nat
    BY <1>2, <1>6 DEF Walk, Continues, OpType, mine, At
  <2>2. op.cl = ChainIn(fat, mine)[op.idx] /\ ~mine.nofat
    BY <1>6 DEF Walk, Laying, Layout, CursorsPlaced
  <2>3. Wanted' = Wanted
    BY <2>1 DEF Wanted
  <2>4. op.idx + 1 < Count(mine)
    BY <1>2, <2>1
  <2>5. fat[op.cl] = ChainIn(fat, mine)[op.idx + 1]
    BY <1>2, <2>1, <2>2, <2>4, NextInChain
  <2>6. op.idx + 1 <= Wanted
    BY <1>2, <2>1
  <2>7. CursorsPlaced'
    BY <1>3, <2>1, <2>2, <2>3, <2>5, <2>6 DEF CursorsPlaced, At
  <2>. QED
    BY <1>3, <2>1, <2>7, LocalLaid
<1>. QED
  BY <1>4, <1>5, <1>6

(* A handle moved, or with another cluster remembered, while fat stays.    *)
LEMMA MovedLaid ==
    ASSUME NEW o, Laying(o), Moving, NEW h, SetMine(h), UNCHANGED <<fat, live, sealed>>, Continues,
           h.first = mine.first, h.data = mine.data, h.nofat = mine.nofat, CacheHolds(fat, h),
           mine' = h => CursorsPlaced'
    PROVE  Layout'
<1>1. /\ op.file \in Files /\ handle \in [Files -> HandleType] /\ ~At("idle")
      /\ Located(mine) /\ Laid(fat, mine) /\ fat \in Links
  BY PositionInside
<1>2. mine' = h
  BY <1>1 DEF SetMine, mine, Continues
<1>3. Laid(fat, h)
  BY <1>1, SamePlaces
<1>4. op.kind = "append" => Growth'
  BY <1>2, <1>3 DEF Growth, Continues, Laying, Layout
<1>. QED
  BY <1>1, <1>2, <1>4, Relaid DEF Laying, Layout, Continues

(* The cluster is found, and remembered.                                   *)
LEMMA ArriveLaid == ASSUME NEW o, Laying(o), Arrive PROVE Layout'
<1>1. Moving /\ op.pc = "walk" /\ op.idx = Wanted
  BY DEF Arrive, At, Moving
<1>2. /\ op \in OpType /\ mine \in HandleType /\ mine.open
      /\ Located(mine) /\ Laid(fat, mine) /\ Count(mine) \in Nat /\ fat \in Links
      /\ Wanted \in 0..(Count(mine) - 1)
  BY <1>1, PositionInside
<1>3. op.cl = ChainIn(fat, mine)[Wanted]
  BY <1>1 DEF Laying, Layout, CursorsPlaced, At
<1>. DEFINE h == [mine EXCEPT !.cachedIndex = Wanted, !.cachedCluster = op.cl]
<1>4. /\ h.first = mine.first /\ h.data = mine.data /\ h.nofat = mine.nofat /\ h.open
      /\ h.pos = mine.pos /\ h.cachedIndex = Wanted /\ h.cachedCluster = op.cl
  BY <1>2 DEF HandleType
<1>5. SetMine(h) /\ UNCHANGED <<fat, live, sealed>>
  BY DEF Arrive, device
<1>6. Continues /\ op'.pc = "transfer" /\ op'.cl = op.cl
  BY <1>2 DEF Arrive, OpType, Continues
<1>. HIDE DEF h
<1>7. /\ Count(h) = Count(mine)
      /\ \A i \in 0..(Count(mine) - 1) : ChainIn(fat, h)[i] = ChainIn(fat, mine)[i]
  BY <1>2, <1>4, SamePlaces
<1>8. CacheHolds(fat, h)
  BY <1>2, <1>3, <1>4, <1>7 DEF CacheHolds
<1>9. ASSUME mine' = h PROVE CursorsPlaced'
  <2>1. Wanted' = Wanted
    BY <1>4, <1>9 DEF Wanted
  <2>. QED
    BY <1>2, <1>3, <1>5, <1>6, <1>7, <1>9, <2>1 DEF CursorsPlaced, At
<1>. QED
  BY <1>1, <1>4, <1>5, <1>6, <1>8, <1>9, MovedLaid

(* A chunk is moved, perhaps the last one.                                 *)
LEMMA TransferChunkLaid == ASSUME NEW o, Laying(o), TransferChunk PROVE Layout'
<1>1. Moving
  BY DEF TransferChunk, At, Moving
<1>2. /\ op \in OpType /\ mine \in HandleType /\ mine.open /\ ~At("idle") /\ op.file \in Files
      /\ mine = handle[op.file]
      /\ Located(mine) /\ Laid(fat, mine) /\ Count(mine) \in Nat /\ fat \in Links
  BY <1>1, PositionInside
<1>. DEFINE h == [mine EXCEPT !.pos = @ + Chunk]
<1>3. /\ h.first = mine.first /\ h.data = mine.data /\ h.nofat = mine.nofat /\ h.open
      /\ h.cachedIndex = mine.cachedIndex /\ h.cachedCluster = mine.cachedCluster
  BY <1>2 DEF HandleType
<1>4. SetMine(h) /\ UNCHANGED <<fat, live, sealed>>
  BY DEF TransferChunk
<1>. HIDE DEF h
<1>5. /\ Count(h) = Count(mine)
      /\ \A i \in 0..(Count(mine) - 1) : ChainIn(fat, h)[i] = ChainIn(fat, mine)[i]
  BY <1>2, <1>3, SamePlaces
<1>6. CacheHolds(fat, h)
  <2>1. CacheHolds(fat, mine)
    BY <1>2 DEF Laying, Layout
  <2>. QED
    BY <1>3, <1>5, <2>1 DEF CacheHolds
<1>7. op' = Idle \/ (Continues /\ op'.pc \in {"stream", "seek"})
  BY <1>2 DEF TransferChunk, AfterTransfer, OpType, Continues
<1>8. CASE op' = Idle
  BY <1>2, <1>4, <1>6, <1>8, EndLaid DEF Laying, Layout
<1>9. CASE Continues /\ op'.pc \in {"stream", "seek"}
  <2>1. CursorsPlaced'
    BY <1>9 DEF CursorsPlaced, At
  <2>. QED
    BY <1>1, <1>3, <1>4, <1>6, <1>9, <2>1, MovedLaid
<1>. QED
  BY <1>7, <1>8, <1>9

(* The record is written, then sealed.                                     *)
LEMMA UpdateLaid == ASSUME NEW o, Laying(o), UpdateStream \/ Seal PROVE Layout'
<1>1. ~At("idle") /\ op.kind = "append" /\ op.pc \in {"stream", "seal"}
  <2>1. ~At("idle") /\ op.pc \in {"stream", "seal"}
    BY DEF UpdateStream, Seal, At
  <2>. QED
    BY <2>1 DEF Laying, Owning, KindOK, NeverTruncated
<1>2. /\ op \in OpType /\ op.file \in Files /\ mine = handle[op.file] /\ mine \in HandleType
      /\ Located(mine) /\ Laid(fat, mine) /\ fat \in Links /\ sealed \in [Files -> Stream]
      /\ handle \in [Files -> HandleType]
  BY <1>1, LayingCall DEF Laying, Owning, TypeOK, VolumeTypeOK, Links
<1>3. CASE UpdateStream
  <2>1. Continues /\ op'.pc = "seal" /\ UNCHANGED <<fat, live, sealed, handle>>
    BY <1>2, <1>3 DEF UpdateStream, Goto, Continues, OpType
  <2>2. CursorsPlaced'
    BY <2>1 DEF CursorsPlaced, At
  <2>. QED
    BY <2>1, <2>2, LocalLaid
<1>4. CASE Seal
  <2>1. stream[op.file] = StreamOf(mine) /\ op' = Idle /\ UNCHANGED <<fat, live, handle>>
    BY <1>4 DEF Seal, Laying, HandleInv, CallMatches
  <2>2. Laid(fat, StreamOf(mine))
    <3>1. /\ StreamOf(mine).first = mine.first /\ StreamOf(mine).data = mine.data
          /\ StreamOf(mine).nofat = mine.nofat
      BY DEF StreamOf
    <3>. QED
      BY <1>2, <3>1, SamePlaces
  <2>3. \A f \in live : Laid(fat, sealed'[f])
    BY <1>2, <1>4, <2>1, <2>2 DEF Seal, Laying, Layout
  <2>4. SetMine(mine)
    BY <1>2, <2>1 DEF SetMine
  <2>5. CacheHolds(fat, mine)
    BY <1>2 DEF Laying, Layout
  <2>. QED
    BY <1>1, <2>1, <2>3, <2>4, <2>5, EndLaid
<1>. QED
  BY <1>3, <1>4

(* remove gives its clusters back: nobody's chain leads through them.      *)
LEMMA ReleaseLaid ==
    ASSUME NEW o, Laying(o), TypeOK', FreeLink \/ Unmark
    PROVE  Layout'
<1>1. ~At("idle") /\ op.pc \in {"free", "unmark"}
  BY DEF FreeLink, Unmark, At
<1>2. /\ op \in OpType /\ op.file \in Files /\ mine = handle[op.file] /\ op.kind = "remove"
      /\ op.file \notin live /\ handle \in [Files -> HandleType]
      /\ op.cl \in Clusters /\ o[op.cl] = op.file
  <2>1. op.kind = "remove"
    BY <1>1, OwningCall DEF Laying, Owning, KindOK
  <2>2. op.cl \in Clusters /\ o[op.cl] = op.file
    BY <1>1 DEF Laying, Owning, Owned, CursorsOwned
  <2>. QED
    BY <1>1, <2>1, <2>2, OwningCall DEF Laying
<1>3. fat \in Links /\ fat' \in Links
  BY DEF Laying, Owning, TypeOK, VolumeTypeOK, Links
<1>4. UNCHANGED <<live, sealed, handle>>
  BY DEF FreeLink, Unmark
<1>5. mine.cachedIndex = None
  BY <1>2 DEF Laying, HandleInv, CallMatches, Layout, CacheHolds
<1>6. op' = Idle \/ (Continues /\ op'.pc \in {"free", "unmark"})
  BY <1>2 DEF FreeLink, Unmark, Continues, OpType
<1>7. CursorsPlaced' /\ op'.kind # "append"
  BY <1>2, <1>6, IdleFields DEF CursorsPlaced, At, Continues
<1>8. /\ \A f \in live : Laid(fat', sealed[f])
      /\ \A f \in Files : f # op.file => CacheHolds(fat', handle[f])
  <2>1. CASE FreeLink
    <3>1. \A c \in FatSlots : c # op.cl => fat'[c] = fat[c]
      BY <1>3, <2>1 DEF FreeLink, SetFat, Links
    <3>. QED
      BY <1>1, <1>2, <3>1, OthersKept
  <2>2. CASE Unmark
    BY <2>2 DEF Unmark, Laying, Layout
  <2>. QED
    BY <2>1, <2>2
<1>9. CacheHolds(fat', mine)
  BY <1>5 DEF CacheHolds
<1>10. \A f \in Files : CacheHolds(fat', handle[f])
  BY <1>2, <1>8, <1>9
<1>. QED
  BY <1>4, <1>7, <1>8, <1>10 DEF Layout

-----------------------------------------------------------------------------
(* Errors, dropped futures and power cuts.                                 *)

(* A handle that is closed, or fresh, remembers no cluster.                *)
LEMMA NothingCached ==
    /\ \A F : CacheHolds(F, Closed)
    /\ \A F, s : CacheHolds(F, OpenOn(s))
    /\ \A F : \A h \in HandleType : CacheHolds(F, Uncached(h))
BY DEF CacheHolds, Closed, OpenOn, Uncached, HandleType

(* An error: append gives back the handle that it put aside, and the       *)
(* clusters it linked meanwhile lie behind those of the record.            *)
LEMMA FailLaid == ASSUME NEW o, Laying(o), ~At("idle"), Fail PROVE Layout'
<1>1. /\ op.file \in Files /\ mine = handle[op.file] /\ handle \in [Files -> HandleType]
      /\ op.kind \in {"append", "read", "write", "remove"}
  BY OwningCall DEF Laying
<1>2. /\ \A f \in live : Laid(fat, sealed[f])
      /\ CacheHolds(fat, mine)
      /\ op.kind = "append" => CacheHolds(fat, op.saved)
  BY <1>1 DEF Laying, Layout, Growth
<1>3. PICK h : h = IF op.kind = "append" THEN op.saved ELSE mine
  OBVIOUS
<1>4. SetMine(h) /\ CacheHolds(fat, h) /\ UNCHANGED <<fat, live, sealed>> /\ op' = Idle
  BY <1>1, <1>2, <1>3 DEF Fail, device
<1>. QED
  BY <1>2, <1>4, EndLaid

(* A future is dropped, and its handle with it.                            *)
LEMMA CancelLaid == ASSUME NEW o, Laying(o), HandlesTrusted, Cancel PROVE Layout'
<1>1. ~At("idle") /\ "abandon" \in Faults
  BY DEF Cancel, IoLabels, At, HandlesTrusted
<1>2. SetMine(Closed) /\ UNCHANGED <<fat, live, sealed>> /\ op' = Idle
  BY <1>1 DEF Cancel, device
<1>3. \A f \in live : Laid(fat, sealed[f])
  BY DEF Laying, Layout
<1>. QED
  BY <1>1, <1>2, <1>3, NothingCached, EndLaid

(* A mount, or a power cut and a mount.                                    *)
LEMMA RestartLaid == ASSUME NEW o, Laying(o), Restart PROVE Layout'
<1>1. \A f \in live' : Laid(fat', sealed'[f])
  BY DEF Restart, device, Laying, Layout
<1>2. \A f \in Files : CacheHolds(fat', handle'[f])
  BY NothingCached DEF Restart
<1>3. op'.kind # "append" /\ CursorsPlaced'
  BY IdleFields DEF Restart, CursorsPlaced, At
<1>. QED
  BY <1>1, <1>2, <1>3 DEF Layout

-----------------------------------------------------------------------------
(* Calls.                                                                  *)

(* A call that only gives or takes a handle, or a record without clusters. *)
LEMMA HandleCallLaid ==
    ASSUME NEW o, Laying(o), NEW f \in Files, NEW h, CacheHolds(fat, h),
           handle' = [handle EXCEPT ![f] = h], fat' = fat, op' = op, At("idle"),
           \A g \in live' : Laid(fat, sealed'[g])
    PROVE  Layout'
<1>1. handle \in [Files -> HandleType] /\ op = Idle
  BY IdleOwns DEF Laying
<1>2. \A g \in Files : CacheHolds(fat, handle'[g])
  BY <1>1 DEF Laying, Layout
<1>3. op'.kind # "append" /\ CursorsPlaced'
  BY <1>1, IdleFields DEF CursorsPlaced, At
<1>. QED
  BY <1>2, <1>3 DEF Layout

(* Handles come and go; a new file has no cluster.                         *)
LEMMA OpenCreateLaid ==
    ASSUME NEW o, Laying(o), NEW f \in Files, Open(f) \/ Close(f) \/ CreateAbsent(f)
    PROVE  Layout'
<1>1. fat \in Links /\ sealed \in [Files -> Stream] /\ live \subseteq Files
  BY DEF Laying, Owning, TypeOK, VolumeTypeOK, Links
<1>2. Laid(fat, NoStream)
  <2>1. Located(NoStream) /\ NoStream.data = 0 /\ NoStream.first = 0
    BY DEF NoStream, Located
  <2>2. Count(NoStream) = 0
    BY <2>1, Counted
  <2>. QED
    BY <2>1, <2>2, Parameters DEF Laid
<1>3. \A g \in live : Laid(fat, sealed[g])
  BY DEF Laying, Layout
<1>4. CASE Open(f) \/ Close(f)
  <2>1. PICK h : handle' = [handle EXCEPT ![f] = h] /\ CacheHolds(fat, h)
    BY <1>4, NothingCached DEF Open, Close
  <2>2. UNCHANGED <<fat, live, sealed, op>> /\ At("idle")
    BY <1>4 DEF Open, Close, device
  <2>. QED
    BY <1>3, <2>1, <2>2, HandleCallLaid
<1>5. CASE CreateAbsent(f)
  <2>1. \A g \in live' : Laid(fat, sealed'[g])
    BY <1>1, <1>2, <1>3, <1>5 DEF CreateAbsent
  <2>2. handle' = [handle EXCEPT ![f] = OpenOn(NoStream)] /\ fat' = fat /\ op' = op /\ At("idle")
    BY <1>5 DEF CreateAbsent
  <2>. QED
    BY <2>1, <2>2, NothingCached, HandleCallLaid
<1>. QED
  BY <1>4, <1>5

(* append starts from the handle of a sealed record.                       *)
LEMMA AppendLaid ==
    ASSUME NEW o, Laying(o), NEW f \in Files, NEW n, NEW v, Append(f, n, v)
    PROVE  Layout'
<1>1. /\ At("idle") /\ handle[f].open /\ handle[f] \in HandleType /\ handle \in [Files -> HandleType]
      /\ UNCHANGED <<fat, live, sealed>>
  BY IdleOwns DEF Append, device, Laying
<1>2. Located(handle[f]) /\ Laid(fat, handle[f]) /\ fat \in Links
  BY <1>1, HandleLaid DEF Laying, Owning, TypeOK, VolumeTypeOK, Links
<1>3. PICK h : h = Uncached(handle[f])
  OBVIOUS
<1>4. /\ h.first = handle[f].first /\ h.data = handle[f].data /\ h.nofat = handle[f].nofat
      /\ CacheHolds(fat, h)
  BY <1>1, <1>3, NothingCached DEF Uncached, HandleType
<1>5. Laid(fat, h)
  BY <1>2, <1>4, SamePlaces
<1>6. handle' = [handle EXCEPT ![f] = h]
  BY <1>3 DEF Append
<1>7. /\ op'.pc = "grow" /\ op'.kind = "append" /\ op'.file = f /\ op'.saved = handle[f]
      /\ op'.idx = 0
  <2>1. op'.idx = 0
    BY DEF Append, Idle
  <2>. QED
    BY <2>1, IdleFields DEF Append, OpType
<1>8. mine' = h /\ \A g \in Files : CacheHolds(fat, handle'[g])
  BY <1>1, <1>4, <1>6, <1>7 DEF mine, Laying, Layout
<1>9. CacheHolds(fat, handle[f]) /\ handle[f].data \in Nat
  BY <1>1 DEF Laying, Layout, HandleType
<1>10. Growth'
  BY <1>1, <1>4, <1>5, <1>7, <1>8, <1>9 DEF Growth
<1>11. CursorsPlaced'
  BY <1>7 DEF CursorsPlaced, At
<1>. QED
  BY <1>1, <1>8, <1>10, <1>11 DEF Layout, Laying

(* A transfer starts.                                                      *)
LEMMA TransferCallLaid ==
    ASSUME NEW o, Laying(o), NEW f \in Files, NEW n, NEW v, NEW kind \in {"read", "write"},
           StartTransfer(f, n, v, kind)
    PROVE  Layout'
<1>1. UNCHANGED <<fat, live, sealed, handle>>
  BY DEF StartTransfer, device
<1>2. op'.pc = "seek" /\ op'.kind # "append"
  BY IdleFields DEF StartTransfer, OpType
<1>3. CursorsPlaced'
  BY <1>2 DEF CursorsPlaced, At
<1>. QED
  BY <1>1, <1>2, <1>3 DEF Laying, Layout

(* A record goes; its clusters are released later.                         *)
LEMMA RemoveLaid == ASSUME NEW o, Laying(o), NEW f \in Files, Remove(f) PROVE Layout'
<1>1. live' \subseteq live /\ UNCHANGED <<fat, sealed, handle>>
  BY DEF Remove
<1>2. op'.pc \in {"idle", "free"} /\ op'.kind # "append"
  BY IdleFields DEF Remove, OpType
<1>3. CursorsPlaced'
  BY <1>2 DEF CursorsPlaced, At
<1>. QED
  BY <1>1, <1>2, <1>3 DEF Laying, Layout

-----------------------------------------------------------------------------
(* The volume another implementation left.                                 *)

(* A chain whose links lead to the next cluster each lies like a stretch.  *)
LEMMA PreexistingLaid ==
    ASSUME Init, VolumeApart, NEW f \in DOMAIN Preexisting
    PROVE  /\ Laid(fat, Preexisting[f])
           /\ \A i \in 0..(Count(Preexisting[f]) - 1) :
                ChainIn(fat, Preexisting[f])[i] = Preexisting[f].first + i
<1>. DEFINE s == Preexisting[f]
            n == CeilDiv(s.data, ClusterBytes)
<1>1. /\ n \in Nat /\ s.first \in Nat /\ s \in Stream
      /\ PreexistingExtent(f) \subseteq Clusters \ SystemClusters
      /\ \A i \in 0..(n - 1) : s.first + i \in PreexistingExtent(f)
  BY PreexistingClusters
<1>2. s.data = 0 => s.first = 0
  BY DEF VolumeApart
<1>3. Located(s) /\ Count(s) = n
  BY <1>1 DEF Stream, Located, Count
<1>4. live = DOMAIN Preexisting /\ f \in live /\ fat \in Links
  BY InitType DEF Init, TypeOK, VolumeTypeOK, Links
<1>5. PICK t : t = [s EXCEPT !.nofat = TRUE]
  OBVIOUS
<1>6. Located(t) /\ t.first = s.first /\ t.data = s.data /\ t.nofat /\ Count(t) = n
  BY <1>1, <1>3, <1>5 DEF Stream, Located, Count
<1>. HIDE DEF s, n
<1>7. n <= ClusterCount
  <2>1. PICK g : g = [i \in 0..(n - 1) |-> s.first + i]
    OBVIOUS
  <2>2. g \in [0..(n - 1) -> Clusters] /\ \A i, j \in 0..(n - 1) : g[i] = g[j] => i = j
    BY <1>1, <2>1
  <2>. QED
    BY <1>1, <2>2, Pigeonhole
<1>8. Laid(fat, t) /\ \A i \in 0..(n - 1) : ChainIn(fat, t)[i] = s.first + i
  <2>1. \A i \in 0..(n - 1) : i \in 0..ClusterCount
    BY <1>1, <1>7, Parameters
  <2>2. \A i \in 0..(n - 1) : ChainIn(fat, t)[i] = s.first + i
    BY <1>4, <1>6, <2>1, Contiguous
  <2>. HIDE DEF ChainIn
  <2>. QED
    BY <1>1, <1>2, <1>6, <1>7, <2>2 DEF Laid
<1>9. ASSUME s.nofat PROVE Laid(fat, s) /\ \A i \in 0..(n - 1) : ChainIn(fat, s)[i] = s.first + i
  <2>. HIDE DEF ChainIn, Count
  <2>1. s.first = t.first /\ s.data = t.data /\ s.nofat = t.nofat
    BY <1>3, <1>6, <1>9 DEF Located
  <2>2. Laid(fat, s) /\ \A i \in 0..(Count(t) - 1) : ChainIn(fat, s)[i] = ChainIn(fat, t)[i]
    BY <1>4, <1>6, <1>8, <2>1, SamePlaces
  <2>. QED
    BY <1>6, <1>8, <2>2
<1>10. ASSUME ~s.nofat PROVE Laid(fat, s) /\ \A i \in 0..(n - 1) : ChainIn(fat, s)[i] = s.first + i
  <2>1. ASSUME NEW i \in 0..(n - 2) PROVE fat[t.first + i] = t.first + i + 1
    <3>. DEFINE c == s.first + i
    <3>1. c \in PreexistingExtent(f) /\ c + 1 \in PreexistingExtent(f)
      <4>1. i \in 0..(n - 1) /\ i + 1 \in 0..(n - 1) /\ s.first + (i + 1) = c + 1
        BY <1>1
      <4>. QED
        BY <1>1, <4>1
    <3>2. c \in Clusters \ SystemClusters /\ c + 1 \in Clusters /\ c \in FatSlots /\ c \notin {0, 1}
      BY <1>1, <3>1, Parameters DEF Clusters, FatSlots
    <3>3. ASSUME NEW g \in live, c = PreexistingLast(g), ~Preexisting[g].nofat PROVE FALSE
      <4>1. c \in PreexistingExtent(g) \/ PreexistingExtent(g) = {}
        <5>1. Preexisting[g].first \in Nat /\ CeilDiv(Preexisting[g].data, ClusterBytes) \in Nat
          BY <1>4, <3>3, PreexistingClusters
        <5>. QED
          BY <3>3, <5>1 DEF PreexistingExtent, PreexistingLast
      <4>2. CASE c \in PreexistingExtent(g)
        <5>1. g = f
          BY <1>4, <3>1, <4>2 DEF VolumeApart
        <5>2. PreexistingLast(f) = s.first + n - 1
          BY DEF PreexistingLast, s, n
        <5>. QED
          BY <1>1, <3>3, <5>1, <5>2
      <4>3. CASE PreexistingExtent(g) = {}
        <5>1. Preexisting[g].data = 0 /\ Preexisting[g].first = 0
          <6>1. Preexisting[g].data # 0 => CeilDiv(Preexisting[g].data, ClusterBytes) # 0
            BY <1>4, PreexistingClusters
          <6>2. Preexisting[g].first \in Nat /\ CeilDiv(Preexisting[g].data, ClusterBytes) \in Nat
            BY <1>4, PreexistingClusters
          <6>3. \A j \in 0..(CeilDiv(Preexisting[g].data, ClusterBytes) - 1) :
                  Preexisting[g].first + j \in PreexistingExtent(g)
            BY <1>4, PreexistingClusters
          <6>4. CeilDiv(Preexisting[g].data, ClusterBytes) = 0
            BY <4>3, <6>2, <6>3
          <6>. QED
            BY <1>4, <6>1, <6>4 DEF VolumeApart
        <5>2. CeilDiv(0, ClusterBytes) = 0
          BY ClusterCounts
        <5>. QED
          BY <3>2, <3>3, <5>1, <5>2, Parameters DEF PreexistingLast, Clusters
      <4>. QED
        BY <4>1, <4>2, <4>3
    <3>4. fat[c] = c + 1
      <4>1. fat[c] = IF c \in {0, 1} \cup SystemClusters
                        \/ \E g \in live : ~Preexisting[g].nofat /\ c = PreexistingLast(g)
                     THEN EndOfChain
                     ELSE IF \E g \in live : ~Preexisting[g].nofat /\ c \in PreexistingExtent(g)
                     THEN c + 1 ELSE 0
        BY <3>2 DEF Init
      <4>2. ~Preexisting[f].nofat
        BY <1>10 DEF s
      <4>. HIDE DEF c
      <4>. QED
        BY <1>4, <3>1, <3>2, <3>3, <4>1, <4>2
    <3>. QED
      BY <1>6, <3>4
  <2>2. Located(s) /\ s.first = t.first /\ s.data = t.data /\ ~s.nofat
    BY <1>3, <1>6, <1>10
  <2>. QED
    BY <1>4, <1>6, <1>8, <2>1, <2>2, StretchLinked
<1>. QED
  BY <1>3, <1>9, <1>10 DEF s

(* Initially the records are all there is.                                 *)
LEMMA InitLaid == ASSUME Init, VolumeApart PROVE Layout
<1>1. \A f \in live : Laid(fat, sealed[f])
  <2>1. live = DOMAIN Preexisting /\ live \subseteq Files
        /\ \A f \in live : sealed[f] = Preexisting[f]
    BY PreexistingAssumption DEF Init
  <2>. QED
    BY <2>1, PreexistingLaid
<1>2. \A f \in Files : CacheHolds(fat, handle[f])
  BY NothingCached DEF Init
<1>3. op.kind # "append" /\ CursorsPlaced
  BY IdleFields DEF Init, CursorsPlaced, At
<1>. QED
  BY <1>1, <1>2, <1>3 DEF Layout

-----------------------------------------------------------------------------
(* Every step keeps the layout.                                            *)

(* The steps of an operation.                                              *)
LEMMA StepLaid == ASSUME NEW o, Laying(o), TypeOK', Step PROVE Layout'
<1>1. CASE GrowEmpty \/ GrowContiguous \/ GrowChained \/ FollowTail \/ FoundTail \/ Claim \/ MarkUsed
  BY <1>1, GrowLaid, TailLaid, ClaimLaid
<1>2. CASE \/ TerminateFirst \/ TerminateAdjacent \/ TerminateDetached
           \/ Materialize \/ Materialized \/ Link \/ Grown
  BY <1>2, TerminateLaid, MaterializeLaid, MaterializedLaid, LinkLaid, GrownLaid
<1>3. CASE SeekContiguous \/ SeekChained \/ Walk \/ Arrive \/ TransferChunk
  BY <1>3, SeekLaid, ArriveLaid, TransferChunkLaid
<1>4. CASE UpdateStream \/ Seal \/ FreeLink \/ Unmark
  BY <1>4, UpdateLaid, ReleaseLaid
<1>5. CASE KeepContiguous \/ KeepFollow \/ KeepFound \/ Cut
  <2>1. op.pc \in {"keep", "cut"} /\ ~At("idle")
    BY <1>5 DEF KeepContiguous, KeepFollow, KeepFound, Cut, At
  <2>. QED
    BY <2>1, OwningCall DEF Laying, Owning, KindOK
<1>6. CASE Freed
  <2>1. op.pc = "free" /\ op.left = 0 /\ ~At("idle")
    BY <1>6 DEF Freed, At
  <2>. QED
    BY <2>1, OwningCall DEF Laying, Owning, KindOK, NeverTruncated, At
<1>7. CASE ReturnError
  <2>1. ~At("idle")
    BY <1>7 DEF ReturnError, CheckFails, Growing, At
  <2>. QED
    BY <1>7, <2>1, FailLaid DEF ReturnError
<1>. QED
  BY <1>1, <1>2, <1>3, <1>4, <1>5, <1>6, <1>7 DEF Step

(* The calls.                                                              *)
LEMMA CallLays == ASSUME NEW o, Laying(o), NEW f \in Files, Calls(f) PROVE Layout'
<1>1. CASE Open(f) \/ Close(f) \/ CreateAbsent(f) \/ Remove(f)
  BY <1>1, OpenCreateLaid, RemoveLaid
<1>2. CASE CreateExisting(f) \/ \E len \in 0..MaxLength : Truncate(f, len)
  BY <1>2 DEF CreateExisting, Truncate, Laying, Owning, NeverTruncated
<1>3. CASE \E n \in 1..MaxLength : \/ Read(f, n)
                                   \/ \E v \in Payload[f] : Append(f, n, v) \/ Write(f, n, v)
  BY <1>3, AppendLaid, TransferCallLaid DEF Read, Write
<1>. QED
  BY <1>1, <1>2, <1>3 DEF Calls

(* All of them, with errors, dropped futures and power cuts.               *)
LEMMA NextLaid == ASSUME NEW o, Laying(o), TypeOK', HandlesTrusted, [Next]_vars PROVE Layout'
<1>1. CASE RefreshFreeClusters \/ UNCHANGED vars
  <2>1. UNCHANGED <<fat, live, sealed, handle, op>>
    BY <1>1 DEF RefreshFreeClusters, vars, device
  <2>. QED
    BY <2>1 DEF Laying, Layout, Growth, CursorsPlaced, InChain, Wanted, At, mine
<1>2. CASE Remount \/ Crash
  BY <1>2, RestartLaid DEF Remount, Crash
<1>3. CASE IoError
  <2>1. ~At("idle") /\ Fail
    BY <1>3 DEF IoError, IoLabels, At
  <2>. QED
    BY <2>1, FailLaid
<1>. QED
  BY <1>1, <1>2, <1>3, StepLaid, CallLays, CancelLaid DEF Next

(* Files lie in the heap, cluster by cluster, whatever fails or is cut off, *)
(* and handles and walks keep to them.                                     *)
LEMMA LayoutInvariant ==
    ASSUME VolumeApart, NeverTruncated, HandlesTrusted, WholeClusters PROVE Spec => []Layout
<1>1. Init => Layout
  BY InitLaid
<1>2. ASSUME TypeOK, KindOK, SomeOwner, HandleInv, LengthsOK, Layout, TypeOK', [Next]_vars
      PROVE  Layout'
  <2>1. PICK o \in OwnerMaps : Owned(o)
    BY <1>2 DEF SomeOwner
  <2>2. Laying(o)
    BY <1>2, <2>1 DEF Laying, Owning
  <2>. QED
    BY <1>2, <2>2, NextLaid
<1>. QED
  BY <1>1, <1>2, TypeCorrect, KindInvariant, OwnerInvariant, HandleInvariant, LengthInvariant, PTL DEF Spec

(* Stream extensions copied from a handle lead where the handle does.      *)
LEMMA StreamLaid ==
    ASSUME NEW h, Located(h), Laid(fat, h), fat \in Links
    PROVE  /\ Located(StreamOf(h)) /\ Laid(fat, StreamOf(h))
           /\ \A i \in 0..(Count(h) - 1) : ChainOf(StreamOf(h))[i] = ChainIn(fat, h)[i]
<1>1. /\ StreamOf(h).first = h.first /\ StreamOf(h).data = h.data
      /\ StreamOf(h).nofat = h.nofat
  BY DEF StreamOf
<1>. QED
  BY <1>1, SamePlaces, ActiveChain

(* The cluster a handle remembers is the one its chain has at that index,  *)
(* whatever grew the file, failed or was read before (file_cluster_at,     *)
(* append's clearing and restoring of the handle).                         *)
THEOREM CachesCoherent ==
    ASSUME VolumeApart, NeverTruncated, HandlesTrusted, WholeClusters PROVE Spec => []CacheCoherent
<1>1. ASSUME TypeOK, KindOK, SomeOwner, HandleInv, LengthsOK, Layout PROVE CacheCoherent
  <2>1. PICK o \in OwnerMaps : Owned(o)
    BY <1>1 DEF SomeOwner
  <2>2. Laying(o) /\ fat \in Links
    BY <1>1, <2>1 DEF Laying, Owning, TypeOK, VolumeTypeOK, Links
  <2>3. ASSUME NEW f \in Files, handle[f].cachedIndex # None, ~handle[f].nofat
        PROVE  handle[f].cachedCluster = ChainOf(StreamOf(handle[f]))[handle[f].cachedIndex]
    <3>1. /\ handle[f].open /\ handle[f].cachedIndex \in 0..(Count(handle[f]) - 1)
          /\ handle[f].cachedCluster = ChainIn(fat, handle[f])[handle[f].cachedIndex]
      BY <1>1, <2>3 DEF Layout, CacheHolds
    <3>. QED
      BY <2>2, <3>1, HandleLaid, StreamLaid
  <2>. QED
    BY <2>3 DEF CacheCoherent
<1>. QED
  BY <1>1, TypeCorrect, KindInvariant, OwnerInvariant, HandleInvariant, LengthInvariant,
     LayoutInvariant, PTL

(* A chunk goes to the cluster that holds the position, and that cluster   *)
(* is allocated to a file (read, write, append: file_cluster_at).          *)
THEOREM TransfersInFile ==
    ASSUME VolumeApart, NeverTruncated, HandlesTrusted, WholeClusters
    PROVE  Spec => []TransfersReachFile
<1>1. ASSUME TypeOK, KindOK, SomeOwner, HandleInv, LengthsOK, Layout, At("transfer")
      PROVE  op.cl = ChainOf(StreamOf(mine))[Wanted] /\ op.cl \in used \ SystemClusters
  <2>1. PICK o \in OwnerMaps : Owned(o)
    BY <1>1 DEF SomeOwner
  <2>2. Laying(o) /\ Moving
    BY <1>1, <2>1 DEF Laying, Owning, Moving, At
  <2>3. /\ op.file \in Files /\ op.file \in live /\ Owns(o, op.file, mine)
        /\ Located(mine) /\ Laid(fat, mine) /\ fat \in Links
        /\ Wanted \in 0..(Count(mine) - 1) /\ Wanted \in 0..ClusterCount /\ Count(mine) \in Nat
    BY <2>2, PositionInside
  <2>4. op.cl = ChainIn(fat, mine)[Wanted] /\ op.cl \in Clusters
    BY <1>1, <2>3 DEF Layout, CursorsPlaced, Laid
  <2>5. LinksOwned(o) /\ BitsOwned(o)
    BY <2>1 DEF Owned
  <2>6. Wanted < CeilDiv(mine.data, ClusterBytes)
    BY <2>3 DEF Count
  <2>7. o[op.cl] = op.file
    BY <1>1, <2>3, <2>4, <2>5, <2>6, ChainOwned
  <2>8. op.file # None
    BY <2>3, Parameters
  <2>. QED
    BY <2>3, <2>4, <2>5, <2>7, <2>8, StreamLaid DEF BitsOwned
<1>2. ASSUME TypeOK, KindOK, SomeOwner, HandleInv, LengthsOK, Layout PROVE TransfersReachFile
  BY <1>1, <1>2 DEF TransfersReachFile
<1>. QED
  BY <1>2, TypeCorrect, KindInvariant, OwnerInvariant, HandleInvariant, LengthInvariant,
     LayoutInvariant, PTL

-----------------------------------------------------------------------------
(* The record a torn update left.  Without device errors nobody goes on    *)
(* with a file whose record is torn: power cuts and dropped futures take   *)
(* the handle with them.                                                   *)

NoTornHandle ==
    \A f \in Files : handle[f].open /\ ~(At("seal") /\ op.file = f) => stream[f] = sealed[f]

RecordsLaid == \A f \in live : Laid(fat, stream[f])

(* Only update_stream writes records of files that are there.              *)
LEMMA RecordsUntouched ==
    ASSUME NEW o, Laying(o), Step, ~UpdateStream, ~Seal
    PROVE  /\ ~At("seal") /\ UNCHANGED <<live, stream, sealed>>
           /\ \A f \in Files : handle'[f].open => handle[f].open
<1>1. ~At("idle") /\ ~At("seal") /\ UNCHANGED <<live, stream, sealed>>
  <2>1. CASE GrowEmpty \/ GrowContiguous \/ GrowChained \/ FollowTail \/ FoundTail \/ Claim \/ MarkUsed
    BY <2>1 DEF GrowEmpty, GrowContiguous, GrowChained, FollowTail, FoundTail, Claim, MarkUsed,
       Growing, At, device
  <2>2. CASE \/ TerminateFirst \/ TerminateAdjacent \/ TerminateDetached
             \/ Materialize \/ Materialized \/ Link \/ Grown
    BY <2>2 DEF TerminateFirst, TerminateAdjacent, TerminateDetached, Terminate, Materialize,
       Materialized, Link, Grown, At, device
  <2>3. CASE SeekContiguous \/ SeekChained \/ Walk \/ Arrive \/ TransferChunk
    BY <2>3 DEF SeekContiguous, SeekChained, Walk, Arrive, TransferChunk, At, device
  <2>4. CASE KeepContiguous \/ KeepFollow \/ KeepFound \/ Cut \/ FreeLink \/ Unmark \/ Freed
    BY <2>4 DEF KeepContiguous, KeepFollow, KeepFound, Cut, FreeLink, Unmark, Freed, At, device
  <2>5. CASE ReturnError
    BY <2>5 DEF ReturnError, CheckFails, Fail, Growing, At, device
  <2>. QED
    BY <2>1, <2>2, <2>3, <2>4, <2>5 DEF Step
<1>2. /\ op.file \in Files /\ handle \in [Files -> HandleType] /\ mine = handle[op.file]
      /\ op.kind # "remove" => mine.open
  BY <1>1, OwningCall DEF Laying
<1>3. \A f \in Files : f # op.file => handle'[f] = handle[f]
  <2>1. handle' = handle \/ \E h : SetMine(h)
    <3>1. CASE GrowEmpty \/ GrowContiguous \/ GrowChained \/ FollowTail \/ FoundTail \/ Claim \/ MarkUsed
      BY <3>1 DEF GrowEmpty, GrowContiguous, GrowChained, FollowTail, FoundTail, Claim, MarkUsed
    <3>2. CASE \/ TerminateFirst \/ TerminateAdjacent \/ TerminateDetached
               \/ Materialize \/ Materialized \/ Link \/ Grown
      BY <3>2 DEF TerminateFirst, TerminateAdjacent, TerminateDetached, Materialize, Materialized,
         Link, Grown
    <3>3. CASE SeekContiguous \/ SeekChained \/ Walk \/ Arrive \/ TransferChunk
      BY <3>3 DEF SeekContiguous, SeekChained, Walk, Arrive, TransferChunk
    <3>4. CASE KeepContiguous \/ KeepFollow \/ KeepFound \/ Cut \/ FreeLink \/ Unmark \/ Freed
      BY <3>4 DEF KeepContiguous, KeepFollow, KeepFound, Cut, FreeLink, Unmark, Freed
    <3>5. CASE ReturnError
      BY <3>5 DEF ReturnError, Fail
    <3>. QED
      BY <1>1, <3>1, <3>2, <3>3, <3>4, <3>5 DEF Step
  <2>. QED
    BY <1>2, <2>1 DEF SetMine
<1>4. op.kind = "remove" => handle' = handle
  <2>1. ASSUME op.kind = "remove" PROVE (At("free") /\ op.left # 0) \/ At("unmark")
    BY <1>1, <2>1 DEF Laying, Owning, KindOK, At, OpTypeOK, TypeOK, OpType, PcLabels
  <2>2. ASSUME op.kind = "remove" PROVE FreeLink \/ Unmark \/ ReturnError
    <3>1. ~Freed /\ op.pc \in {"free", "unmark"}
      BY <2>1, <2>2 DEF Freed, At
    <3>2. ~(GrowEmpty \/ GrowContiguous \/ GrowChained \/ FollowTail \/ FoundTail \/ Claim \/ MarkUsed)
      BY <3>1 DEF GrowEmpty, GrowContiguous, GrowChained, FollowTail, FoundTail, Claim, MarkUsed,
         Growing, At
    <3>3. ~(\/ TerminateFirst \/ TerminateAdjacent \/ TerminateDetached
            \/ Materialize \/ Materialized \/ Link \/ Grown)
      BY <3>1 DEF TerminateFirst, TerminateAdjacent, TerminateDetached, Terminate, Materialize,
         Materialized, Link, Grown, At
    <3>4. ~(SeekContiguous \/ SeekChained \/ Walk \/ Arrive \/ TransferChunk)
      BY <3>1 DEF SeekContiguous, SeekChained, Walk, Arrive, TransferChunk, At
    <3>5. ~(KeepContiguous \/ KeepFollow \/ KeepFound \/ Cut)
      BY <3>1 DEF KeepContiguous, KeepFollow, KeepFound, Cut, At
    <3>. QED
      BY <3>1, <3>2, <3>3, <3>4, <3>5 DEF Step
  <2>. QED
    BY <1>2, <2>2 DEF FreeLink, Unmark, ReturnError, Fail, SetMine
<1>. QED
  BY <1>1, <1>2, <1>3, <1>4

(* The steps that write a link.                                            *)
LEMMA LinkSteps ==
    ASSUME Step, fat' # fat
    PROVE  TerminateFirst \/ TerminateAdjacent \/ TerminateDetached
           \/ Materialize \/ Link \/ Cut \/ FreeLink
<1>1. ~(GrowEmpty \/ GrowContiguous \/ GrowChained \/ FollowTail \/ FoundTail \/ Claim \/ MarkUsed)
  BY DEF GrowEmpty, GrowContiguous, GrowChained, FollowTail, FoundTail, Claim, MarkUsed, device
<1>2. ~(Materialized \/ Grown \/ SeekContiguous \/ SeekChained \/ Walk \/ Arrive \/ TransferChunk)
  BY DEF Materialized, Grown, SeekContiguous, SeekChained, Walk, Arrive, TransferChunk, device
<1>3. ~(UpdateStream \/ Seal \/ KeepContiguous \/ KeepFollow \/ KeepFound \/ Unmark \/ Freed \/ ReturnError)
  BY DEF UpdateStream, Seal, KeepContiguous, KeepFollow, KeepFound, Unmark, Freed, ReturnError, Fail, device
<1>. QED
  BY <1>1, <1>2, <1>3 DEF Step

(* A step writes at most one link, of its own file or of a new cluster.    *)
LEMMA OneLink ==
    ASSUME NEW o, Laying(o), TypeOK', Step, fat' # fat
    PROVE  \E x \in Clusters :
             o[x] \in {None, op.file} /\ \A c \in FatSlots : c # x => fat'[c] = fat[c]
<1>1. fat \in Links
  BY DEF Laying, Owning, TypeOK, VolumeTypeOK, Links
<1>2. CASE Terminate
  <2>1. o[op.new] = None /\ op.new \in Clusters
    BY <1>2 DEF Laying, Owning, Owned, CursorsOwned, Terminate, At, TypeOK, OpTypeOK
  <2>. QED
    BY <1>1, <1>2, <2>1 DEF Terminate, SetFat, Links
<1>3. CASE Link
  <2>1. ~At("idle") /\ op.pc = "link"
    BY <1>3 DEF Link, At
  <2>2. op.tail \in Clusters /\ o[op.tail] = op.file
    BY <2>1 DEF Laying, Owning, Owned, CursorsOwned, TailOwned, At
  <2>. QED
    BY <1>1, <1>3, <2>2 DEF Link, SetFat, Links
<1>4. CASE Materialize
  <2>1. ~At("idle") /\ op.kind # "remove" /\ op.pc = "materialize"
    BY <1>4 DEF Materialize, At, Laying, Owning, KindOK
  <2>2. /\ Owns(o, op.file, mine) /\ op \in OpType /\ mine.nofat /\ op.idx < Count(mine)
        /\ Count(mine) \in Nat
    BY <2>1, LayingCall DEF Laying, Owning, Owned, CursorsOwned, Layout, CursorsPlaced, At
  <2>3. op.idx \in 0..(CeilDiv(mine.data, ClusterBytes) - 1)
    BY <2>2 DEF OpType, Count
  <2>4. mine.first + op.idx \in Clusters /\ o[mine.first + op.idx] = op.file
    BY <2>2, <2>3 DEF Owns
  <2>. QED
    BY <1>1, <1>4, <2>4 DEF Materialize, SetFat, Links
<1>5. CASE FreeLink
  <2>1. op.cl \in Clusters /\ o[op.cl] = op.file
    BY <1>5 DEF FreeLink, At, Laying, Owning, Owned, CursorsOwned
  <2>. QED
    BY <1>1, <1>5, <2>1 DEF FreeLink, SetFat, Links
<1>6. ~Cut
  <2>1. SUFFICES ASSUME Cut PROVE FALSE
    OBVIOUS
  <2>2. op.pc = "cut" /\ ~At("idle")
    BY <2>1 DEF Cut, At
  <2>. QED
    BY <2>2, OwningCall DEF Laying, Owning, KindOK
<1>. QED
  BY <1>2, <1>3, <1>4, <1>5, <1>6, LinkSteps DEF TerminateFirst, TerminateAdjacent, TerminateDetached

(* An open handle's record stays whole.                                    *)
LEMMA NoTornStays ==
    ASSUME NEW o, Laying(o), HandlesTrusted, "io" \notin Faults, NoTornHandle, [Next]_vars
    PROVE  NoTornHandle'
<1>. USE DEF NoTornHandle
<1>1. handle \in [Files -> HandleType] /\ stream \in [Files -> Stream] /\ sealed \in [Files -> Stream]
  BY DEF Laying, Owning, TypeOK, MemoryTypeOK, VolumeTypeOK
<1>2. CASE Step
  <2>1. CASE UpdateStream
    BY <1>1, <2>1 DEF UpdateStream, Goto, At, Laying, Owning, TypeOK, OpTypeOK, OpType
  <2>2. CASE Seal
    BY <1>1, <2>2 DEF Seal, At
  <2>3. CASE ~UpdateStream /\ ~Seal
    BY <1>2, <2>3, RecordsUntouched
  <2>. QED
    BY <2>1, <2>2, <2>3
<1>3. CASE \E f \in Files : Calls(f)
  <2>1. PICK f \in Files : Calls(f)
    BY <1>3
  <2>2. At("idle")
    BY <2>1 DEF Calls, Open, Close, CreateAbsent, CreateExisting, Remove, Read, Write, StartTransfer,
       Append, Truncate
  <2>3. \A g \in Files : handle[g].open => stream[g] = sealed[g]
    BY <2>2 DEF At
  <2>4. CASE Open(f) \/ Close(f)
    BY <1>1, <2>3, <2>4, ClosedIsNot DEF Open, Close, Intact, device
  <2>5. CASE CreateAbsent(f)
    BY <1>1, <2>3, <2>5 DEF CreateAbsent
  <2>6. CASE Remove(f)
    BY <2>3, <2>6 DEF Remove
  <2>7. CASE CreateExisting(f) \/ \E len \in 0..MaxLength : Truncate(f, len)
    BY <2>7 DEF CreateExisting, Truncate, Laying, Owning, NeverTruncated
  <2>8. CASE \E n \in 1..MaxLength : \/ Read(f, n)
                                     \/ \E v \in Payload[f] : Append(f, n, v) \/ Write(f, n, v)
    <3>1. CASE UNCHANGED <<stream, sealed, handle>>
      BY <2>3, <3>1
    <3>2. ASSUME NEW n, NEW v, Append(f, n, v) PROVE NoTornHandle'
      BY <1>1, <2>3, <3>2 DEF Append, Uncached, HandleType, device
    <3>3. ASSUME NEW n, NEW v, Read(f, n) \/ Write(f, n, v) PROVE UNCHANGED <<stream, sealed, handle>>
      BY <3>3 DEF Read, Write, StartTransfer, device
    <3>. QED
      BY <2>8, <3>1, <3>2, <3>3
  <2>. QED
    BY <2>1, <2>4, <2>5, <2>6, <2>7, <2>8 DEF Calls
<1>4. CASE RefreshFreeClusters \/ UNCHANGED vars
  BY <1>4 DEF RefreshFreeClusters, vars, device, At
<1>5. CASE Remount \/ Crash
  BY <1>5, ClosedIsNot DEF Remount, Crash, Restart
<1>6. CASE Cancel
  <2>1. SetMine(Closed) /\ UNCHANGED <<stream, sealed>> /\ ~At("idle")
    BY <1>6 DEF Cancel, HandlesTrusted, device, IoLabels, At
  <2>2. op.file \in Files
    BY <2>1, OwningCall DEF Laying
  <2>3. \A f \in Files : f # op.file => handle'[f] = handle[f]
    BY <1>1, <2>1 DEF SetMine
  <2>4. ~handle'[op.file].open
    BY <1>1, <2>1, <2>2, ClosedIsNot DEF SetMine
  <2>. QED
    BY <2>1, <2>3, <2>4
<1>. QED
  BY <1>2, <1>3, <1>4, <1>5, <1>6 DEF Next, IoError

(* So every record, sealed or torn, leads to clusters of its own.          *)
LEMMA RecordsStayLaid ==
    ASSUME NEW o, Laying(o), TypeOK', Layout', NoTornHandle, RecordsLaid, [Next]_vars
    PROVE  RecordsLaid'
<1>1. /\ fat \in Links /\ fat' \in Links /\ live \subseteq Files
      /\ stream \in [Files -> Stream]
  BY DEF Laying, Owning, TypeOK, VolumeTypeOK, Links
<1>2. CASE fat' = fat /\ live' \subseteq live /\ stream' = stream
  BY <1>2 DEF RecordsLaid
<1>3. CASE Step
  <2>1. CASE UpdateStream
    <3>1. ~At("idle") /\ op.pc = "stream"
      BY <2>1 DEF UpdateStream, At
    <3>2. op.kind # "remove"
      BY <3>1 DEF Laying, Owning, KindOK
    <3>3. Laid(fat, StreamOf(mine)) /\ op.file \in Files
      BY <1>1, <3>1, <3>2, LayingCall, StreamLaid
    <3>. QED
      BY <1>1, <2>1, <3>3 DEF UpdateStream, RecordsLaid
  <2>2. CASE Seal
    BY <1>2, <2>2 DEF Seal
  <2>3. CASE ~UpdateStream /\ ~Seal /\ fat' # fat
    <3>1. ~At("seal") /\ UNCHANGED <<live, stream, sealed>>
      BY <1>3, <2>3, RecordsUntouched
    <3>2. PICK x \in Clusters :
             o[x] \in {None, op.file} /\ \A c \in FatSlots : c # x => fat'[c] = fat[c]
      BY <1>3, <2>3, OneLink
    <3>3. ASSUME NEW f \in live, f # op.file PROVE Laid(fat', stream[f])
      <4>1. stream[f] \in Stream /\ Laid(fat, stream[f]) /\ f \in Files /\ f # None
        BY <1>1, <3>3, Parameters DEF RecordsLaid
      <4>2. Located(stream[f]) /\ Owns(o, f, stream[f])
        BY <4>1 DEF Stream, Located, Laying, Owning, Owned, RecordsOwned
      <4>3. o[x] # f
        BY <3>2, <3>3, <4>1
      <4>. QED
        BY <1>1, <3>2, <4>1, <4>2, <4>3, ChainKept
    <3>4. op.file \in live => Laid(fat', stream[op.file])
      <4>1. SUFFICES ASSUME op.file \in live PROVE Laid(fat', stream[op.file])
        OBVIOUS
      <4>2. ~At("idle")
        BY <1>1, <4>1, Parameters DEF Laying, Owning, TypeOK, OpTypeOK, At
      <4>3. op.kind # "remove"
        BY <4>1 DEF Laying, Owning, Owned, CallOwned
      <4>4. handle[op.file].open /\ op.file \in Files
        BY <4>2, <4>3, LayingCall
      <4>5. stream[op.file] = sealed[op.file]
        BY <3>1, <4>4 DEF NoTornHandle
      <4>6. Laid(fat', sealed'[op.file])
        BY <3>1, <4>1 DEF Layout
      <4>. QED
        BY <3>1, <4>5, <4>6
    <3>5. \A f \in live : Laid(fat', stream[f])
      BY <3>3, <3>4
    <3>. QED
      BY <3>1, <3>5 DEF RecordsLaid
  <2>4. CASE ~UpdateStream /\ ~Seal /\ fat' = fat
    BY <1>2, <1>3, <2>4, RecordsUntouched
  <2>. QED
    BY <2>1, <2>2, <2>3, <2>4
<1>4. CASE \E f \in Files : Calls(f)
  <2>1. PICK f \in Files : Calls(f)
    BY <1>4
  <2>2. CASE CreateAbsent(f)
    <3>1. sealed'[f] = stream'[f] /\ f \in live' /\ fat' = fat /\ live' = live \cup {f}
          /\ \A g \in live : g # f => stream'[g] = stream[g]
      BY <1>1, <2>2 DEF CreateAbsent, Laying, Owning, TypeOK, VolumeTypeOK
    <3>2. Laid(fat', stream'[f])
      BY <3>1 DEF Layout
    <3>. QED
      BY <3>1, <3>2 DEF RecordsLaid
  <2>3. CASE CreateExisting(f) \/ \E len \in 0..MaxLength : Truncate(f, len)
    BY <2>3 DEF CreateExisting, Truncate, Laying, Owning, NeverTruncated
  <2>4. CASE Open(f) \/ Close(f) \/ Remove(f)
    BY <1>2, <2>4 DEF Open, Close, Remove, device
  <2>5. CASE \E n \in 1..MaxLength : \/ Read(f, n)
                                     \/ \E v \in Payload[f] : Append(f, n, v) \/ Write(f, n, v)
    BY <1>2, <2>5 DEF Read, Write, StartTransfer, Append, device
  <2>. QED
    BY <2>1, <2>2, <2>3, <2>4, <2>5 DEF Calls
<1>5. CASE RefreshFreeClusters \/ Remount \/ Crash \/ IoError \/ Cancel \/ UNCHANGED vars
  BY <1>2, <1>5 DEF RefreshFreeClusters, Remount, Crash, Restart, IoError, Fail, Cancel, vars, device
<1>. QED
  BY <1>3, <1>4, <1>5 DEF Next

(* Without device errors, torn records stay laid out as well.              *)
LEMMA RecordInvariant ==
    ASSUME VolumeApart, NeverTruncated, HandlesTrusted, WholeClusters, "io" \notin Faults
    PROVE  Spec => [](NoTornHandle /\ RecordsLaid)
<1>1. Init => NoTornHandle /\ RecordsLaid
  <2>. SUFFICES ASSUME Init PROVE NoTornHandle /\ RecordsLaid
    OBVIOUS
  <2>1. Layout /\ stream = sealed
    BY InitLaid DEF Init
  <2>. QED
    BY <2>1 DEF Layout, RecordsLaid, NoTornHandle
<1>2. ASSUME TypeOK, KindOK, SomeOwner, HandleInv, LengthsOK, Layout, NoTornHandle, RecordsLaid,
             TypeOK', Layout', [Next]_vars
      PROVE  NoTornHandle' /\ RecordsLaid'
  <2>1. PICK o \in OwnerMaps : Owned(o)
    BY <1>2 DEF SomeOwner
  <2>2. Laying(o)
    BY <1>2, <2>1 DEF Laying, Owning
  <2>. QED
    BY <1>2, <2>2, NoTornStays, RecordsStayLaid
<1>. QED
  BY <1>1, <1>2, TypeCorrect, KindInvariant, OwnerInvariant, HandleInvariant, LengthInvariant,
     LayoutInvariant, PTL DEF Spec

(* The clusters of a chain are as many as its length takes.                *)
LEMMA LaidExtent ==
    ASSUME NEW s, Located(s), Laid(fat, s), fat \in Links
    PROVE  Cardinality(Extent(s)) = Count(s) /\ Extent(s) \subseteq Clusters
<1>. DEFINE n == Count(s)
            g == [i \in 0..(n - 1) |-> ChainIn(fat, s)[i]]
<1>1. n \in Nat /\ n <= ClusterCount /\ ClusterCount \in Nat
  BY Counted, Parameters DEF Laid
<1>2. {j \in 0..ClusterCount : j < CeilDiv(s.data, ClusterBytes)} = 0..(n - 1)
  BY <1>1 DEF Count
<1>3. Extent(s) = {ChainIn(fat, s)[i] : i \in 0..(n - 1)}
  BY <1>2, ActiveChain DEF Extent
<1>4. \A i \in 0..(n - 1) : ChainIn(fat, s)[i] \in Clusters
  BY DEF Laid
<1>5. \A i, j \in 0..(n - 1) : ChainIn(fat, s)[i] = ChainIn(fat, s)[j] => i = j
  BY DEF Laid
<1>. HIDE DEF n, ChainIn
<1>6. /\ g \in [0..(n - 1) -> Extent(s)]
      /\ \A a, b \in 0..(n - 1) : g[a] = g[b] => a = b
      /\ \A t \in Extent(s) : \E i \in 0..(n - 1) : g[i] = t
  BY <1>3, <1>5
<1>7. g \in Bijection(0..(n - 1), Extent(s))
  BY <1>6, Fun_IsBij
<1>8. ExistsBijection(0..(n - 1), Extent(s))
  BY <1>7 DEF ExistsBijection
<1>9. IsFiniteSet(0..(n - 1)) /\ Cardinality(0..(n - 1)) = n
  BY <1>1, FS_Interval
<1>. QED
  BY <1>3, <1>4, <1>8, <1>9, FS_Bijection DEF n

(* Every cluster that a record names, be it one that a power cut or a      *)
(* dropped future has torn, is allocated, no system cluster, and in its    *)
(* file once (update order in append and remove).                          *)
THEOREM RecordsAllocated ==
    ASSUME VolumeApart, NeverTruncated, HandlesTrusted, WholeClusters, "io" \notin Faults
    PROVE  Spec => []ExtentsAllocated
<1>1. ASSUME TypeOK, NoCrossLink, Layout, RecordsLaid PROVE ExtentsAllocated
  <2>1. ASSUME NEW f \in Files, NEW s \in Records(f)
        PROVE  /\ Cardinality(Extent(s)) = CeilDiv(s.data, ClusterBytes)
               /\ Extent(s) \subseteq used \ SystemClusters
    <3>1. f \in live /\ (s = stream[f] \/ s = sealed[f])
      BY <2>1 DEF Records
    <3>2. Located(s) /\ Laid(fat, s) /\ fat \in Links
      <4>1. s \in Stream /\ Laid(fat, s) /\ fat \in Links
        BY <1>1, <3>1 DEF TypeOK, VolumeTypeOK, Links, Layout, RecordsLaid
      <4>. QED
        BY <4>1 DEF Stream, Located
    <3>3. Cardinality(Extent(s)) = Count(s) /\ Extent(s) \subseteq Clusters
      BY <3>2, LaidExtent
    <3>4. Extent(s) \cap Clusters \subseteq used \ SystemClusters
      BY <1>1, <2>1 DEF NoCrossLink
    <3>. QED
      BY <3>3, <3>4 DEF Count
  <2>. QED
    BY <2>1 DEF ExtentsAllocated
<1>. QED
  BY <1>1, TypeCorrect, NoCrossLinks, LayoutInvariant, RecordInvariant, PTL


-----------------------------------------------------------------------------
(* The first k bytes of a stream were written to f.                        *)
Holds(F, D, s, f, k) ==
    \A p \in 0..(k - 1) :
        D[ChainIn(F, s)[p \div ClusterBytes]][p % ClusterBytes] \in Payload[f]

(* How far a growing file has its bytes: while append moves them, up to    *)
(* the position, before and after it over the handle's whole length.       *)
Filled == IF Moving THEN mine.pos ELSE mine.valid

(* Clusters that belong to a file hold its bytes or zeroes, as the one     *)
(* that an append has claimed does.                                        *)
BytesOwned(o) ==
    /\ \A c \in Clusters : o[c] \in Files =>
         \A b \in 0..(ClusterBytes - 1) : data[c][b] \in Payload[o[c]] \cup {Zero}
    /\ op.pc \in {"mark", "terminate"} => \A b \in 0..(ClusterBytes - 1) : data[op.new][b] = Zero

(* A torn record, too, is no longer than the heap.                         *)
Content(o) ==
    /\ \A f \in live : Holds(fat, data, sealed[f], f, sealed[f].valid)
    /\ \A f \in live : Count(stream[f]) <= ClusterCount
    /\ op.kind = "append" => Holds(fat, data, mine, op.file, Filled)
    /\ op.kind \in {"append", "write"} => op.value \in Payload[op.file]
    /\ BytesOwned(o)

(* Every position of a length lies in one of its clusters.                 *)
LEMMA PositionIndex ==
    ASSUME NEW s, Located(s), NEW k \in Nat, k <= s.data, NEW p \in 0..(k - 1)
    PROVE  p \div ClusterBytes \in 0..(Count(s) - 1) /\ p % ClusterBytes \in 0..(ClusterBytes - 1)
<1>1. p \in Nat /\ s.data \in Nat /\ p < s.data
  BY DEF Located
<1>2. p \div ClusterBytes \in Nat /\ p \div ClusterBytes < Count(s) /\ Count(s) \in Nat
  BY <1>1, CeilMonotone, ClusterCounts, Counted DEF Count
<1>3. p % ClusterBytes \in 0..(ClusterBytes - 1)
  BY <1>1, Parameters
<1>. QED
  BY <1>2, <1>3

(* Bytes that stay, in clusters that stay, are still held.                 *)
LEMMA HoldsKept ==
    ASSUME NEW F, NEW G, NEW D, NEW E, NEW s, NEW t, NEW f, NEW k \in Nat,
           Located(s), k <= s.data, Holds(F, D, s, f, k),
           \A i \in 0..(Count(s) - 1) : ChainIn(G, t)[i] = ChainIn(F, s)[i],
           \A i \in 0..(Count(s) - 1) : \A b \in 0..(ClusterBytes - 1) :
             \/ E[ChainIn(F, s)[i]][b] = D[ChainIn(F, s)[i]][b]
             \/ E[ChainIn(F, s)[i]][b] \in Payload[f]
    PROVE  Holds(G, E, t, f, k)
<1>. SUFFICES ASSUME NEW p \in 0..(k - 1)
              PROVE  E[ChainIn(G, t)[p \div ClusterBytes]][p % ClusterBytes] \in Payload[f]
  BY DEF Holds
<1>. DEFINE i == p \div ClusterBytes
            b == p % ClusterBytes
<1>1. i \in 0..(Count(s) - 1) /\ b \in 0..(ClusterBytes - 1)
  BY PositionIndex
<1>2. D[ChainIn(F, s)[i]][b] \in Payload[f]
  BY DEF Holds
<1>. HIDE DEF i, b, ChainIn
<1>3. ChainIn(G, t)[i] = ChainIn(F, s)[i]
  BY <1>1
<1>4. E[ChainIn(F, s)[i]][b] \in Payload[f]
  BY <1>1, <1>2
<1>5. E[ChainIn(G, t)[i]][b] \in Payload[f]
  BY <1>3, <1>4
<1>. QED
  BY <1>5 DEF i, b

(* The chain of a stream whose links stay.                                 *)
LEMMA PlacesKept ==
    ASSUME NEW F \in Links, NEW G \in Links, NEW s, Located(s), NEW t, Located(t), Laid(F, s),
           t.first = s.first, t.nofat = s.nofat,
           s.nofat \/ \A i \in 0..(Count(s) - 2) : G[ChainIn(F, s)[i]] = F[ChainIn(F, s)[i]]
    PROVE  \A i \in 0..(Count(s) - 1) : ChainIn(G, t)[i] = ChainIn(F, s)[i]
<1>. DEFINE k == Count(s) - 1
<1>1. Count(s) \in Nat /\ Count(s) <= ClusterCount /\ ClusterCount \in Nat
  BY Counted, Parameters DEF Laid
<1>2. CASE Count(s) = 0
  BY <1>2
<1>3. CASE Count(s) # 0
  <2>1. k \in 0..ClusterCount /\ k - 1 = Count(s) - 2
    BY <1>1, <1>3
  <2>2. Clusters \subseteq FatSlots
    BY Parameters DEF Clusters, FatSlots
  <2>3. \A i \in 0..(k - 1) : i \in 0..(Count(s) - 2) /\ i \in 0..(Count(s) - 1)
    BY <1>1
  <2>. HIDE DEF k, ChainIn
  <2>4. s.nofat \/ \A i \in 0..(k - 1) :
                      /\ ChainIn(F, s)[i] \in FatSlots
                      /\ G[ChainIn(F, s)[i]] = F[ChainIn(F, s)[i]]
    BY <2>2, <2>3 DEF Laid
  <2>5. \A i \in 0..k : ChainIn(G, t)[i] = ChainIn(F, s)[i]
    BY <2>1, <2>4, SameChain
  <2>. QED
    BY <2>5 DEF k
<1>. QED
  BY <1>1, <1>2, <1>3

-----------------------------------------------------------------------------
(* The growing file keeps its clusters.                                    *)

(* A step of append leaves the clusters it has and their order.            *)
LEMMA MineKept ==
    ASSUME NEW o, Laying(o), TypeOK', Layout', Step, op.kind = "append", op'.kind = "append"
    PROVE  /\ op'.file = op.file /\ op'.saved = op.saved
           /\ \A i \in 0..(Count(mine) - 1) : ChainIn(fat', mine')[i] = ChainIn(fat, mine)[i]
<1>1. ~At("idle")
  BY IdleFields DEF Laying, Owning, KindOK
<1>2. /\ op \in OpType /\ op.file \in Files /\ handle \in [Files -> HandleType] /\ mine \in HandleType
      /\ mine = handle[op.file] /\ Located(mine) /\ Laid(fat, mine) /\ Count(mine) \in Nat
      /\ (mine.data = 0 <=> Count(mine) = 0) /\ (mine.data = 0 <=> mine.first = 0)
  BY <1>1, LayingCall
<1>3. fat \in Links /\ fat' \in Links
  BY DEF Laying, Owning, TypeOK, VolumeTypeOK, Links
<1>4. /\ op.pc \in {"claim", "mark", "terminate", "materialize", "link"} /\ mine.data # 0 =>
           op.tail = ChainIn(fat, mine)[Count(mine) - 1]
      /\ op.pc \in {"materialize", "link"} => mine.data # 0 /\ ~InChain(op.new)
      /\ At("materialize") => mine.nofat
  BY DEF Laying, Layout, CursorsPlaced, Owning, Owned, CursorsOwned
<1>. DEFINE Same == \A i \in 0..(Count(mine) - 1) : ChainIn(fat', mine')[i] = ChainIn(fat, mine)[i]
<1>5. ASSUME Continues PROVE op'.file = op.file /\ op'.saved = op.saved /\ Located(mine')
  <2>1. op'.file = op.file /\ op'.saved = op.saved /\ mine' = handle'[op.file]
    BY <1>5 DEF Continues, mine
  <2>2. handle'[op.file] \in HandleType
    BY <1>2 DEF TypeOK, MemoryTypeOK
  <2>. QED
    BY <2>1, <2>2 DEF HandleType, Located
<1>6. ASSUME Continues, mine'.first = mine.first, mine'.nofat = mine.nofat,
             mine.nofat \/ \A i \in 0..(Count(mine) - 2) : fat'[ChainIn(fat, mine)[i]] = fat[ChainIn(fat, mine)[i]]
      PROVE  Same
  <2>. HIDE DEF ChainIn
  <2>. QED
    BY ONLY <1>2, <1>3, <1>5, <1>6, PlacesKept
<1>7. ASSUME handle' = handle, Continues PROVE mine' = mine
  BY <1>7 DEF mine, Continues
<1>8. ASSUME NEW h, SetMine(h), Continues PROVE mine' = h
  BY <1>2, <1>8 DEF mine, SetMine, Continues
<1>9. CASE GrowEmpty \/ GrowContiguous \/ GrowChained \/ FollowTail \/ FoundTail \/ Claim \/ MarkUsed
  <2>1. Continues /\ handle' = handle /\ fat' = fat
    BY <1>2, <1>9 DEF GrowEmpty, GrowContiguous, GrowChained, FollowTail, FoundTail, Claim, MarkUsed,
       Goto, Continues, OpType, device
  <2>. QED
    BY <1>5, <1>6, <1>7, <2>1
<1>10. CASE SeekContiguous \/ SeekChained \/ Walk \/ UpdateStream
  <2>1. Continues /\ handle' = handle /\ fat' = fat
    BY <1>2, <1>10 DEF SeekContiguous, SeekChained, Walk, UpdateStream, Goto, Continues, OpType, device
  <2>. QED
    BY <1>5, <1>6, <1>7, <2>1
<1>11. CASE Grown \/ Arrive \/ TransferChunk
  <2>1. Continues /\ fat' = fat
    <3>1. op' # Idle
      BY <1>11, IdleFields
    <3>. QED
      BY <1>2, <1>11, <3>1 DEF Grown, Arrive, TransferChunk, AfterTransfer, Continues, OpType, device
  <2>2. \E x, y, z, w : \/ SetMine([mine EXCEPT !.pos = x, !.valid = y])
                        \/ SetMine([mine EXCEPT !.cachedIndex = z, !.cachedCluster = w])
                        \/ SetMine([mine EXCEPT !.pos = x])
    BY <1>11 DEF Grown, Arrive, TransferChunk
  <2>3. mine'.first = mine.first /\ mine'.nofat = mine.nofat
    BY <1>2, <1>8, <2>1, <2>2 DEF HandleType
  <2>. QED
    BY <1>5, <1>6, <2>1, <2>3
<1>12. CASE TerminateFirst
  <2>1. Continues /\ mine.first = 0
    BY <1>2, <1>12 DEF TerminateFirst, GrowAgain, Continues, OpType
  <2>2. Same
    BY <1>2, <2>1
  <2>. QED
    BY <1>5, <2>1, <2>2
<1>13. CASE TerminateAdjacent
  <2>1. Continues /\ mine.nofat /\ SetMine(AddCluster(mine))
    BY <1>2, <1>13 DEF TerminateAdjacent, Adjacent, GrowAgain, Continues, OpType
  <2>2. mine'.first = mine.first /\ mine'.nofat = mine.nofat
    BY <1>2, <1>8, <2>1, LongerHandle
  <2>. QED
    BY <1>5, <1>6, <2>1, <2>2
<1>14. CASE TerminateDetached
  <2>1. Continues /\ handle' = handle
    BY <1>2, <1>14 DEF TerminateDetached, Goto, Continues, OpType
  <2>2. \A i \in 0..(Count(mine) - 1) : ChainIn(fat', mine)[i] = ChainIn(fat, mine)[i]
    BY <1>14, NewTerminated DEF TerminateDetached
  <2>. QED
    BY <1>5, <1>7, <2>1, <2>2
<1>15. CASE Materialize
  <2>1. Continues /\ handle' = handle /\ mine.nofat
    BY <1>2, <1>4, <1>15 DEF Materialize, Continues, OpType
  <2>. QED
    BY <1>5, <1>6, <1>7, <2>1
<1>16. CASE Materialized
  <2>1. Continues /\ fat' = fat /\ SetMine(Uncached([mine EXCEPT !.nofat = FALSE])) /\ mine.nofat
        /\ op.pc = "materialize"
    BY <1>2, <1>4, <1>16 DEF Materialized, Goto, Continues, OpType, device, At
  <2>2. mine'.first = mine.first /\ ~mine'.nofat /\ mine'.data = mine.data
    BY <1>2, <1>8, <2>1 DEF Uncached, HandleType
  <2>3. \A i \in 0..(Count(mine) - 2) : fat[mine.first + i] = mine.first + i + 1
    <3>1. ~(op.idx + 1 < mine.data \div ClusterBytes) /\ op.idx \in Nat
      BY <1>2, <1>16 DEF Materialized, LinksMissing, OpType
    <3>2. mine.data \div ClusterBytes = Count(mine)
      BY <1>1, <1>2, LayingCall, ClusterCounts DEF Count, HandleType
    <3>3. \A i \in 0..(op.idx - 1) : fat[mine.first + i] = mine.first + i + 1
      BY <2>1 DEF Laying, Layout, CursorsPlaced, At
    <3>4. \A i \in 0..(Count(mine) - 2) : i \in 0..(op.idx - 1)
      BY <1>2, <3>1, <3>2
    <3>. QED
      BY <3>3, <3>4
  <2>4. Same
    BY <1>2, <1>3, <1>5, <2>1, <2>2, <2>3, StretchLinked
  <2>. QED
    BY <1>5, <2>1, <2>4
<1>17. CASE Link
  <2>1. Continues /\ SetMine(AddCluster(mine)) /\ op.pc = "link" /\ fat' = [fat EXCEPT ![op.tail] = op.new]
    BY <1>2, <1>17 DEF Link, GrowAgain, SetFat, Continues, OpType, At
  <2>2. mine'.first = mine.first /\ mine'.nofat = mine.nofat
    BY <1>2, <1>8, <2>1, LongerHandle
  <2>3. ASSUME NEW i \in 0..(Count(mine) - 2)
        PROVE  fat'[ChainIn(fat, mine)[i]] = fat[ChainIn(fat, mine)[i]]
    <3>1. i \in 0..(Count(mine) - 1) /\ Count(mine) - 1 \in 0..(Count(mine) - 1) /\ i # Count(mine) - 1
      BY <1>2
    <3>2. ChainIn(fat, mine)[i] # op.tail
      BY <1>2, <1>4, <2>1, <3>1 DEF Laid
    <3>3. ChainIn(fat, mine)[i] \in FatSlots
      BY <1>2, <3>1, Parameters DEF Laid, Clusters, FatSlots
    <3>. HIDE DEF ChainIn
    <3>. QED
      BY <1>3, <2>1, <3>2, <3>3 DEF Links
  <2>. QED
    BY <1>5, <1>6, <2>1, <2>2, <2>3
<1>18. CASE Seal \/ ReturnError
  BY <1>18, IdleFields DEF Seal, ReturnError, Fail
<1>19. CASE KeepContiguous \/ KeepFollow \/ KeepFound \/ Cut \/ FreeLink \/ Unmark \/ Freed
  <2>1. op.pc \in {"keep", "cut", "free", "unmark"} /\ ~At("idle")
    BY <1>19 DEF KeepContiguous, KeepFollow, KeepFound, Cut, FreeLink, Unmark, Freed, At
  <2>. QED
    BY <2>1 DEF Laying, Owning, KindOK
<1>. QED
  BY <1>9, <1>10, <1>11, <1>12, <1>13, <1>14, <1>15, <1>16, <1>17, <1>18, <1>19 DEF Step

-----------------------------------------------------------------------------
(* The sealed records keep theirs.                                         *)

(* The clusters of the record that a growing file started from.            *)
LEMMA SealedInMine ==
    ASSUME NEW o, Laying(o), op.kind = "append", ~sealed[op.file].nofat
    PROVE  /\ Count(sealed[op.file]) <= Count(mine)
           /\ Count(sealed[op.file]) # 0 => mine.first = sealed[op.file].first /\ ~mine.nofat
           /\ \A i \in 0..(Count(sealed[op.file]) - 1) :
                ChainIn(fat, sealed[op.file])[i] = ChainIn(fat, mine)[i]
<1>. DEFINE s == sealed[op.file]
<1>1. /\ s.first = op.saved.first /\ s.data = op.saved.data /\ s.nofat = op.saved.nofat /\ Located(s)
      /\ Located(op.saved) /\ Laid(fat, op.saved) /\ Laid(fat, mine) /\ Count(op.saved) <= Count(mine)
  BY SavedLaid
<1>2. ~At("idle") /\ fat \in Links
  BY IdleFields DEF Laying, Owning, KindOK, TypeOK, VolumeTypeOK, Links
<1>3. Located(mine)
  BY <1>1, <1>2, LayingCall
<1>. HIDE DEF s
<1>4. Laid(fat, s) /\ Count(s) = Count(op.saved)
  BY <1>1, <1>2, SamePlaces
<1>5. Count(s) # 0 => s.data # 0
  BY <1>1, Counted
<1>6. ~s.nofat
  BY DEF s
<1>7. Count(s) # 0 => mine.first = s.first /\ ~mine.nofat
  BY <1>1, <1>5, <1>6 DEF Laying, Layout, Growth
<1>8. \A i \in 0..(Count(s) - 1) : ChainIn(fat, s)[i] = ChainIn(fat, mine)[i]
  <2>1. CASE Count(s) = 0
    BY <2>1
  <2>2. CASE Count(s) # 0
    <3>1. mine.nofat = s.nofat
      BY <1>1, <1>3, <1>6, <1>7, <2>2 DEF Located
    <3>2. \A i \in 0..(Count(s) - 1) : ChainIn(fat, mine)[i] = ChainIn(fat, s)[i]
      BY <1>1, <1>2, <1>3, <1>4, <1>7, <2>2, <3>1, PlacesKept
    <3>. QED
      BY <3>2
  <2>. QED
    BY <2>1, <2>2
<1>. QED
  BY <1>1, <1>4, <1>7, <1>8 DEF s

(* A step leaves the clusters of every record and their order.             *)
LEMMA SealedKept ==
    ASSUME NEW o, Laying(o), TypeOK', Layout', Step, NEW f \in live
    PROVE  \A i \in 0..(Count(sealed[f]) - 1) : ChainIn(fat', sealed[f])[i] = ChainIn(fat, sealed[f])[i]
<1>. DEFINE s == sealed[f]
<1>1. f \in Files /\ fat \in Links /\ fat' \in Links /\ f # None
  BY Parameters DEF Laying, Owning, TypeOK, VolumeTypeOK, Links
<1>2. Located(s) /\ Laid(fat, s) /\ Owns(o, f, s)
  <2>1. s \in Stream /\ Laid(fat, s) /\ Owns(o, f, s)
    BY <1>1 DEF Laying, Owning, TypeOK, VolumeTypeOK, Owned, RecordsOwned, Layout
  <2>. QED
    BY <2>1 DEF Stream, Located
<1>. HIDE DEF s
<1>3. CASE fat' = fat
  BY <1>3 DEF s
<1>4. CASE fat' # fat /\ f # op.file
  <2>1. PICK x \in Clusters :
           o[x] \in {None, op.file} /\ \A c \in FatSlots : c # x => fat'[c] = fat[c]
    BY <1>4, OneLink
  <2>2. o[x] # f
    BY <1>1, <1>4, <2>1
  <2>. QED
    BY <1>1, <1>2, <2>1, <2>2, ChainKept DEF s
<1>5. CASE fat' # fat /\ f = op.file
  <2>1. op.kind = "append" /\ op'.kind = "append"
    <3>1. ~At("idle")
      BY <1>1, <1>5 DEF Laying, Owning, TypeOK, OpTypeOK, At
    <3>2. op.kind # "remove"
      BY <1>5 DEF Laying, Owning, Owned, CallOwned
    <3>3. /\ TerminateFirst \/ TerminateAdjacent \/ TerminateDetached
             \/ Materialize \/ Link \/ Cut \/ FreeLink
          /\ op.pc \in {"terminate", "materialize", "link", "cut", "free"}
      <4>1. TerminateFirst \/ TerminateAdjacent \/ TerminateDetached
            \/ Materialize \/ Link \/ Cut \/ FreeLink
        BY <1>5, LinkSteps
      <4>. QED
        BY <4>1 DEF TerminateFirst, TerminateAdjacent, TerminateDetached, Terminate, Materialize,
           Link, Cut, FreeLink, At
    <3>4. op.kind = "append" /\ op.pc \in {"terminate", "materialize", "link"}
      BY <3>1, <3>2, <3>3, OwningCall DEF Laying, Owning, KindOK
    <3>5. TerminateFirst \/ TerminateAdjacent \/ TerminateDetached \/ Materialize \/ Link
      BY <3>3, <3>4 DEF Cut, FreeLink, At
    <3>6. op'.kind = op.kind
      BY <3>1, <3>5, OwningCall DEF Laying, TerminateFirst, TerminateAdjacent, TerminateDetached,
         Materialize, Link, GrowAgain, Goto, OpType
    <3>. QED
      BY <3>4, <3>6
  <2>2. /\ op'.file = op.file /\ op'.saved = op.saved
        /\ \A i \in 0..(Count(mine) - 1) : ChainIn(fat', mine')[i] = ChainIn(fat, mine)[i]
    BY <2>1, MineKept
  <2>3. /\ s.first = op.saved.first /\ s.data = op.saved.data /\ s.nofat = op.saved.nofat
    BY <1>5, <2>1, SavedLaid DEF s
  <2>4. CASE s.nofat
    BY <1>1, <1>2, <2>4, PlacesKept DEF s
  <2>5. CASE ~s.nofat
    <3>1. /\ Count(s) <= Count(mine)
          /\ \A i \in 0..(Count(s) - 1) : ChainIn(fat, s)[i] = ChainIn(fat, mine)[i]
      BY <1>5, <2>1, <2>5, SealedInMine DEF s
    <3>2. Located(mine') /\ Laid(fat', mine')
      <4>1. mine' \in HandleType
        BY <1>1, <1>5, <2>2 DEF TypeOK, MemoryTypeOK, mine
      <4>. QED
        BY <2>1, <4>1 DEF HandleType, Located, Layout, Growth
    <3>3. s.data # 0 => mine'.first = s.first /\ mine'.nofat = s.nofat /\ s.data <= mine'.data
      BY <1>2, <2>1, <2>2, <2>3, <2>5, <3>2 DEF Layout, Growth, Located
    <3>4. Count(s) \in Nat /\ Count(mine) \in Nat /\ (Count(s) # 0 => s.data # 0)
      BY <1>2, <2>1, LayingCall, Counted, IdleFields DEF Laying, Owning, KindOK
    <3>5. CASE Count(s) = 0
      BY <3>5 DEF s
    <3>6. CASE Count(s) # 0
      <4>1. Count(s) <= Count(mine')
        BY <1>2, <3>2, <3>3, <3>4, <3>6, CeilMonotone DEF Count, Located
      <4>2. Count(mine') \in Nat
        BY <3>2, Counted
      <4>3. \A i \in 0..(Count(mine') - 1) : ChainIn(fat', s)[i] = ChainIn(fat', mine')[i]
        BY <1>1, <1>2, <3>2, <3>3, <3>4, <3>6, PlacesKept
      <4>. HIDE DEF ChainIn
      <4>4. ASSUME NEW i \in 0..(Count(s) - 1) PROVE ChainIn(fat', s)[i] = ChainIn(fat, s)[i]
        <5>1. i \in 0..(Count(mine') - 1) /\ i \in 0..(Count(mine) - 1)
          BY <3>1, <3>4, <4>1, <4>2
        <5>. QED
          BY <2>2, <3>1, <4>3, <5>1
      <4>. QED
        BY <4>4 DEF s
    <3>. QED
      BY <3>5, <3>6
  <2>. QED
    BY <2>4, <2>5
<1>. QED
  BY <1>3, <1>4, <1>5

-----------------------------------------------------------------------------
(* What a step does to bytes.                                              *)

(* Only claiming a cluster and moving a chunk touch bytes.                 *)
LEMMA ByteSteps ==
    ASSUME TypeOK, Step, ~Claim, ~TransferChunk
    PROVE  /\ data' = data
           /\ op'.pc \in {"mark", "terminate"} =>
                op.pc \in {"mark", "terminate"} /\ ~At("terminate") /\ op'.new = op.new
<1>1. op \in OpType
  BY DEF TypeOK, OpTypeOK
<1>2. CASE GrowEmpty \/ GrowContiguous \/ GrowChained \/ FollowTail \/ FoundTail
  <2>1. op'.pc \in {"claim", "tail"} /\ data' = data
    BY <1>1, <1>2 DEF GrowEmpty, GrowContiguous, GrowChained, FollowTail, FoundTail, Goto, device, OpType, At
  <2>. QED
    BY <2>1
<1>9. CASE MarkUsed
  <2>1. op.pc = "mark" /\ op'.new = op.new /\ data' = data
    BY <1>1, <1>9 DEF MarkUsed, Goto, OpType, At
  <2>. QED
    BY <2>1 DEF At
<1>3. CASE TerminateFirst \/ TerminateAdjacent \/ TerminateDetached \/ Materialize
  BY <1>1, <1>3 DEF TerminateFirst, TerminateAdjacent, TerminateDetached, Materialize, GrowAgain, Goto,
     OpType, At
<1>4. CASE Materialized \/ Link \/ Grown
  BY <1>1, <1>4 DEF Materialized, Link, Grown, GrowAgain, Goto, OpType, device
<1>5. CASE SeekContiguous \/ SeekChained \/ Walk \/ Arrive \/ UpdateStream
  BY <1>1, <1>5 DEF SeekContiguous, SeekChained, Walk, Arrive, UpdateStream, Goto, OpType, device, At
<1>6. CASE KeepContiguous \/ KeepFollow \/ KeepFound \/ Cut
  BY <1>1, <1>6 DEF KeepContiguous, KeepFollow, KeepFound, Cut, OpType, device, At
<1>7. CASE FreeLink \/ Unmark \/ Freed
  BY <1>1, <1>7, IdleFields DEF FreeLink, Unmark, Freed, OpType, device
<1>8. CASE Seal \/ ReturnError
  BY <1>8, IdleFields DEF Seal, ReturnError, Fail, device
<1>. QED
  BY <1>2, <1>3, <1>4, <1>5, <1>6, <1>7, <1>8, <1>9 DEF Step

(* The chunk goes to the operation's own file, from the value it carries.  *)
LEMMA ChunkBytes ==
    ASSUME NEW o, Laying(o), Content(o), TransferChunk
    PROVE  /\ op.file \in Files /\ op.file \in live /\ op.file # None
           /\ op.cl \in Clusters /\ o[op.cl] = op.file /\ op.cl = ChainIn(fat, mine)[Wanted]
           /\ data \in [Clusters -> [0..(ClusterBytes - 1) -> Values \cup {Zero}]]
           /\ \A c \in Clusters : c # op.cl => data'[c] = data[c]
           /\ \A b \in 0..(ClusterBytes - 1) :
                \/ data'[op.cl][b] = data[op.cl][b]
                \/ data'[op.cl][b] \in Payload[op.file]
           /\ op.kind = "append" => \A b \in Within..(Within + Chunk - 1) :
                b \in 0..(ClusterBytes - 1) => data'[op.cl][b] \in Payload[op.file]
<1>1. Moving /\ At("transfer")
  BY DEF TransferChunk, Moving, At
<1>2. /\ op.file \in Files /\ op.file \in live /\ op.file # None /\ op \in OpType
      /\ op.kind \in {"append", "read", "write"}
      /\ Owns(o, op.file, mine) /\ Located(mine) /\ Laid(fat, mine) /\ Count(mine) \in Nat
      /\ Wanted \in 0..(Count(mine) - 1) /\ Wanted \in 0..ClusterCount
  BY <1>1, PositionInside, Parameters
<1>3. op.cl = ChainIn(fat, mine)[Wanted] /\ op.cl \in Clusters
  BY <1>1, <1>2 DEF Laying, Layout, CursorsPlaced, Laid
<1>4. o[op.cl] = op.file
  <2>1. TypeOK /\ o \in OwnerMaps /\ LinksOwned(o)
    BY DEF Laying, Owning, Owned
  <2>2. Wanted < CeilDiv(mine.data, ClusterBytes)
    BY <1>2 DEF Count
  <2>. QED
    BY <1>2, <1>3, <2>1, <2>2, ChainOwned
<1>5. data \in [Clusters -> [0..(ClusterBytes - 1) -> Values \cup {Zero}]]
  BY DEF Laying, Owning, TypeOK, VolumeTypeOK
<1>6. CASE op.kind = "read"
  BY <1>2, <1>3, <1>4, <1>5, <1>6 DEF TransferChunk
<1>7. CASE op.kind # "read"
  <2>1. op.value \in Payload[op.file]
    BY <1>2, <1>7 DEF Content
  <2>2. data' = [data EXCEPT ![op.cl] = [b \in DOMAIN data[op.cl] |->
                    IF b \in Within..(Within + Chunk - 1) THEN op.value ELSE data[op.cl][b]]]
    BY <1>7 DEF TransferChunk
  <2>3. DOMAIN data[op.cl] = 0..(ClusterBytes - 1)
    BY <1>3, <1>5
  <2>. HIDE DEF Within, Chunk
  <2>4. \A c \in Clusters : c # op.cl => data'[c] = data[c]
    BY <1>5, <2>2
  <2>5. data'[op.cl] = [b \in 0..(ClusterBytes - 1) |->
                    IF b \in Within..(Within + Chunk - 1) THEN op.value ELSE data[op.cl][b]]
    BY <1>3, <1>5, <2>2, <2>3
  <2>6. \A b \in 0..(ClusterBytes - 1) : data'[op.cl][b] =
                    IF b \in Within..(Within + Chunk - 1) THEN op.value ELSE data[op.cl][b]
    BY <2>5
  <2>. QED
    BY <1>2, <1>3, <1>4, <1>5, <2>1, <2>4, <2>6
<1>. QED
  BY <1>6, <1>7

(* Claiming a cluster zeroes one that belongs to nobody.                   *)
LEMMA ClaimBytes ==
    ASSUME NEW o, Laying(o), Claim
    PROVE  /\ op'.new \in Clusters /\ o[op'.new] \notin live
           /\ \A c \in Clusters : c # op'.new => data'[c] = data[c]
           /\ \A b \in 0..(ClusterBytes - 1) : data'[op'.new][b] = Zero
<1>1. op \in OpType /\ data \in [Clusters -> [0..(ClusterBytes - 1) -> Values \cup {Zero}]]
  BY DEF Laying, Owning, TypeOK, OpTypeOK, VolumeTypeOK
<1>2. PICK c \in FreeBits : /\ data' = [data EXCEPT ![c] = [b \in DOMAIN data[c] |-> Zero]]
                            /\ op' = [op EXCEPT !.pc = "mark", !.new = c]
  BY DEF Claim
<1>3. op'.new = c /\ c \in Clusters /\ c \notin used
  BY <1>1, <1>2 DEF OpType, FreeBits
<1>4. o[c] \notin live
  BY <1>3 DEF Laying, Owning, Owned, BitsOwned
<1>5. DOMAIN data[c] = 0..(ClusterBytes - 1)
  BY <1>1, <1>3
<1>6. data'[c] = [b \in 0..(ClusterBytes - 1) |-> Zero]
  BY <1>1, <1>2, <1>3, <1>5
<1>. QED
  BY <1>1, <1>2, <1>3, <1>4, <1>6

(* Whatever a step writes over the bytes of a file are bytes of that file. *)
LEMMA OwnBytes ==
    ASSUME NEW o, Laying(o), Content(o), Step, NEW f \in live, NEW c \in Clusters, o[c] = f,
           NEW b \in 0..(ClusterBytes - 1)
    PROVE  data'[c][b] = data[c][b] \/ data'[c][b] \in Payload[f]
<1>1. CASE Claim
  BY <1>1, ClaimBytes
<1>2. CASE TransferChunk
  BY <1>2, ChunkBytes
<1>3. CASE ~Claim /\ ~TransferChunk
  BY <1>3, ByteSteps DEF Laying, Owning
<1>. QED
  BY <1>1, <1>2, <1>3

(* So the bytes of a laid stream of a file stay its own.                   *)
LEMMA StreamBytes ==
    ASSUME NEW o, Laying(o), Content(o), Step, NEW f \in live, NEW s, Located(s), Laid(fat, s), Owns(o, f, s),
           NEW i \in 0..(Count(s) - 1), NEW b \in 0..(ClusterBytes - 1)
    PROVE  \/ data'[ChainIn(fat, s)[i]][b] = data[ChainIn(fat, s)[i]][b]
           \/ data'[ChainIn(fat, s)[i]][b] \in Payload[f]
<1>1. TypeOK /\ o \in OwnerMaps /\ LinksOwned(o) /\ f \in Files
  BY DEF Laying, Owning, Owned, TypeOK, VolumeTypeOK
<1>2. Count(s) \in Nat /\ Count(s) <= ClusterCount /\ ClusterCount \in Nat
  BY Counted, Parameters DEF Laid
<1>3. i \in 0..ClusterCount /\ i < CeilDiv(s.data, ClusterBytes)
  BY <1>2 DEF Count
<1>4. ChainIn(fat, s)[i] \in Clusters
  BY DEF Laid
<1>5. o[ChainIn(fat, s)[i]] = f
  BY <1>1, <1>3, <1>4, ChainOwned
<1>. HIDE DEF ChainIn
<1>. QED
  BY <1>4, <1>5, OwnBytes

-----------------------------------------------------------------------------
(* How a step keeps the content.                                           *)

(* Owned clusters: the cluster that terminate hands over is zeroed.        *)
LEMMA StepBytesOwned ==
    ASSUME NEW o, Laying(o), Content(o), Step, NEW w, Handover(o, w)
    PROVE  BytesOwned(w)'
<1>1. /\ op \in OpType /\ None \notin Files /\ data \in [Clusters -> [0..(ClusterBytes - 1) -> Values \cup {Zero}]]
      /\ TypeOK
  BY Parameters DEF Laying, Owning, TypeOK, OpTypeOK, VolumeTypeOK
<1>2. /\ \A c \in Clusters : o[c] \in Files =>
           \A b \in 0..(ClusterBytes - 1) : data[c][b] \in Payload[o[c]] \cup {Zero}
      /\ op.pc \in {"mark", "terminate"} => \A b \in 0..(ClusterBytes - 1) : data[op.new][b] = Zero
  BY DEF Content, BytesOwned
<1>3. ASSUME NEW c \in Clusters, w[c] \in Files, NEW b \in 0..(ClusterBytes - 1)
      PROVE  data'[c][b] \in Payload[w[c]] \cup {Zero}
  <2>1. w[c] = o[c] \/ (At("terminate") /\ c = op.new)
    BY <1>1, <1>3 DEF Handover
  <2>2. CASE At("terminate") /\ c = op.new
    <3>1. ~Claim /\ ~TransferChunk /\ op.pc = "terminate"
      BY <2>2 DEF At, Claim, TransferChunk
    <3>. QED
      BY <1>1, <1>2, <2>2, <3>1, ByteSteps
  <2>3. CASE w[c] = o[c]
    <3>1. data[c][b] \in Payload[w[c]] \cup {Zero}
      BY <1>2, <1>3, <2>3
    <3>2. CASE Claim
      BY <3>1, <3>2, ClaimBytes
    <3>3. CASE TransferChunk
      BY <2>3, <3>1, <3>3, ChunkBytes
    <3>4. CASE ~Claim /\ ~TransferChunk
      BY <1>1, <3>1, <3>4, ByteSteps
    <3>. QED
      BY <3>2, <3>3, <3>4
  <2>. QED
    BY <2>1, <2>2, <2>3
<1>4. ASSUME op'.pc \in {"mark", "terminate"}, NEW b \in 0..(ClusterBytes - 1)
      PROVE  data'[op'.new][b] = Zero
  <2>1. CASE Claim
    BY <2>1, ClaimBytes
  <2>2. CASE TransferChunk
    <3>1. op'.pc \in {"stream", "seek", "idle"}
      BY <1>1, <2>2, IdleFields DEF TransferChunk, AfterTransfer, OpType
    <3>. QED
      BY <1>4, <3>1
  <2>3. CASE ~Claim /\ ~TransferChunk
    BY <1>1, <1>2, <1>4, <2>3, ByteSteps
  <2>. QED
    BY <2>1, <2>2, <2>3
<1>. QED
  BY <1>3, <1>4 DEF BytesOwned

(* The sealed records: sealing takes over what append has filled.          *)
LEMMA StepRecordBytes ==
    ASSUME NEW o, Laying(o), Content(o), TypeOK', Layout', Step
    PROVE  \A f \in live' : Holds(fat', data', sealed'[f], f, sealed'[f].valid)
<1>1. /\ fat \in Links /\ live \subseteq Files /\ sealed \in [Files -> Stream]
      /\ None \notin Files /\ TypeOK
  BY Parameters DEF Laying, Owning, TypeOK, VolumeTypeOK, Links
<1>2. ASSUME NEW f \in live
      PROVE  /\ Located(sealed[f]) /\ Laid(fat, sealed[f]) /\ Owns(o, f, sealed[f])
             /\ sealed[f].valid \in Nat /\ sealed[f].valid <= sealed[f].data
             /\ Holds(fat, data, sealed[f], f, sealed[f].valid)
  <2>1. sealed[f] \in Stream /\ f \in Files
    BY <1>1
  <2>2. sealed[f].valid <= sealed[f].data
    BY <2>1 DEF Laying, LengthsOK, Fits
  <2>. QED
    BY <2>1, <2>2 DEF Stream, Located, Laying, Layout, Owning, Owned, RecordsOwned, Content
<1>3. ASSUME NEW f \in live PROVE Holds(fat', data', sealed[f], f, sealed[f].valid)
  <2>1. \A i \in 0..(Count(sealed[f]) - 1) : ChainIn(fat', sealed[f])[i] = ChainIn(fat, sealed[f])[i]
    BY SealedKept
  <2>2. \A i \in 0..(Count(sealed[f]) - 1) : \A b \in 0..(ClusterBytes - 1) :
          \/ data'[ChainIn(fat, sealed[f])[i]][b] = data[ChainIn(fat, sealed[f])[i]][b]
          \/ data'[ChainIn(fat, sealed[f])[i]][b] \in Payload[f]
    BY <1>2, StreamBytes
  <2>. HIDE DEF Holds, ChainIn, Count
  <2>. QED
    BY ONLY <1>2, <2>1, <2>2, HoldsKept
<1>4. CASE Seal
  <2>1. /\ At("seal") /\ sealed' = [sealed EXCEPT ![op.file] = stream[op.file]]
        /\ UNCHANGED <<fat, data, live>> /\ ~At("idle") /\ op.kind # "remove" /\ ~Moving
    BY <1>4 DEF Seal, At, Moving, Laying, Owning, KindOK
  <2>2. /\ op.file \in Files /\ mine \in HandleType /\ Located(mine) /\ Laid(fat, mine)
        /\ op.kind \in {"append", "read", "write"} /\ mine = handle[op.file]
    BY <2>1, LayingCall
  <2>3. op.kind = "append"
    BY <2>1, <2>2 DEF Laying, Owning, KindOK, At
  <2>4. stream[op.file] = StreamOf(mine) /\ StreamOf(mine).valid = mine.valid
    BY <2>1 DEF Laying, HandleInv, CallMatches, StreamOf
  <2>5. Holds(fat, data, mine, op.file, mine.valid)
    BY <2>1, <2>3 DEF Content, Filled
  <2>6. mine.valid \in Nat /\ mine.valid <= mine.data
    BY <2>2 DEF HandleType, Laying, LengthsOK, Fits
  <2>7. \A i \in 0..(Count(mine) - 1) : ChainIn(fat, StreamOf(mine))[i] = ChainIn(fat, mine)[i]
    BY <1>1, <2>2, StreamLaid, ActiveChain
  <2>8. \A i \in 0..(Count(mine) - 1) : \A b \in 0..(ClusterBytes - 1) :
          \/ data[ChainIn(fat, mine)[i]][b] = data[ChainIn(fat, mine)[i]][b]
          \/ data[ChainIn(fat, mine)[i]][b] \in Payload[op.file]
    OBVIOUS
  <2>9. Holds(fat, data, StreamOf(mine), op.file, mine.valid)
    <3>. HIDE DEF Holds, ChainIn, Count, StreamOf
    <3>. QED
      BY ONLY <2>2, <2>5, <2>6, <2>7, <2>8, HoldsKept
  <2>10. ASSUME NEW f \in live PROVE Holds(fat', data', sealed'[f], f, sealed'[f].valid)
    <3>1. CASE f = op.file
      <4>1. sealed'[f] = StreamOf(mine)
        BY <1>1, <2>1, <2>2, <2>4, <3>1
      <4>. QED
        BY <2>1, <2>4, <2>9, <3>1, <4>1
    <3>2. CASE f # op.file
      <4>1. sealed'[f] = sealed[f]
        BY <1>1, <2>1, <3>2
      <4>. QED
        BY <1>3, <4>1
    <3>. QED
      BY <3>1, <3>2
  <2>. QED
    BY <2>1, <2>10
<1>5. CASE ~Seal
  <2>1. UNCHANGED <<live, sealed>>
    <3>1. CASE UpdateStream
      BY <3>1 DEF UpdateStream
    <3>. QED
      BY <1>5, <3>1, RecordsUntouched
  <2>. QED
    BY <1>3, <2>1
<1>. QED
  BY <1>4, <1>5

(* A step of append that moves no bytes fills no more and no less.         *)
LEMMA FilledStays ==
    ASSUME NEW o, Laying(o), Step, ~TransferChunk, op.kind = "append", op'.kind = "append"
    PROVE  Filled' = Filled
<1>1. ~At("idle")
  BY IdleFields DEF Laying, Owning, KindOK
<1>2. /\ op \in OpType /\ mine \in HandleType /\ handle \in [Files -> HandleType]
      /\ mine = handle[op.file] /\ op.file \in Files
  BY <1>1, LayingCall
<1>3. Continues
  BY StepContinues, IdleFields DEF Laying, Owning
<1>4. ASSUME handle' = handle PROVE mine' = mine
  BY <1>3, <1>4 DEF mine, Continues
<1>5. ASSUME NEW h, SetMine(h) PROVE mine' = h
  BY <1>2, <1>3, <1>5 DEF mine, SetMine, Continues
<1>6. CASE GrowEmpty \/ GrowContiguous \/ GrowChained \/ FollowTail \/ FoundTail
  <2>1. ~Moving /\ op'.pc \in {"claim", "tail"} /\ handle' = handle
    BY <1>2, <1>6 DEF GrowEmpty, GrowContiguous, GrowChained, FollowTail, FoundTail, Growing, Goto,
       OpType, At, Moving
  <2>. QED
    BY <1>4, <2>1 DEF Filled, Moving
<1>7. CASE Claim \/ MarkUsed \/ Materialize
  <2>1. ~Moving /\ op'.pc \in {"mark", "terminate", "materialize"} /\ handle' = handle
    BY <1>2, <1>7 DEF Claim, MarkUsed, Materialize, Goto, OpType, At, Moving
  <2>. QED
    BY <1>4, <2>1 DEF Filled, Moving
<1>8. CASE TerminateFirst \/ TerminateAdjacent \/ Link
  <2>1. ~Moving /\ op'.pc = "grow" /\ \E h \in HandleType : SetMine(h) /\ h.valid = mine.valid
    <3>1. ~Moving /\ op'.pc = "grow"
      BY <1>2, <1>8 DEF TerminateFirst, TerminateAdjacent, Terminate, Link, GrowAgain, OpType, At, Moving
    <3>2. op.new \in Clusters
      BY <1>8 DEF TerminateFirst, TerminateAdjacent, Terminate, Link, At, Laying, Owning, TypeOK, OpTypeOK
    <3>3. \E h \in HandleType : h.valid = mine.valid /\ SetMine(AddCluster(h))
      <4>1. [mine EXCEPT !.first = op.new] \in HandleType /\ [mine EXCEPT !.first = op.new].valid = mine.valid
        BY <1>2, <3>2 DEF HandleType
      <4>. QED
        BY <1>2, <1>8, <4>1 DEF TerminateFirst, TerminateAdjacent, Link
    <3>4. \A h \in HandleType : AddCluster(h).valid = h.valid
      BY DEF AddCluster, HandleType
    <3>. QED
      BY <3>1, <3>3, <3>4, AddClusterType
  <2>. QED
    BY <1>5, <2>1 DEF Filled, Moving
<1>9. CASE TerminateDetached
  <2>1. ~Moving /\ op'.pc \in {"materialize", "link"} /\ handle' = handle
    BY <1>2, <1>9 DEF TerminateDetached, Terminate, Goto, OpType, At, Moving
  <2>. QED
    BY <1>4, <2>1 DEF Filled, Moving
<1>10. CASE Materialized
  <2>1. ~Moving /\ op'.pc = "link" /\ SetMine(Uncached([mine EXCEPT !.nofat = FALSE]))
    BY <1>2, <1>10 DEF Materialized, Goto, OpType, At, Moving
  <2>2. mine'.valid = mine.valid
    BY <1>2, <1>5, <2>1 DEF Uncached, HandleType
  <2>. QED
    BY <2>1, <2>2 DEF Filled, Moving
<1>11. CASE Grown
  <2>1. ~Moving /\ op'.pc = "seek" /\ SetMine([mine EXCEPT !.pos = mine.valid, !.valid = NewEnd])
    BY <1>2, <1>11 DEF Grown, OpType, At, Moving
  <2>2. mine'.pos = mine.valid
    BY <1>2, <1>5, <2>1 DEF HandleType
  <2>. QED
    BY <2>1, <2>2 DEF Filled, Moving
<1>12. CASE SeekContiguous \/ SeekChained \/ Walk
  <2>1. Moving /\ op'.pc \in {"walk", "transfer"} /\ handle' = handle
    BY <1>2, <1>12 DEF SeekContiguous, SeekChained, Walk, OpType, At, Moving
  <2>. QED
    BY <1>4, <2>1 DEF Filled, Moving
<1>13. CASE Arrive
  <2>1. Moving /\ op'.pc = "transfer"
        /\ SetMine([mine EXCEPT !.cachedIndex = Wanted, !.cachedCluster = op.cl])
    BY <1>2, <1>13 DEF Arrive, OpType, At, Moving
  <2>2. mine'.pos = mine.pos
    BY <1>2, <1>5, <2>1 DEF HandleType
  <2>. QED
    BY <2>1, <2>2 DEF Filled, Moving
<1>14. CASE UpdateStream
  <2>1. ~Moving /\ op'.pc = "seal" /\ handle' = handle
    BY <1>2, <1>14 DEF UpdateStream, Goto, OpType, At, Moving
  <2>. QED
    BY <1>4, <2>1 DEF Filled, Moving
<1>15. CASE Seal \/ ReturnError
  BY <1>15, IdleFields DEF Seal, ReturnError, Fail
<1>16. CASE KeepContiguous \/ KeepFollow \/ KeepFound \/ Cut \/ FreeLink \/ Unmark \/ Freed
  <2>1. op.pc \in {"keep", "cut", "free", "unmark"}
    BY <1>16 DEF KeepContiguous, KeepFollow, KeepFound, Cut, FreeLink, Unmark, Freed, At
  <2>. QED
    BY <2>1 DEF Laying, Owning, KindOK
<1>. QED
  BY <1>6, <1>7, <1>8, <1>9, <1>10, <1>11, <1>12, <1>13, <1>14, <1>15, <1>16 DEF Step

(* Holds, from its definition.                                             *)
LEMMA HoldsAll ==
    ASSUME NEW F, NEW D, NEW s, NEW f, NEW k,
           \A p \in 0..(k - 1) : D[ChainIn(F, s)[p \div ClusterBytes]][p % ClusterBytes] \in Payload[f]
    PROVE  Holds(F, D, s, f, k)
BY DEF Holds

(* The bytes of a chunk lie in the sector of the position, from it on.     *)
LEMMA ChunkPlace ==
    ASSUME NEW pos \in Nat, NEW n \in Nat, n <= ClusterBytes - (pos % ClusterBytes),
           NEW p \in pos..(pos + n - 1)
    PROVE  /\ p \div ClusterBytes = pos \div ClusterBytes
           /\ p % ClusterBytes \in (pos % ClusterBytes)..((pos % ClusterBytes) + n - 1)
           /\ p % ClusterBytes \in 0..(ClusterBytes - 1)
<1>. DEFINE b == ClusterBytes
            q == pos \div b
            r == pos % b
            d == p - pos
<1>1. b \in Nat \ {0} /\ q \in Nat /\ r \in 0..(b - 1) /\ pos = b * q + r
  BY Parameters
<1>2. d \in 0..(n - 1) /\ p = pos + d /\ p \in Nat
  OBVIOUS
<1>3. r + d \in 0..(b - 1) /\ r + d \in r..(r + n - 1)
  BY <1>1, <1>2
<1>. HIDE DEF b, q, r, d
<1>4. p = b * q + (r + d)
  BY <1>1, <1>2
<1>5. PICK e \in 0..(b - 1) : e = r + d
  BY <1>3
<1>6. p = b * q + e
  BY <1>4, <1>5
<1>7. p \div b = q /\ p % b = r + d
  BY <1>1, <1>2, <1>5, <1>6
<1>. QED
  BY <1>3, <1>7 DEF b, q, r

(* A chunk of append fills as much more.                                   *)
LEMMA ChunkFills ==
    ASSUME op \in OpType, mine \in HandleType, handle \in [Files -> HandleType], op.file \in Files,
           TransferChunk, op.kind = "append", op'.file = op.file, Moving, mine.pos + op.rem = mine.valid
    PROVE  Filled' = mine.pos + Chunk
<1>1. mine' = [mine EXCEPT !.pos = @ + Chunk]
  BY DEF TransferChunk, SetMine, mine
<1>2. mine'.pos = mine.pos + Chunk /\ mine'.valid = mine.valid
  BY <1>1 DEF HandleType
<1>3. CASE op.rem = Chunk
  <2>1. op' = [op EXCEPT !.pc = "stream", !.rem = 0, !.cl = 0]
    BY <1>3 DEF TransferChunk, AfterTransfer
  <2>2. op'.pc = "stream"
    BY <2>1 DEF OpType
  <2>3. Filled' = mine'.valid
    BY <2>2 DEF Filled, Moving
  <2>. QED
    BY <1>2, <1>3, <2>3
<1>4. CASE op.rem # Chunk
  <2>1. op'.pc = "seek"
    BY <1>4 DEF TransferChunk, OpType
  <2>. QED
    BY <1>2, <2>1 DEF Filled, Moving
<1>. QED
  BY <1>3, <1>4

(* The growing file: its bytes, and those of the chunk.                    *)
LEMMA StepMineBytes ==
    ASSUME NEW o, Laying(o), Content(o), TypeOK', Layout', Step, op'.kind = "append"
    PROVE  Holds(fat', data', mine', op'.file, Filled')
<1>1. op.kind = "append" /\ op'.file = op.file /\ ~At("idle")
  <2>1. Continues
    BY StepContinues, IdleFields DEF Laying, Owning
  <2>. QED
    BY <2>1, IdleFields DEF Continues, Laying, Owning, KindOK
<1>2. /\ op \in OpType /\ op.file \in Files /\ op.file \in live /\ mine \in HandleType
      /\ handle \in [Files -> HandleType] /\ mine = handle[op.file]
      /\ Located(mine) /\ Laid(fat, mine) /\ Owns(o, op.file, mine) /\ Count(mine) \in Nat
  BY <1>1, LayingCall
<1>3. /\ Filled \in Nat /\ Filled <= mine.data /\ mine.valid \in Nat /\ mine.pos \in Nat
      /\ Holds(fat, data, mine, op.file, Filled)
      /\ Moving => op.rem \in Nat \ {0} /\ mine.pos + op.rem = mine.valid
  <2>1. mine.valid \in Nat /\ mine.pos \in Nat /\ mine.data \in Nat
    BY <1>2 DEF HandleType
  <2>2. mine.valid <= mine.data
    BY <1>2 DEF Laying, LengthsOK, Fits
  <2>3. Moving => op.rem \in Nat \ {0} /\ mine.pos + op.rem = mine.valid
    BY <1>1 DEF Laying, LengthsOK, CallFits
  <2>4. Holds(fat, data, mine, op.file, Filled)
    BY <1>1 DEF Content
  <2>. QED
    BY <2>1, <2>2, <2>3, <2>4 DEF Filled
<1>4. \A i \in 0..(Count(mine) - 1) : ChainIn(fat', mine')[i] = ChainIn(fat, mine)[i]
  BY <1>1, MineKept
<1>5. \A i \in 0..(Count(mine) - 1) : \A b \in 0..(ClusterBytes - 1) :
        \/ data'[ChainIn(fat, mine)[i]][b] = data[ChainIn(fat, mine)[i]][b]
        \/ data'[ChainIn(fat, mine)[i]][b] \in Payload[op.file]
  BY <1>2, StreamBytes
<1>6. Holds(fat', data', mine', op.file, Filled)
  <2>. HIDE DEF Holds, ChainIn, Count, Filled
  <2>. QED
    BY ONLY <1>2, <1>3, <1>4, <1>5, HoldsKept
<1>7. CASE ~TransferChunk
  <2>1. Filled' = Filled
    BY <1>1, <1>7, FilledStays
  <2>. QED
    BY <1>1, <1>6, <2>1
<1>8. CASE TransferChunk
  <2>1. Moving /\ Filled = mine.pos
    BY <1>8 DEF TransferChunk, At, Moving, Filled
  <2>2. /\ Chunk \in Nat /\ Chunk <= ClusterBytes - Within /\ Within = mine.pos % ClusterBytes
        /\ Chunk <= op.rem
    <3>1. Within \in 0..(ClusterBytes - 1) /\ ClusterBytes \in Nat
      BY <1>3, Parameters DEF Within
    <3>2. op.rem \in Nat
      BY <1>3, <2>1
    <3>. QED
      BY <3>1, <3>2 DEF Chunk, Within
  <2>5. Filled' = mine.pos + Chunk
    BY <1>1, <1>2, <1>3, <1>8, <2>1, ChunkFills
  <2>6. /\ op.cl = ChainIn(fat, mine)[Wanted] /\ Wanted \in 0..(Count(mine) - 1)
        /\ \A b \in Within..(Within + Chunk - 1) :
             b \in 0..(ClusterBytes - 1) => data'[op.cl][b] \in Payload[op.file]
    BY <1>1, <1>8, <2>1, ChunkBytes, PositionInside
  <2>7. PICK k, C, E : /\ k = mine.pos + Chunk /\ E = data'
                      /\ C = ChainIn(fat', mine')
    OBVIOUS
  <2>8. ASSUME NEW p \in 0..(k - 1)
        PROVE  E[C[p \div ClusterBytes]][p % ClusterBytes] \in Payload[op.file]
    <3>1. CASE p < mine.pos
      <4>1. p \in 0..(Filled - 1)
        BY <1>3, <2>1, <3>1
      <4>. QED
        BY <1>6, <2>7, <4>1 DEF Holds
    <3>2. CASE p >= mine.pos
      <4>1. p \in mine.pos..(mine.pos + Chunk - 1)
        BY <1>3, <2>2, <2>7, <3>2
      <4>2. /\ p \div ClusterBytes = Wanted
            /\ p % ClusterBytes \in Within..(Within + Chunk - 1)
            /\ p % ClusterBytes \in 0..(ClusterBytes - 1)
        <5>. HIDE DEF Chunk
        <5>. QED
          BY <1>3, <2>2, <4>1, ChunkPlace DEF Wanted
      <4>3. C[Wanted] = op.cl
        BY <1>4, <2>6, <2>7
      <4>4. data'[op.cl][p % ClusterBytes] \in Payload[op.file]
        BY <2>6, <4>2
      <4>. QED
        BY <2>7, <4>2, <4>3, <4>4
    <3>. QED
      BY <1>3, <2>2, <2>7, <3>1, <3>2
  <2>9. Holds(fat', data', mine', op.file, k)
    <3>1. \A p \in 0..(k - 1) : E[C[p \div ClusterBytes]][p % ClusterBytes] \in Payload[op.file]
      BY <2>8
    <3>2. \A p \in 0..(k - 1) :
            data'[ChainIn(fat', mine')[p \div ClusterBytes]][p % ClusterBytes] \in Payload[op.file]
      BY ONLY <2>7, <3>1, Zenon
    <3>. HIDE DEF Holds, ChainIn, mine
    <3>. QED
      BY ONLY <3>2, HoldsAll
  <2>. QED
    BY <1>1, <2>5, <2>7, <2>9
<1>. QED
  BY <1>7, <1>8

(* The streams that are written are no longer than the heap.               *)
LEMMA StepStreams ==
    ASSUME NEW o, Laying(o), Content(o), Step
    PROVE  \A f \in live' : Count(stream[f])' <= ClusterCount
<1>1. \A f \in live : Count(stream[f]) <= ClusterCount
  BY DEF Content
<1>2. CASE UpdateStream
  <2>1. /\ At("stream") /\ live' = live /\ stream' = [stream EXCEPT ![op.file] = StreamOf(mine)]
        /\ ~At("idle") /\ op.kind # "remove"
    BY <1>2 DEF UpdateStream, At, Laying, Owning, KindOK
  <2>2. Laid(fat, mine) /\ op.file \in Files /\ stream \in [Files -> Stream] /\ live \subseteq Files
    BY <2>1, LayingCall DEF Laying, Owning, TypeOK, VolumeTypeOK
  <2>3. Count(StreamOf(mine)) <= ClusterCount
    BY <2>2 DEF Laid, StreamOf, Count
  <2>4. ASSUME NEW f \in live PROVE Count(stream'[f]) <= ClusterCount
    <3>1. stream'[f] \in {stream[f], StreamOf(mine)}
      BY <2>1, <2>2
    <3>. HIDE DEF Count
    <3>. QED
      BY <1>1, <2>3, <3>1
  <2>. QED
    BY <2>1, <2>4 DEF Count
<1>3. CASE ~UpdateStream
  <2>1. UNCHANGED <<live, stream>>
    <3>1. CASE Seal
      BY <3>1 DEF Seal
    <3>. QED
      BY <1>3, <3>1, RecordsUntouched
  <2>. QED
    BY <1>1, <2>1 DEF Count
<1>. QED
  BY <1>2, <1>3

(* Every step keeps the content.                                           *)
LEMMA StepContent ==
    ASSUME NEW o, Laying(o), Content(o), TypeOK', Layout', Step, NEW w, Handover(o, w)
    PROVE  Content(w)'
<1>1. op'.kind \in {"append", "write"} => op'.value \in Payload[op'.file]
  <2>1. op' = Idle \/ Continues
    BY StepContinues DEF Laying, Owning
  <2>. QED
    BY <2>1, IdleFields DEF Continues, Content
<1>. QED
  BY <1>1, StepBytesOwned, StepRecordBytes, StepStreams, StepMineBytes DEF Content

(* What ends an operation without touching the volume keeps it, too.       *)
LEMMA StopContent ==
    ASSUME NEW o, Laying(o), Content(o), op' = Idle, UNCHANGED device, NEW w, Handover(o, w)
    PROVE  Content(w)'
<1>1. UNCHANGED <<fat, data, live, sealed, stream>> /\ None \notin Files
  BY Parameters DEF device
<1>2. op'.kind = "none" /\ op'.pc = "idle"
  BY IdleFields
<1>3. BytesOwned(w)'
  <2>1. ASSUME NEW c \in Clusters, w[c] \in Files, NEW b \in 0..(ClusterBytes - 1)
        PROVE  data[c][b] \in Payload[w[c]] \cup {Zero}
    <3>1. w[c] = o[c] \/ (op.pc = "terminate" /\ c = op.new)
      BY <1>1, <2>1 DEF Handover, At
    <3>. QED
      BY <2>1, <3>1 DEF Content, BytesOwned
  <2>. QED
    BY <1>1, <1>2, <2>1 DEF BytesOwned
<1>4. \A f \in live : Holds(fat, data, sealed[f], f, sealed[f].valid) /\ Count(stream[f]) <= ClusterCount
  BY DEF Content
<1>5. \A f \in live' : Holds(fat', data', sealed'[f], f, sealed'[f].valid) /\ Count(stream'[f]) <= ClusterCount
  <2>. HIDE DEF Holds, Count
  <2>. QED
    BY <1>1, <1>4
<1>. QED
  BY <1>2, <1>3, <1>5 DEF Content, Count

(* Calls: append and write bring bytes that may be written to their file.  *)
LEMMA CallContent ==
    ASSUME NEW o, Laying(o), Content(o), NEW f \in Files, Calls(f), NEW w, Handover(o, w)
    PROVE  Content(w)'
<1>1. /\ At("idle") /\ op = Idle /\ fat' = fat /\ data' = data /\ None \notin Files
      /\ op'.pc \in {"idle", "grow", "seek", "free"}
  <2>1. ~(CreateExisting(f) \/ \E len \in 0..MaxLength : Truncate(f, len))
    BY DEF CreateExisting, Truncate, Laying, Owning, NeverTruncated
  <2>2. CASE Open(f) \/ Close(f) \/ CreateAbsent(f)
    <3>1. At("idle") /\ fat' = fat /\ data' = data /\ op' = op
      BY <2>2 DEF Open, Close, CreateAbsent, device
    <3>. QED
      BY <3>1, IdleOwns, IdleFields, Parameters DEF Laying
  <2>3. CASE Remove(f)
    <3>1. At("idle") /\ fat' = fat /\ data' = data /\ op'.pc \in {"idle", "free"}
      BY <2>3, IdleFields DEF Remove, OpType
    <3>. QED
      BY <3>1, IdleOwns, Parameters DEF Laying
  <2>4. ASSUME NEW n, NEW v, Append(f, n, v)
        PROVE  At("idle") /\ fat' = fat /\ data' = data /\ op'.pc = "grow"
    BY <2>4, IdleFields DEF Append, OpType, device
  <2>5. ASSUME NEW n, NEW v, NEW kind \in {"read", "write"}, StartTransfer(f, n, v, kind)
        PROVE  At("idle") /\ fat' = fat /\ data' = data /\ op'.pc = "seek"
    BY <2>5, IdleFields DEF StartTransfer, OpType, device
  <2>6. CASE \E n \in 1..MaxLength : \/ Read(f, n)
                                     \/ \E v \in Payload[f] : Append(f, n, v) \/ Write(f, n, v)
    <3>1. At("idle") /\ fat' = fat /\ data' = data /\ op'.pc \in {"grow", "seek"}
      BY <2>4, <2>5, <2>6 DEF Read, Write
    <3>. QED
      BY <3>1, IdleOwns, Parameters DEF Laying
  <2>. QED
    BY <2>1, <2>2, <2>3, <2>6 DEF Calls
<1>2. BytesOwned(w)'
  <2>1. ASSUME NEW c \in Clusters, w[c] \in Files, NEW b \in 0..(ClusterBytes - 1)
        PROVE  data[c][b] \in Payload[w[c]] \cup {Zero}
    <3>1. w[c] = o[c]
      BY <1>1, <2>1 DEF Handover, At
    <3>. QED
      BY <2>1, <3>1 DEF Content, BytesOwned
  <2>. QED
    BY <1>1, <2>1 DEF BytesOwned
<1>3. \A g \in live : Holds(fat, data, sealed[g], g, sealed[g].valid) /\ Count(stream[g]) <= ClusterCount
  BY DEF Content
<1>4. CASE CreateAbsent(f)
  <2>1. live \subseteq Files /\ sealed \in [Files -> Stream] /\ stream \in [Files -> Stream]
    BY DEF Laying, Owning, TypeOK, VolumeTypeOK
  <2>2. Holds(fat, data, NoStream, f, NoStream.valid) /\ Count(NoStream) <= ClusterCount
    <3>1. NoStream.valid = 0 /\ NoStream.data = 0
      BY DEF NoStream
    <3>2. Count(NoStream) = 0
      BY <3>1, ClusterCounts DEF Count
    <3>. QED
      BY <3>1, <3>2, Parameters DEF Holds
  <2>3. ASSUME NEW g \in live'
        PROVE  Holds(fat, data, sealed'[g], g, sealed'[g].valid) /\ Count(stream'[g]) <= ClusterCount
    <3>1. \/ g = f /\ sealed'[g] = NoStream /\ stream'[g] = NoStream
          \/ g \in live /\ sealed'[g] = sealed[g] /\ stream'[g] = stream[g]
      BY <1>4, <2>1 DEF CreateAbsent
    <3>. HIDE DEF Holds, Count, NoStream
    <3>. QED
      BY <1>3, <2>2, <3>1
  <2>4. op'.kind = "none"
    BY <1>1, <1>4, IdleFields DEF CreateAbsent
  <2>. QED
    BY <1>1, <1>2, <2>3, <2>4 DEF Content, Holds, Count
<1>5. ASSUME UNCHANGED <<sealed, stream>>, live' \subseteq live
      PROVE  \A g \in live' : Holds(fat', data', sealed'[g], g, sealed'[g].valid) /\ Count(stream[g])' <= ClusterCount
  <2>1. ASSUME NEW g \in live'
        PROVE  Holds(fat', data', sealed'[g], g, sealed'[g].valid) /\ Count(stream'[g]) <= ClusterCount
    <3>1. g \in live
      BY <1>5
    <3>. HIDE DEF Holds, Count
    <3>. QED
      BY <1>1, <1>3, <1>5, <3>1
  <2>. QED
    BY <2>1 DEF Count
<1>6. CASE Open(f) \/ Close(f)
  <2>1. UNCHANGED <<sealed, stream, live>> /\ op'.kind = "none"
    BY <1>1, <1>6, IdleFields DEF Open, Close, device
  <2>. QED
    BY <1>2, <1>5, <2>1 DEF Content
<1>7. CASE Remove(f)
  <2>1. UNCHANGED <<sealed, stream>> /\ live' \subseteq live /\ op'.kind \in {"none", "remove"}
    BY <1>7, IdleFields DEF Remove, OpType
  <2>. QED
    BY <1>2, <1>5, <2>1 DEF Content
<1>8. ASSUME NEW n, NEW v, NEW kind \in {"read", "write"}, StartTransfer(f, n, v, kind),
             kind = "write" => v \in Payload[f]
      PROVE  Content(w)'
  <2>1. /\ UNCHANGED <<sealed, stream, live>> /\ op'.kind = kind /\ op'.file = f /\ op'.value = v
    BY <1>8, IdleFields DEF StartTransfer, OpType, device
  <2>. QED
    BY <1>2, <1>5, <1>8, <2>1 DEF Content
<1>9. ASSUME NEW n, NEW v \in Payload[f], Append(f, n, v)
      PROVE  Content(w)'
  <2>1. /\ UNCHANGED <<sealed, stream, live>> /\ op'.kind = "append" /\ op'.file = f /\ op'.value = v
        /\ op'.pc = "grow" /\ handle[f].open /\ handle' = [handle EXCEPT ![f] = Uncached(handle[f])]
    BY <1>9, IdleFields DEF Append, OpType, device
  <2>2. /\ handle \in [Files -> HandleType] /\ handle[f] \in HandleType /\ f \in live
        /\ Located(handle[f]) /\ Laid(fat, handle[f]) /\ fat \in Links
    BY <2>1, HandleLaid DEF Laying, Owning, TypeOK, VolumeTypeOK, MemoryTypeOK, Links
  <2>3. StreamOf(handle[f]) = sealed[f]
    <3>1. op.file # f
      BY <1>1, IdleFields
    <3>. QED
      BY <2>1, <3>1 DEF Laying, HandleInv, HandlesMatch, HandleMatches
  <2>4. PICK h : h = Uncached(handle[f])
    OBVIOUS
  <2>5. /\ h.first = handle[f].first /\ h.data = handle[f].data /\ h.nofat = handle[f].nofat
        /\ h.valid = handle[f].valid
    BY <2>2, <2>4 DEF Uncached, HandleType
  <2>6. mine' = h /\ Filled' = h.valid
    <3>1. mine' = h
      BY <2>1, <2>2, <2>4 DEF mine
    <3>. QED
      BY <2>1, <3>1 DEF Filled, Moving
  <2>7. /\ sealed[f].first = h.first /\ sealed[f].data = h.data /\ sealed[f].nofat = h.nofat
        /\ sealed[f].valid = h.valid /\ sealed[f] \in Stream
    BY <2>2, <2>3, <2>5 DEF StreamOf, Laying, Owning, TypeOK, VolumeTypeOK
  <2>8. /\ Located(sealed[f]) /\ Laid(fat, sealed[f]) /\ h.valid \in Nat /\ h.valid <= sealed[f].data
        /\ Holds(fat, data, sealed[f], f, h.valid)
    BY <2>2, <2>7 DEF Stream, Located, Laying, Layout, LengthsOK, Fits, Content
  <2>9. \A i \in 0..(Count(sealed[f]) - 1) : ChainIn(fat, h)[i] = ChainIn(fat, sealed[f])[i]
    BY <2>2, <2>7, <2>8, SamePlaces
  <2>10. \A i \in 0..(Count(sealed[f]) - 1) : \A b \in 0..(ClusterBytes - 1) :
          \/ data[ChainIn(fat, sealed[f])[i]][b] = data[ChainIn(fat, sealed[f])[i]][b]
          \/ data[ChainIn(fat, sealed[f])[i]][b] \in Payload[f]
    OBVIOUS
  <2>11. Holds(fat, data, h, f, h.valid)
    <3>. HIDE DEF Holds, ChainIn, Count
    <3>. QED
      BY ONLY <2>8, <2>9, <2>10, HoldsKept
  <2>12. Holds(fat', data', mine', op'.file, Filled')
    <3>. HIDE DEF Holds, Filled, mine
    <3>. QED
      BY <1>1, <2>1, <2>6, <2>11
  <2>. QED
    BY <1>2, <1>5, <1>9, <2>1, <2>12 DEF Content
<1>10. ~(CreateExisting(f) \/ \E len \in 0..MaxLength : Truncate(f, len))
  BY DEF CreateExisting, Truncate, Laying, Owning, NeverTruncated
<1>. QED
  BY <1>4, <1>6, <1>7, <1>8, <1>9, <1>10 DEF Calls, Read, Write

-----------------------------------------------------------------------------
(* The volume another implementation left holds what was written to it.    *)

(* What its files hold are among the bytes written to them.                *)
PayloadGiven == \A f \in DOMAIN Preexisting : Preexisting[f].valid # 0 => Payload[f] # {}

(* A byte lies in one file, or in none and is zero.                        *)
LEMMA InitContent ==
    ASSUME Init, VolumeApart, PayloadGiven, NEW o, LeftIn(o)
    PROVE  Content(o)
<1>1. /\ live = DOMAIN Preexisting /\ live \subseteq Files /\ op = Idle
      /\ \A f \in live : sealed[f] = Preexisting[f] /\ stream[f] = Preexisting[f]
      /\ None \notin Files /\ fat \in Links
  BY PreexistingAssumption, Parameters, InitType DEF Init, TypeOK, VolumeTypeOK, Links
<1>. DEFINE owners(c, b) == {g \in live : /\ c \in PreexistingExtent(g)
                                          /\ (c - Preexisting[g].first) * ClusterBytes + b
                                               < Preexisting[g].valid}
            written(c, b) == UNION {Payload[g] : g \in owners(c, b)}
<1>2. ASSUME NEW c \in Clusters, NEW b \in 0..(ClusterBytes - 1)
      PROVE  data[c][b] = IF written(c, b) = {} THEN Zero ELSE CHOOSE v \in written(c, b) : TRUE
  BY DEF Init
<1>3. ASSUME NEW c \in Clusters, NEW b \in 0..(ClusterBytes - 1), NEW f \in live,
             c \in PreexistingExtent(f)
      PROVE  /\ data[c][b] \in Payload[f] \cup {Zero}
             /\ f \in owners(c, b) => written(c, b) = Payload[f]
  <2>1. \A g \in owners(c, b) : g = f
    BY <1>1, <1>3 DEF VolumeApart
  <2>2. written(c, b) \subseteq Payload[f]
    BY <2>1
  <2>3. f \in owners(c, b) => written(c, b) = Payload[f]
    BY <2>2
  <2>. HIDE DEF written
  <2>4. data[c][b] = Zero \/ data[c][b] \in written(c, b)
    BY <1>2
  <2>. QED
    BY <2>2, <2>3, <2>4
<1>4. BytesOwned(o)
  <2>1. ASSUME NEW c \in Clusters, o[c] \in Files, NEW b \in 0..(ClusterBytes - 1)
        PROVE  data[c][b] \in Payload[o[c]] \cup {Zero}
    <3>1. o[c] \in live /\ c \in PreexistingExtent(o[c])
      BY <1>1, <2>1 DEF LeftIn
    <3>. QED
      BY <1>3, <3>1
  <2>. QED
    BY <1>1, <2>1, IdleFields DEF BytesOwned
<1>5. ASSUME NEW f \in live
      PROVE  /\ Holds(fat, data, sealed[f], f, sealed[f].valid)
             /\ Count(stream[f]) <= ClusterCount
  <2>. DEFINE s == Preexisting[f]
  <2>1. /\ s \in Stream /\ s.valid <= s.data /\ s.first \in Nat
        /\ PreexistingExtent(f) \subseteq Clusters
        /\ \A i \in 0..(Count(s) - 1) : s.first + i \in PreexistingExtent(f)
    BY <1>1, PreexistingAssumption, PreexistingClusters DEF Count
  <2>2. Laid(fat, s) /\ \A i \in 0..(Count(s) - 1) : ChainIn(fat, s)[i] = s.first + i
    BY <1>1, PreexistingLaid
  <2>3. Located(s) /\ s.valid \in Nat /\ s.data \in Nat
    BY <2>1 DEF Stream, Located
  <2>4. ASSUME NEW p \in 0..(s.valid - 1)
        PROVE  data[ChainIn(fat, s)[p \div ClusterBytes]][p % ClusterBytes] \in Payload[f]
    <3>. DEFINE i == p \div ClusterBytes
                b == p % ClusterBytes
    <3>1. i \in 0..(Count(s) - 1) /\ b \in 0..(ClusterBytes - 1)
      BY <2>1, <2>3, PositionIndex
    <3>2. i * ClusterBytes + b = p
      <4>1. p \in Nat /\ ClusterBytes \in Nat \ {0}
        BY <2>3, Parameters
      <4>2. p = ClusterBytes * i + b /\ i \in Nat
        BY <4>1
      <4>3. ClusterBytes * i = i * ClusterBytes
        <5>. HIDE DEF i
        <5>. QED
          BY <4>1, <4>2
      <4>. QED
        BY <4>2, <4>3
    <3>3. PICK c : c = s.first + i
      OBVIOUS
    <3>4. i \in Nat /\ b \in Nat /\ c \in PreexistingExtent(f) /\ c \in Clusters /\ c - s.first = i
      <4>1. i \in Nat /\ b \in Nat
        BY <3>1
      <4>. HIDE DEF i, b, s
      <4>. QED
        BY <2>1, <3>1, <3>3, <4>1
    <3>5. (c - s.first) * ClusterBytes + b < s.valid
      <4>1. p < s.valid
        BY <2>3
      <4>. HIDE DEF i, b, s
      <4>. QED
        BY <3>2, <3>4, <4>1
    <3>. HIDE DEF i, b
    <3>6. f \in owners(c, b)
      BY <3>4, <3>5
    <3>7. written(c, b) = Payload[f] /\ Payload[f] # {}
      <4>1. s.valid # 0
        BY <2>3
      <4>2. Payload[f] # {}
        BY <1>1, <4>1 DEF PayloadGiven
      <4>. HIDE DEF owners, written
      <4>. QED
        BY <1>3, <3>1, <3>4, <3>6, <4>2
    <3>8. data[c][b] \in Payload[f]
      <4>. HIDE DEF written
      <4>. QED
        BY <1>2, <3>1, <3>4, <3>7
    <3>9. ChainIn(fat, s)[i] = c
      BY <2>2, <3>1, <3>3
    <3>. HIDE DEF ChainIn
    <3>. QED
      BY <3>8, <3>9 DEF i, b
  <2>. HIDE DEF ChainIn
  <2>. QED
    BY <1>1, <2>2, <2>4 DEF Holds, Laid
<1>6. op.kind = "none"
  BY <1>1, IdleFields
<1>. QED
  BY <1>4, <1>5, <1>6 DEF Content

-----------------------------------------------------------------------------
(* The bytes of every file, at all times.                                  *)

(* Some owner map both keeps the clusters apart and accounts for bytes.    *)
Filed == \E o \in OwnerMaps : Owned(o) /\ Content(o)

(* Every step keeps the content.                                           *)
LEMMA NextContent ==
    ASSUME NEW o, Laying(o), Content(o), TypeOK', Layout', HandlesTrusted, [Next]_vars,
           NEW w, Handover(o, w)
    PROVE  Content(w)'
<1>1. CASE RefreshFreeClusters \/ UNCHANGED vars
  <2>1. UNCHANGED <<device, handle, op>>
    BY <1>1 DEF RefreshFreeClusters, vars, device
  <2>2. UNCHANGED <<fat, data, live, sealed, stream, handle, op, mine, Filled>> /\ None \notin Files
    BY <2>1, Parameters DEF device, mine, Filled, Moving
  <2>3. BytesOwned(w)'
    <3>1. ASSUME NEW c \in Clusters, w[c] \in Files, NEW b \in 0..(ClusterBytes - 1)
          PROVE  data[c][b] \in Payload[w[c]] \cup {Zero}
      <4>1. w[c] = o[c] \/ (op.pc = "terminate" /\ c = op.new)
        BY <2>2, <3>1 DEF Handover, At
      <4>. QED
        BY <3>1, <4>1 DEF Content, BytesOwned
    <3>. QED
      BY <2>2, <3>1 DEF BytesOwned, Content
  <2>4. /\ \A f \in live : Holds(fat, data, sealed[f], f, sealed[f].valid) /\ Count(stream[f]) <= ClusterCount
        /\ op.kind = "append" => Holds(fat, data, mine, op.file, Filled)
        /\ op.kind \in {"append", "write"} => op.value \in Payload[op.file]
    BY DEF Content
  <2>5. /\ \A f \in live' : Holds(fat', data', sealed'[f], f, sealed'[f].valid) /\ Count(stream'[f]) <= ClusterCount
        /\ op'.kind = "append" => Holds(fat', data', mine', op'.file, Filled')
        /\ op'.kind \in {"append", "write"} => op'.value \in Payload[op'.file]
    <3>. HIDE DEF Holds, Count, mine, Filled
    <3>. QED
      BY <2>2, <2>4
  <2>. QED
    BY <2>3, <2>5 DEF Content, Count
<1>2. CASE Remount \/ Crash \/ Cancel \/ IoError
  <2>1. op' = Idle /\ UNCHANGED device
    BY <1>2 DEF Remount, Crash, Restart, Cancel, IoError, Fail
  <2>. QED
    BY <2>1, StopContent
<1>. QED
  BY <1>1, <1>2, StepContent, CallContent DEF Next

(* So it is always accounted for.                                          *)
LEMMA ContentInvariant ==
    ASSUME VolumeApart, NeverTruncated, HandlesTrusted, WholeClusters, PayloadGiven
    PROVE  Spec => []Filed
<1>1. ASSUME Init PROVE Filed
  <2>1. PICK o \in OwnerMaps : Owned(o) /\ LeftIn(o)
    BY <1>1, InitOwned
  <2>. QED
    BY <1>1, <2>1, InitContent DEF Filed
<1>2. ASSUME TypeOK, KindOK, HandleInv, LengthsOK, Layout, Filed, TypeOK', Layout', [Next]_vars
      PROVE  Filed'
  <2>1. PICK o \in OwnerMaps : Owned(o) /\ Content(o)
    BY <1>2 DEF Filed
  <2>2. Owning(o) /\ Laying(o)
    BY <1>2, <2>1 DEF Laying, Owning
  <2>3. PICK w \in OwnerMaps : Owned(w)' /\ Handover(o, w)
    BY <1>2, <2>2, NextOwned
  <2>4. Content(w)'
    BY <1>2, <2>1, <2>2, <2>3, NextContent
  <2>. QED
    BY <2>3, <2>4 DEF Filed
<1>. QED
  BY <1>1, <1>2, TypeCorrect, KindInvariant, HandleInvariant, LengthInvariant, LayoutInvariant, PTL DEF Spec

(* Every byte below a sealed valid_length was written to that very file,   *)
(* and the bytes of a record that a torn update left were at worst zeroed, *)
(* whatever fails, is cut off or dropped (append zeroes a new cluster,     *)
(* writes its bytes and only then the record).                             *)
THEOREM NoForeignBytes ==
    ASSUME VolumeApart, NeverTruncated, HandlesTrusted, WholeClusters, PayloadGiven
    PROVE  Spec => []NoUninitialisedRange
<1>1. ASSUME TypeOK, LengthsOK, Layout, Filed PROVE NoUninitialisedRange
  <2>1. PICK o \in OwnerMaps : Owned(o) /\ Content(o)
    BY <1>1 DEF Filed
  <2>2. ASSUME NEW f \in Files, NEW s \in Records(f), NEW p \in 0..(s.valid - 1)
        PROVE  \/ ByteAt(s, p) \in Payload[f]
               \/ s # sealed[f] /\ ByteAt(s, p) = Zero
    <3>1. f \in live /\ (s = stream[f] \/ s = sealed[f])
      BY <2>2 DEF Records
    <3>2. /\ Located(s) /\ Owns(o, f, s) /\ s.valid \in Nat /\ s.valid <= s.data
      <4>1. s \in Stream /\ Owns(o, f, s) /\ s.valid <= s.data
        BY <1>1, <2>1, <3>1 DEF TypeOK, VolumeTypeOK, Owned, RecordsOwned, LengthsOK, Fits
      <4>. QED
        BY <4>1 DEF Stream, Located
    <3>. DEFINE i == p \div ClusterBytes
                b == p % ClusterBytes
    <3>3. i \in 0..(Count(s) - 1) /\ b \in 0..(ClusterBytes - 1)
      BY <3>2, PositionIndex
    <3>4. ByteAt(s, p) = IF ChainIn(fat, s)[i] \in Clusters THEN data[ChainIn(fat, s)[i]][b] ELSE Zero
      BY ActiveChain DEF ByteAt
    <3>5. CASE s = sealed[f]
      <4>1. Holds(fat, data, s, f, s.valid) /\ Laid(fat, s)
        BY <1>1, <2>1, <3>1, <3>5 DEF Content, Layout
      <4>2. data[ChainIn(fat, s)[i]][b] \in Payload[f]
        BY <4>1 DEF Holds
      <4>3. ChainIn(fat, s)[i] \in Clusters
        BY <3>3, <4>1 DEF Laid
      <4>. QED
        BY <3>4, <4>2, <4>3
    <3>6. CASE s # sealed[f]
      <4>1. s = stream[f] /\ Count(s) <= ClusterCount /\ Count(s) \in Nat
        BY <2>1, <3>1, <3>2, <3>6, Counted DEF Content
      <4>2. ASSUME ChainIn(fat, s)[i] \in Clusters
            PROVE  data[ChainIn(fat, s)[i]][b] \in Payload[f] \cup {Zero}
        <5>1. i \in 0..ClusterCount /\ i < CeilDiv(s.data, ClusterBytes)
          <6>. HIDE DEF i
          <6>. QED
            BY <3>3, <4>1, Parameters DEF Count
        <5>2. PICK c : c = ChainIn(fat, s)[i]
          OBVIOUS
        <5>3. o[c] = f
          <6>. HIDE DEF i
          <6>. QED
            BY <1>1, <2>1, <3>2, <4>2, <5>1, <5>2, ChainOwned DEF Owned
        <5>4. data[c][b] \in Payload[f] \cup {Zero}
          <6>. HIDE DEF b
          <6>. QED
            BY <2>1, <3>3, <4>2, <5>2, <5>3 DEF Content, BytesOwned
        <5>. QED
          BY <5>2, <5>4
      <4>. HIDE DEF ChainIn, i, b
      <4>. QED
        BY <3>4, <3>6, <4>2
    <3>. QED
      BY <3>5, <3>6
  <2>. QED
    BY <2>2 DEF NoUninitialisedRange
<1>. QED
  BY <1>1, TypeCorrect, LengthInvariant, LayoutInvariant, ContentInvariant, PTL

-----------------------------------------------------------------------------
(* The bytes that append has written.                                      *)

(* A growing file starts with the clusters of its record, and what append  *)
(* has moved so far lies behind the bytes of the record.                   *)
Appended ==
    op.kind = "append" =>
        /\ \A i \in 0..(Count(sealed[op.file]) - 1) :
             ChainIn(fat, mine)[i] = ChainIn(fat, sealed[op.file])[i]
        /\ op.saved.valid <= Filled
        /\ \A p \in (op.saved.valid)..(Filled - 1) :
             data[ChainIn(fat, mine)[p \div ClusterBytes]][p % ClusterBytes] = op.value

(* Positions of one cluster lie in it as they do in the file.              *)
LEMMA SameCluster ==
    ASSUME NEW pos \in Nat, NEW n \in Nat, n <= ClusterBytes - (pos % ClusterBytes), NEW p \in Nat,
           p \div ClusterBytes = pos \div ClusterBytes
    PROVE  p \in pos..(pos + n - 1)
             <=> p % ClusterBytes \in (pos % ClusterBytes)..((pos % ClusterBytes) + n - 1)
<1>. DEFINE b == ClusterBytes
            q == pos \div b
            r == pos % b
            t == p % b
            m == b * q
<1>1. b \in Nat \ {0} /\ q \in Nat /\ r \in Nat /\ pos = m + r
  BY Parameters
<1>2. t \in Nat /\ p = m + t
  BY Parameters
<1>3. m \in Nat
  BY <1>1
<1>. HIDE DEF b, q, r, t, m
<1>4. p \in pos..(pos + n - 1) <=> t \in r..(r + n - 1)
  BY <1>1, <1>2, <1>3
<1>. QED
  BY <1>4 DEF b, r, t

(* What the chunk leaves at each position of its file.                     *)
LEMMA ChunkWrites ==
    ASSUME NEW o, Laying(o), Content(o), TransferChunk, op.kind # "read", NEW p \in Nat,
           p \div ClusterBytes \in 0..(Count(mine) - 1)
    PROVE  data'[ChainIn(fat, mine)[p \div ClusterBytes]][p % ClusterBytes] =
             IF p \in (mine.pos)..(mine.pos + Chunk - 1) THEN op.value
             ELSE data[ChainIn(fat, mine)[p \div ClusterBytes]][p % ClusterBytes]
<1>1. Moving /\ mine \in HandleType /\ op \in OpType /\ Wanted \in 0..(Count(mine) - 1) /\ Laid(fat, mine)
  BY PositionInside DEF TransferChunk, Moving, At
<1>2. mine.pos \in Nat /\ op.rem \in Nat
  BY <1>1 DEF HandleType, OpType
<1>3. /\ Chunk \in Nat /\ Chunk <= ClusterBytes - (mine.pos % ClusterBytes)
      /\ Within = mine.pos % ClusterBytes /\ Wanted = mine.pos \div ClusterBytes
  <2>1. Within \in 0..(ClusterBytes - 1) /\ ClusterBytes \in Nat
    BY <1>2, Parameters DEF Within
  <2>. QED
    BY <1>2, <2>1 DEF Chunk, Within, Wanted
<1>4. op.cl = ChainIn(fat, mine)[Wanted] /\ op.cl \in Clusters
      /\ data \in [Clusters -> [0..(ClusterBytes - 1) -> Values \cup {Zero}]]
  BY ChunkBytes
<1>5. data' = [data EXCEPT ![op.cl] = [b \in DOMAIN data[op.cl] |->
                  IF b \in Within..(Within + Chunk - 1) THEN op.value ELSE data[op.cl][b]]]
  BY DEF TransferChunk
<1>6. /\ \A c \in Clusters : c # op.cl => data'[c] = data[c]
      /\ \A b \in 0..(ClusterBytes - 1) : data'[op.cl][b] =
            IF b \in Within..(Within + Chunk - 1) THEN op.value ELSE data[op.cl][b]
  <2>1. DOMAIN data[op.cl] = 0..(ClusterBytes - 1)
    BY <1>4
  <2>. HIDE DEF Within, Chunk
  <2>2. data'[op.cl] = [b \in 0..(ClusterBytes - 1) |->
                    IF b \in Within..(Within + Chunk - 1) THEN op.value ELSE data[op.cl][b]]
    BY <1>4, <1>5, <2>1
  <2>. QED
    BY <1>4, <1>5, <2>2
<1>7. PICK c, b : c = ChainIn(fat, mine)[p \div ClusterBytes] /\ b = p % ClusterBytes
  OBVIOUS
<1>8. c \in Clusters /\ b \in 0..(ClusterBytes - 1)
  <2>1. c \in Clusters
    BY <1>1, <1>7 DEF Laid
  <2>. QED
    BY <1>7, <2>1, Parameters
<1>. HIDE DEF ChainIn, Chunk
<1>9. CASE p \div ClusterBytes = Wanted
  <2>1. c = op.cl
    BY <1>4, <1>7, <1>9
  <2>2. p \in (mine.pos)..(mine.pos + Chunk - 1) <=> b \in Within..(Within + Chunk - 1)
    BY <1>2, <1>3, <1>7, <1>9, SameCluster
  <2>. QED
    BY <1>6, <1>7, <1>8, <2>1, <2>2
<1>10. CASE p \div ClusterBytes # Wanted
  <2>1. c # op.cl
    BY <1>1, <1>4, <1>7, <1>10 DEF Laid
  <2>2. p \notin (mine.pos)..(mine.pos + Chunk - 1)
    BY <1>2, <1>3, <1>10, ChunkPlace
  <2>. QED
    BY <1>6, <1>7, <1>8, <2>1, <2>2
<1>. QED
  BY <1>9, <1>10

(* But for the chunk, no byte of a laid stream changes at all.             *)
LEMMA BytesStay ==
    ASSUME NEW o, Laying(o), Content(o), Step, NEW f \in live, ~(TransferChunk /\ f = op.file),
           NEW s, Located(s), Laid(fat, s), Owns(o, f, s),
           NEW i \in 0..(Count(s) - 1), NEW b \in 0..(ClusterBytes - 1)
    PROVE  data'[ChainIn(fat, s)[i]][b] = data[ChainIn(fat, s)[i]][b]
<1>1. TypeOK /\ o \in OwnerMaps /\ LinksOwned(o) /\ f \in Files
  BY DEF Laying, Owning, Owned, TypeOK, VolumeTypeOK
<1>2. Count(s) \in Nat /\ Count(s) <= ClusterCount /\ ClusterCount \in Nat
  BY Counted, Parameters DEF Laid
<1>3. i \in 0..ClusterCount /\ i < CeilDiv(s.data, ClusterBytes)
  BY <1>2 DEF Count
<1>4. PICK c : c = ChainIn(fat, s)[i]
  OBVIOUS
<1>5. c \in Clusters
  BY <1>4 DEF Laid
<1>6. o[c] = f
  BY <1>1, <1>3, <1>4, <1>5, ChainOwned
<1>7. data'[c] = data[c]
  <2>1. CASE Claim
    BY <1>5, <1>6, <2>1, ClaimBytes
  <2>2. CASE TransferChunk
    BY <1>5, <1>6, <2>2, ChunkBytes
  <2>3. CASE ~Claim /\ ~TransferChunk
    BY <1>1, <2>3, ByteSteps
  <2>. QED
    BY <2>1, <2>2, <2>3
<1>. QED
  BY <1>4, <1>7

(* Every step of append keeps it so.                                       *)
LEMMA AppendedStep ==
    ASSUME NEW o, Laying(o), Content(o), TypeOK', Layout', Appended, Step, op'.kind = "append"
    PROVE  Appended'
<1>1. op.kind = "append" /\ op'.file = op.file /\ op'.saved = op.saved /\ op'.value = op.value /\ ~At("idle")
  <2>1. Continues
    BY StepContinues, IdleFields DEF Laying, Owning
  <2>. QED
    BY <2>1, IdleFields DEF Continues, Laying, Owning, KindOK
<1>2. /\ op \in OpType /\ op.file \in Files /\ op.file \in live /\ mine \in HandleType
      /\ handle \in [Files -> HandleType] /\ mine = handle[op.file]
      /\ Located(mine) /\ Laid(fat, mine) /\ Owns(o, op.file, mine) /\ Count(mine) \in Nat
  BY <1>1, LayingCall
<1>3. /\ sealed'[op.file] = sealed[op.file] /\ Count(sealed[op.file]) <= Count(mine)
      /\ Count(sealed[op.file]) \in Nat
  <2>1. ~Seal
    BY IdleFields DEF Seal
  <2>2. sealed' = sealed
    <3>1. CASE UpdateStream
      BY <3>1 DEF UpdateStream
    <3>2. CASE ~UpdateStream
      BY <2>1, <3>2, RecordsUntouched
    <3>. QED
      BY <3>1, <3>2
  <2>3. /\ Located(op.saved) /\ Located(sealed[op.file]) /\ op.saved.data = sealed[op.file].data
        /\ Count(op.saved) <= Count(mine)
    BY <1>1, SavedLaid
  <2>. QED
    BY <2>2, <2>3, Counted DEF Count
<1>4. \A i \in 0..(Count(mine) - 1) : ChainIn(fat', mine')[i] = ChainIn(fat, mine)[i]
  BY <1>1, MineKept
<1>5. \A i \in 0..(Count(sealed[op.file]) - 1) :
        /\ ChainIn(fat', sealed[op.file])[i] = ChainIn(fat, sealed[op.file])[i]
        /\ ChainIn(fat, mine)[i] = ChainIn(fat, sealed[op.file])[i]
  BY <1>1, <1>2, SealedKept DEF Appended
<1>6. \A i \in 0..(Count(sealed'[op.file]) - 1) : ChainIn(fat', mine')[i] = ChainIn(fat', sealed'[op.file])[i]
  <2>. HIDE DEF ChainIn, Count, mine
  <2>1. \A i \in 0..(Count(sealed[op.file]) - 1) : i \in 0..(Count(mine) - 1)
    BY <1>2, <1>3
  <2>. QED
    BY <1>3, <1>4, <1>5, <2>1
<1>7. /\ op.saved.valid \in Nat /\ op.saved.valid <= Filled /\ Filled \in Nat /\ Filled <= mine.data
      /\ mine.valid \in Nat /\ mine.pos \in Nat
      /\ Moving => op.rem \in Nat \ {0} /\ mine.pos + op.rem = mine.valid
      /\ \A p \in (op.saved.valid)..(Filled - 1) :
           data[ChainIn(fat, mine)[p \div ClusterBytes]][p % ClusterBytes] = op.value
  <2>1. mine.valid \in Nat /\ mine.pos \in Nat /\ mine.data \in Nat /\ op.saved.valid \in Nat
    BY <1>2 DEF HandleType, OpType
  <2>2. mine.valid <= mine.data
    BY <1>2 DEF Laying, LengthsOK, Fits
  <2>3. Moving => op.rem \in Nat \ {0} /\ mine.pos + op.rem = mine.valid
    BY <1>1 DEF Laying, LengthsOK, CallFits
  <2>4. Filled \in Nat /\ Filled <= mine.data
    BY <2>1, <2>2, <2>3 DEF Filled
  <2>. QED
    BY <1>1, <2>1, <2>3, <2>4 DEF Appended
<1>8. PICK C, D, k : C = ChainIn(fat', mine') /\ D = data' /\ k = Filled'
  OBVIOUS
<1>9. ASSUME NEW p \in Nat, p < Filled
      PROVE  /\ p \div ClusterBytes \in 0..(Count(mine) - 1) /\ p % ClusterBytes \in 0..(ClusterBytes - 1)
             /\ C[p \div ClusterBytes] = ChainIn(fat, mine)[p \div ClusterBytes]
  <2>1. p \in 0..(Filled - 1)
    BY <1>7, <1>9
  <2>2. p \div ClusterBytes \in 0..(Count(mine) - 1) /\ p % ClusterBytes \in 0..(ClusterBytes - 1)
    <3>. HIDE DEF Filled, mine
    <3>. QED
      BY <1>2, <1>7, <2>1, PositionIndex
  <2>. QED
    BY <1>4, <1>8, <2>2
<1>10. op.saved.valid <= k /\ \A p \in (op.saved.valid)..(k - 1) : D[C[p \div ClusterBytes]][p % ClusterBytes] = op.value
  <2>1. CASE ~TransferChunk
    <3>1. k = Filled
      BY <1>1, <1>8, <2>1, FilledStays
    <3>2. ASSUME NEW p \in (op.saved.valid)..(k - 1)
          PROVE  D[C[p \div ClusterBytes]][p % ClusterBytes] = op.value
      <4>1. p \in Nat /\ p < Filled
        BY <1>7, <3>1
      <4>2. data'[ChainIn(fat, mine)[p \div ClusterBytes]][p % ClusterBytes]
              = data[ChainIn(fat, mine)[p \div ClusterBytes]][p % ClusterBytes]
        BY <1>2, <1>9, <2>1, <4>1, BytesStay
      <4>3. data[ChainIn(fat, mine)[p \div ClusterBytes]][p % ClusterBytes] = op.value
        BY <1>7, <3>1
      <4>. QED
        BY <1>8, <1>9, <4>1, <4>2, <4>3
    <3>. QED
      BY <1>7, <3>1, <3>2
  <2>2. CASE TransferChunk
    <3>1. Moving /\ Filled = mine.pos /\ op.kind # "read"
      BY <1>1, <2>2 DEF TransferChunk, At, Moving, Filled
    <3>2. /\ Chunk \in Nat /\ Chunk <= ClusterBytes - (mine.pos % ClusterBytes) /\ Chunk <= op.rem
      <4>1. Within \in 0..(ClusterBytes - 1) /\ ClusterBytes \in Nat
        BY <1>7, Parameters DEF Within
      <4>. QED
        BY <1>7, <3>1, <4>1 DEF Chunk, Within
    <3>3. k = mine.pos + Chunk
      BY <1>1, <1>2, <1>7, <1>8, <2>2, <3>1, ChunkFills
    <3>4. Wanted \in 0..(Count(mine) - 1) /\ Wanted = mine.pos \div ClusterBytes
      BY <3>1, PositionInside DEF Wanted
    <3>5. ASSUME NEW p \in (op.saved.valid)..(k - 1)
          PROVE  D[C[p \div ClusterBytes]][p % ClusterBytes] = op.value
      <4>1. p \in Nat
        BY <1>7
      <4>2. p < mine.pos \/ p \in (mine.pos)..(mine.pos + Chunk - 1)
        BY <1>7, <3>2, <3>3
      <4>3. p \div ClusterBytes \in 0..(Count(mine) - 1)
        <5>1. CASE p < mine.pos
          BY <1>9, <3>1, <4>1, <5>1
        <5>2. CASE p \in (mine.pos)..(mine.pos + Chunk - 1)
          <6>. HIDE DEF Chunk
          <6>1. p \div ClusterBytes = mine.pos \div ClusterBytes
            BY <1>7, <3>2, <5>2, ChunkPlace
          <6>. QED
            BY <3>4, <6>1
        <5>. QED
          BY <4>2, <5>1, <5>2
      <4>4. C[p \div ClusterBytes] = ChainIn(fat, mine)[p \div ClusterBytes]
        BY <1>4, <1>8, <4>3
      <4>5. D[ChainIn(fat, mine)[p \div ClusterBytes]][p % ClusterBytes] = op.value
        <5>1. data'[ChainIn(fat, mine)[p \div ClusterBytes]][p % ClusterBytes] =
                 IF p \in (mine.pos)..(mine.pos + Chunk - 1) THEN op.value
                 ELSE data[ChainIn(fat, mine)[p \div ClusterBytes]][p % ClusterBytes]
          BY <2>2, <3>1, <4>1, <4>3, ChunkWrites
        <5>2. p < mine.pos => data[ChainIn(fat, mine)[p \div ClusterBytes]][p % ClusterBytes] = op.value
          BY <1>7, <3>1, <4>1
        <5>. QED
          BY <1>8, <4>2, <5>1, <5>2
      <4>. QED
        BY <4>4, <4>5
    <3>. QED
      BY <1>7, <3>1, <3>2, <3>3, <3>5
  <2>. QED
    BY <2>1, <2>2
<1>11. op.saved.valid <= Filled'
       /\ \A p \in (op.saved.valid)..(Filled' - 1) :
            data'[ChainIn(fat', mine')[p \div ClusterBytes]][p % ClusterBytes] = op.value
  BY ONLY <1>8, <1>10, Zenon
<1>. QED
  BY <1>1, <1>6, <1>11 DEF Appended, Count

(* append starts with nothing moved.                                       *)
LEMMA AppendedCall ==
    ASSUME NEW o, Laying(o), NEW f \in Files, Calls(f)
    PROVE  Appended'
<1>1. op = Idle /\ At("idle")
  <2>1. CASE ~At("idle")
    BY <2>1 DEF Calls, Open, Close, CreateAbsent, CreateExisting, Remove, Read, Write, StartTransfer, Append, Truncate
  <2>. QED
    BY <2>1, IdleOwns DEF Laying, Owning, KindOK
<1>2. CASE Open(f) \/ Close(f) \/ CreateAbsent(f)
  <2>1. op' = Idle
    BY <1>1, <1>2 DEF Open, Close, CreateAbsent
  <2>. QED
    BY <2>1, IdleFields DEF Appended
<1>3. CASE Remove(f)
  <2>1. op'.kind # "append"
    BY <1>3, IdleFields DEF Remove, OpType
  <2>. QED
    BY <2>1 DEF Appended
<1>4. ASSUME NEW n, NEW v, NEW kind \in {"read", "write"}, StartTransfer(f, n, v, kind)
      PROVE  Appended'
  <2>1. op'.kind = kind
    BY <1>4, IdleFields DEF StartTransfer, OpType
  <2>. QED
    BY <1>4, <2>1 DEF Appended
<1>5. ASSUME NEW n, NEW v, Append(f, n, v)
      PROVE  Appended'
  <2>1. /\ UNCHANGED <<fat, data, sealed>> /\ op'.kind = "append" /\ op'.file = f /\ op'.saved = handle[f]
        /\ op'.pc = "grow" /\ handle[f].open /\ handle' = [handle EXCEPT ![f] = Uncached(handle[f])]
    BY <1>5, IdleFields DEF Append, OpType, device
  <2>2. /\ handle \in [Files -> HandleType] /\ handle[f] \in HandleType /\ f \in live
        /\ Located(handle[f]) /\ Laid(fat, handle[f]) /\ fat \in Links
    BY <2>1, HandleLaid DEF Laying, Owning, TypeOK, VolumeTypeOK, MemoryTypeOK, Links
  <2>3. StreamOf(handle[f]) = sealed[f]
    <3>1. op.file # f
      BY <1>1, IdleFields, Parameters
    <3>. QED
      BY <2>1, <3>1 DEF Laying, HandleInv, HandlesMatch, HandleMatches
  <2>4. PICK h : h = Uncached(handle[f])
    OBVIOUS
  <2>5. /\ h.first = handle[f].first /\ h.data = handle[f].data /\ h.nofat = handle[f].nofat
        /\ h.valid = handle[f].valid
    BY <2>2, <2>4 DEF Uncached, HandleType
  <2>6. mine' = h
    BY <2>1, <2>2, <2>4 DEF mine
  <2>7. Filled' = h.valid /\ op'.saved.valid = h.valid /\ h.valid \in Nat
    BY <2>1, <2>2, <2>5, <2>6 DEF Filled, Moving, HandleType
  <2>8. /\ sealed[f].first = h.first /\ sealed[f].data = h.data /\ sealed[f].nofat = h.nofat
        /\ sealed[f] \in Stream
    BY <2>2, <2>3, <2>5 DEF StreamOf, Laying, Owning, TypeOK, VolumeTypeOK
  <2>9. Located(sealed[f]) /\ Laid(fat, sealed[f])
    BY <2>2, <2>8 DEF Stream, Located, Laying, Layout
  <2>10. \A i \in 0..(Count(sealed[f]) - 1) : ChainIn(fat, h)[i] = ChainIn(fat, sealed[f])[i]
    BY <2>2, <2>8, <2>9, SamePlaces
  <2>11. \A i \in 0..(Count(sealed'[op'.file]) - 1) : ChainIn(fat', mine')[i] = ChainIn(fat', sealed'[op'.file])[i]
    <3>. HIDE DEF ChainIn, Count, mine
    <3>. QED
      BY <2>1, <2>6, <2>10
  <2>12. PICK k : k = Filled'
    OBVIOUS
  <2>13. op'.saved.valid <= k /\ (op'.saved.valid)..(k - 1) = {}
    BY <2>7, <2>12
  <2>14. op'.saved.valid <= Filled' /\ (op'.saved.valid)..(Filled' - 1) = {}
    BY ONLY <2>12, <2>13, Zenon
  <2>. QED
    BY <2>11, <2>14 DEF Appended, Count
<1>6. ~(CreateExisting(f) \/ \E len \in 0..MaxLength : Truncate(f, len))
  BY DEF CreateExisting, Truncate, Laying, Owning, NeverTruncated
<1>. QED
  BY <1>2, <1>3, <1>4, <1>5, <1>6 DEF Calls, Read, Write

(* Every step leaves it true.                                              *)
LEMMA AppendedNext ==
    ASSUME NEW o, Laying(o), Content(o), TypeOK', Layout', Appended, [Next]_vars
    PROVE  Appended'
<1>1. CASE RefreshFreeClusters \/ UNCHANGED vars
  <2>1. UNCHANGED <<fat, data, sealed, op, mine, Filled>>
    BY <1>1 DEF RefreshFreeClusters, vars, device, mine, Filled, Moving
  <2>. HIDE DEF mine, Filled
  <2>. QED
    BY <2>1 DEF Appended, Count
<1>2. CASE Remount \/ Crash \/ Cancel \/ IoError
  <2>1. op' = Idle
    BY <1>2 DEF Remount, Crash, Restart, Cancel, IoError, Fail
  <2>. QED
    BY <2>1, IdleFields DEF Appended
<1>3. CASE Step
  <2>1. CASE op'.kind = "append"
    BY <1>3, <2>1, AppendedStep
  <2>2. CASE op'.kind # "append"
    BY <2>2 DEF Appended
  <2>. QED
    BY <2>1, <2>2
<1>. QED
  BY <1>1, <1>2, <1>3, AppendedCall DEF Next

(* So it always holds.                                                     *)
LEMMA AppendedInvariant ==
    ASSUME VolumeApart, NeverTruncated, HandlesTrusted, WholeClusters, PayloadGiven
    PROVE  Spec => []Appended
<1>1. ASSUME Init PROVE Appended
  BY <1>1, IdleFields DEF Init, Appended
<1>2. ASSUME TypeOK, KindOK, HandleInv, LengthsOK, Layout, Filed, Appended, TypeOK', Layout', [Next]_vars
      PROVE  Appended'
  <2>1. PICK o \in OwnerMaps : Owned(o) /\ Content(o)
    BY <1>2 DEF Filed
  <2>2. Laying(o)
    BY <1>2, <2>1 DEF Laying, Owning
  <2>. QED
    BY <1>2, <2>1, <2>2, AppendedNext
<1>. QED
  BY <1>1, <1>2, TypeCorrect, KindInvariant, HandleInvariant, LengthInvariant, LayoutInvariant, ContentInvariant,
     PTL DEF Spec

-----------------------------------------------------------------------------
(* The files as the abstract store holds them.                             *)

Seqs == INSTANCE SequenceTheorems

(* What goes on with one and the same element ends in a run of it.         *)
LEMMA SequenceExtended ==
    ASSUME NEW m \in Nat, NEW n \in Nat, NEW V, NEW s \in [1..m -> V], NEW v \in V,
           NEW t \in [1..(m + n) -> V],
           \A p \in 1..m : t[p] = s[p],
           \A p \in (m + 1)..(m + n) : t[p] = v
    PROVE t = Seqs!\o(s, [i \in 1..n |-> v])
<1>. DEFINE r == [i \in 1..n |-> v]
<1>1. s \in Seqs!Seq(V) /\ Seqs!Len(s) = m /\ r \in Seqs!Seq(V) /\ Seqs!Len(r) = n /\ t \in Seqs!Seq(V) /\ Seqs!Len(t) = m + n
  OBVIOUS
<1>2. \A i \in 1..n : r[i] = v
  OBVIOUS
<1>. HIDE DEF r
<1>3. /\ Seqs!\o(s, r) \in Seqs!Seq(V) /\ Seqs!Len(Seqs!\o(s, r)) = m + n
      /\ \A p \in 1..(m + n) : (Seqs!\o(s, r))[p] = IF p <= m THEN s[p] ELSE r[p - m]
  BY <1>1, Seqs!ConcatProperties
<1>4. ASSUME NEW p \in 1..(m + n) PROVE t[p] = (Seqs!\o(s, r))[p]
  <2>0. p <= m \/ p > m
    OBVIOUS
  <2>1. CASE p <= m
    BY <1>3, <2>1
  <2>2. CASE p > m
    <3>1. p - m \in 1..n
      BY <2>2
    <3>2. (Seqs!\o(s, r))[p] = r[p - m]
      BY <1>3, <2>2
    <3>3. p \in (m + 1)..(m + n)
      BY <2>2
    <3>. QED
      BY <1>2, <3>1, <3>2, <3>3
  <2>. QED
    BY ONLY <2>0, <2>1, <2>2
<1>5. t = Seqs!\o(s, r)
  BY <1>1, <1>3, <1>4, Seqs!SeqEqual
<1>. QED
  BY <1>5 DEF r

(* The bytes of a stream, read through the links of F.                     *)
Shown(F, D, s) ==
    [p \in 1..s.valid |-> D[ChainIn(F, s)[(p - 1) \div ClusterBytes]][(p - 1) % ClusterBytes]]

Contents == [f \in Files |-> IF f \in live THEN Shown(fat, data, sealed[f]) ELSE None]

(* While nothing is truncated, a reader sees the sealed records.           *)
ViewsShown == [f \in Files |-> View(f)] = Contents

(* That is what the views are.                                             *)
LEMMA ShownView ==
    ASSUME NeverTruncated
    PROVE  TypeOK /\ KindOK /\ LengthsOK /\ Layout => ViewsShown
<1>. SUFFICES ASSUME TypeOK, KindOK, LengthsOK, Layout, NEW f \in Files, f \in live
              PROVE  View(f) = Shown(fat, data, sealed[f])
  <2>1. ASSUME NEW f \in Files, f \notin live PROVE View(f) = None
    BY <2>1 DEF View
  <2>. QED
    BY <2>1 DEF ViewsShown, Contents
<1>. DEFINE s == sealed[f]
<1>1. Located(s) /\ Laid(fat, s) /\ s.valid \in Nat /\ s.valid <= s.data
  <2>1. s \in Stream /\ Laid(fat, s) /\ s.valid <= s.data
    BY DEF TypeOK, VolumeTypeOK, Layout, LengthsOK, Fits
  <2>. QED
    BY <2>1 DEF Stream, Located
<1>2. VisibleLength(f) = s.valid
  BY DEF VisibleLength, Truncating, KindOK, NeverTruncated
<1>3. ASSUME NEW p \in 1..s.valid
      PROVE  ByteAt(s, p - 1) = data[ChainIn(fat, s)[(p - 1) \div ClusterBytes]][(p - 1) % ClusterBytes]
  <2>1. p - 1 \in 0..(s.valid - 1)
    BY <1>1, <1>3
  <2>2. (p - 1) \div ClusterBytes \in 0..(Count(s) - 1)
    <3>. HIDE DEF s
    <3>. QED
      BY <1>1, <2>1, PositionIndex
  <2>3. ChainIn(fat, s)[(p - 1) \div ClusterBytes] \in Clusters
    BY <1>1, <2>2 DEF Laid
  <2>4. ChainOf(s) = ChainIn(fat, s)
    BY ActiveChain
  <2>. QED
    BY <2>3, <2>4 DEF ByteAt
<1>4. View(f) = [p \in 1..s.valid |-> ByteAt(s, p - 1)]
  BY <1>2 DEF View
<1>. HIDE DEF s
<1>5. View(f) = Shown(fat, data, s)
  BY <1>3, <1>4 DEF Shown
<1>. QED
  BY <1>5 DEF s

(* The same bytes in the same clusters show the same.                      *)
LEMMA SameShown ==
    ASSUME NEW F, NEW G, NEW D, NEW E, NEW s, NEW t, Located(s), s.valid \in Nat, s.valid <= s.data,
           t.valid = s.valid,
           \A i \in 0..(Count(s) - 1) : ChainIn(G, t)[i] = ChainIn(F, s)[i],
           \A p \in 0..(s.valid - 1) :
             E[ChainIn(F, s)[p \div ClusterBytes]][p % ClusterBytes]
               = D[ChainIn(F, s)[p \div ClusterBytes]][p % ClusterBytes]
    PROVE  Shown(G, E, t) = Shown(F, D, s)
<1>1. ASSUME NEW p \in 1..s.valid
      PROVE  E[ChainIn(G, t)[(p - 1) \div ClusterBytes]][(p - 1) % ClusterBytes]
               = D[ChainIn(F, s)[(p - 1) \div ClusterBytes]][(p - 1) % ClusterBytes]
  <2>1. p - 1 \in 0..(s.valid - 1)
    BY <1>1
  <2>2. (p - 1) \div ClusterBytes \in 0..(Count(s) - 1)
    BY <2>1, PositionIndex
  <2>3. PICK q : q = p - 1
    OBVIOUS
  <2>4. ChainIn(G, t)[q \div ClusterBytes] = ChainIn(F, s)[q \div ClusterBytes]
    <3>. HIDE DEF ChainIn, Count
    <3>. QED
      BY <2>2, <2>3
  <2>5. E[ChainIn(F, s)[q \div ClusterBytes]][q % ClusterBytes]
          = D[ChainIn(F, s)[q \div ClusterBytes]][q % ClusterBytes]
    <3>. HIDE DEF ChainIn
    <3>. QED
      BY <2>1, <2>3
  <2>. QED
    BY <2>3, <2>4, <2>5
<1>. QED
  BY <1>1 DEF Shown

(* What is known of the record of a file.                                  *)
LEMMA SealedLaid ==
    ASSUME NEW o, Laying(o), NEW f \in live
    PROVE  /\ f \in Files /\ sealed[f] \in Stream /\ sealed[f].valid \in Nat
           /\ sealed[f].valid <= sealed[f].data
           /\ Located(sealed[f]) /\ Laid(fat, sealed[f]) /\ Owns(o, f, sealed[f])
<1>1. /\ f \in Files /\ sealed[f] \in Stream /\ sealed[f].valid <= sealed[f].data
      /\ Laid(fat, sealed[f]) /\ Owns(o, f, sealed[f])
  BY DEF Laying, Owning, TypeOK, VolumeTypeOK, LengthsOK, Fits, Layout, Owned, RecordsOwned
<1>. QED
  BY <1>1 DEF Stream, Located

(* But for the chunk of a write and for the sealing of an append, a step   *)
(* shows every file as it was.                                             *)
LEMMA ShownStays ==
    ASSUME NEW o, Laying(o), Content(o), TypeOK', Layout', Appended, Step, NEW f \in live,
           sealed'[f] = sealed[f], ~(TransferChunk /\ op.kind = "write" /\ f = op.file)
    PROVE  Shown(fat', data', sealed'[f]) = Shown(fat, data, sealed[f])
<1>. DEFINE s == sealed[f]
<1>1. /\ f \in Files /\ s.valid \in Nat /\ s.valid <= s.data
      /\ Located(s) /\ Laid(fat, s) /\ Owns(o, f, s)
  BY SealedLaid
<1>2. \A i \in 0..(Count(s) - 1) : ChainIn(fat', s)[i] = ChainIn(fat, s)[i]
  BY SealedKept
<1>3. ASSUME NEW p \in 0..(s.valid - 1)
      PROVE  p \div ClusterBytes \in 0..(Count(s) - 1) /\ p % ClusterBytes \in 0..(ClusterBytes - 1)
  <2>. HIDE DEF s
  <2>. QED
    BY <1>1, <1>3, PositionIndex
<1>4. ASSUME NEW p \in 0..(s.valid - 1)
      PROVE  data'[ChainIn(fat, s)[p \div ClusterBytes]][p % ClusterBytes]
               = data[ChainIn(fat, s)[p \div ClusterBytes]][p % ClusterBytes]
  <2>1. CASE ~(TransferChunk /\ f = op.file)
    <3>. HIDE DEF s
    <3>. QED
      BY <1>1, <1>3, <1>4, <2>1, BytesStay
  <2>2. CASE TransferChunk /\ op.kind = "read"
    BY <2>2 DEF TransferChunk
  <2>3. CASE TransferChunk /\ op.kind = "append" /\ f = op.file
    <3>1. Moving /\ Filled = mine.pos /\ op.kind # "read" /\ ~At("idle")
      BY <2>3 DEF TransferChunk, At, Moving, Filled
    <3>2. /\ Count(s) <= Count(mine) /\ mine \in HandleType /\ Count(mine) \in Nat /\ Count(s) \in Nat
          /\ op.saved.valid = s.valid
      <4>1. StreamOf(op.saved) = s
        BY <2>3 DEF Laying, HandleInv, CallMatches
      <4>2. Count(op.saved) <= Count(mine) /\ op.saved.data = s.data
        BY <2>3, SavedLaid
      <4>. QED
        BY <1>1, <2>3, <3>1, <4>1, <4>2, LayingCall, Counted DEF StreamOf, Count
    <3>3. /\ s.valid <= mine.pos /\ mine.pos \in Nat
          /\ \A i \in 0..(Count(s) - 1) : ChainIn(fat, mine)[i] = ChainIn(fat, s)[i]
      BY <2>3, <3>1, <3>2 DEF Appended, HandleType
    <3>4. p \in Nat /\ p < mine.pos /\ p \div ClusterBytes \in 0..(Count(mine) - 1)
      BY <1>1, <1>3, <1>4, <3>2, <3>3
    <3>5. p \notin (mine.pos)..(mine.pos + Chunk - 1)
      BY <3>3, <3>4
    <3>6. data'[ChainIn(fat, mine)[p \div ClusterBytes]][p % ClusterBytes]
               = data[ChainIn(fat, mine)[p \div ClusterBytes]][p % ClusterBytes]
      BY <2>3, <3>1, <3>4, <3>5, ChunkWrites
    <3>7. ChainIn(fat, mine)[p \div ClusterBytes] = ChainIn(fat, s)[p \div ClusterBytes]
      BY <1>3, <1>4, <3>3
    <3>. QED
      BY <3>6, <3>7
  <2>4. TransferChunk => op.kind \in {"append", "read", "write"}
    BY PositionInside DEF TransferChunk, At, Moving
  <2>. QED
    BY <2>1, <2>2, <2>3, <2>4
<1>5. PICK t, D, F : t = sealed'[f] /\ D = data' /\ F = fat'
  OBVIOUS
<1>6. Shown(F, D, t) = Shown(fat, data, s)
  <2>1. t = s
    BY <1>5
  <2>. HIDE DEF s, ChainIn, Count
  <2>2. \A i \in 0..(Count(s) - 1) : ChainIn(F, t)[i] = ChainIn(fat, s)[i]
    BY <1>2, <1>5, <2>1
  <2>3. \A p \in 0..(s.valid - 1) :
             D[ChainIn(fat, s)[p \div ClusterBytes]][p % ClusterBytes]
               = data[ChainIn(fat, s)[p \div ClusterBytes]][p % ClusterBytes]
    BY <1>4, <1>5
  <2>. QED
    BY ONLY <1>1, <2>1, <2>2, <2>3, SameShown
<1>. QED
  BY <1>5, <1>6 DEF s

(* The bytes shown are bytes, and a byte at a time.                        *)
LEMMA ShownType ==
    ASSUME TypeOK, NEW s, Located(s), Laid(fat, s), s.valid \in Nat, s.valid <= s.data
    PROVE  /\ Shown(fat, data, s) \in [1..s.valid -> Values \cup {Zero}]
           /\ \A p \in 1..s.valid :
                /\ p - 1 \in 0..(s.valid - 1)
                /\ (p - 1) \div ClusterBytes \in 0..(Count(s) - 1)
                /\ Shown(fat, data, s)[p] = data[ChainIn(fat, s)[(p - 1) \div ClusterBytes]][(p - 1) % ClusterBytes]
<1>1. ASSUME NEW p \in 1..s.valid
      PROVE  /\ p - 1 \in 0..(s.valid - 1)
             /\ (p - 1) \div ClusterBytes \in 0..(Count(s) - 1)
             /\ data[ChainIn(fat, s)[(p - 1) \div ClusterBytes]][(p - 1) % ClusterBytes] \in Values \cup {Zero}
  <2>1. p - 1 \in 0..(s.valid - 1)
    BY <1>1
  <2>2. (p - 1) \div ClusterBytes \in 0..(Count(s) - 1) /\ (p - 1) % ClusterBytes \in 0..(ClusterBytes - 1)
    BY <2>1, PositionIndex
  <2>3. ChainIn(fat, s)[(p - 1) \div ClusterBytes] \in Clusters
    BY <2>2 DEF Laid
  <2>. QED
    BY <2>1, <2>2, <2>3 DEF TypeOK, VolumeTypeOK
<1>. QED
  BY <1>1 DEF Shown

(* A chunk of a write overwrites its range and nothing else.               *)
LEMMA ChunkOverwrites ==
    ASSUME NEW o, Laying(o), Content(o), TransferChunk, op.kind = "write", NEW s, s = sealed[op.file]
    PROVE  /\ op.file \in live /\ s.valid \in Nat
           /\ mine.pos + 1 \in 1..s.valid /\ mine.pos + Chunk \in 1..s.valid
           /\ Shown(fat', data', s) =
                [p \in 1..s.valid |-> IF p \in (mine.pos + 1)..(mine.pos + Chunk) THEN op.value
                                      ELSE Shown(fat, data, s)[p]]
<1>1. /\ Moving /\ op \in OpType /\ op.file \in Files /\ op.file \in live /\ mine \in HandleType
      /\ Located(mine) /\ Laid(fat, mine) /\ Count(mine) \in Nat /\ fat \in Links /\ TypeOK
  BY PositionInside DEF TransferChunk, Moving, At, Laying, Owning
<1>2. s = StreamOf(mine)
  BY <1>1 DEF Laying, HandleInv, CallMatches, HandleMatches, mine
<1>3. /\ s.first = mine.first /\ s.data = mine.data /\ s.nofat = mine.nofat /\ s.valid = mine.valid
      /\ s.valid \in Nat /\ mine.pos \in Nat
  BY <1>1, <1>2 DEF StreamOf, HandleType
<1>4. /\ Located(s) /\ Laid(fat, s) /\ Count(s) = Count(mine) /\ s.valid <= s.data
      /\ \A i \in 0..(Count(mine) - 1) : ChainIn(fat, s)[i] = ChainIn(fat, mine)[i]
  <2>1. s.valid <= s.data
    BY <1>1 DEF Laying, LengthsOK, Fits
  <2>2. /\ Located(s) /\ Laid(fat, s) /\ Count(s) = Count(mine)
        /\ \A i \in 0..(Count(mine) - 1) : ChainIn(fat, s)[i] = ChainIn(fat, mine)[i]
    <3>. HIDE DEF mine
    <3>. QED
      BY ONLY <1>1, <1>3, SamePlaces
  <2>. QED
    BY <2>1, <2>2
<1>5. Chunk \in Nat \ {0} /\ mine.pos + Chunk <= s.valid
  <2>1. op.rem \in Nat \ {0} /\ mine.pos + op.rem <= mine.valid
    BY <1>1 DEF Laying, LengthsOK, CallFits
  <2>2. Within \in 0..(ClusterBytes - 1) /\ ClusterBytes \in Nat
    BY <1>3, Parameters DEF Within
  <2>3. Chunk \in Nat \ {0} /\ Chunk <= op.rem
    BY <2>1, <2>2 DEF Chunk
  <2>. HIDE DEF Chunk
  <2>. QED
    BY <1>3, <2>1, <2>3
<1>6. fat' = fat
  BY DEF TransferChunk
<1>7. ASSUME NEW p \in 1..s.valid
      PROVE  data'[ChainIn(fat, s)[(p - 1) \div ClusterBytes]][(p - 1) % ClusterBytes] =
               IF p \in (mine.pos + 1)..(mine.pos + Chunk) THEN op.value ELSE Shown(fat, data, s)[p]
  <2>1. PICK q : q = p - 1
    OBVIOUS
  <2>2. /\ q \in Nat /\ q \div ClusterBytes \in 0..(Count(mine) - 1)
        /\ Shown(fat, data, s)[p] = data[ChainIn(fat, s)[q \div ClusterBytes]][q % ClusterBytes]
    <3>1. /\ q \in 0..(s.valid - 1) /\ q \div ClusterBytes \in 0..(Count(s) - 1)
          /\ Shown(fat, data, s)[p] = data[ChainIn(fat, s)[q \div ClusterBytes]][q % ClusterBytes]
      <4>. HIDE DEF Shown, ChainIn, Count
      <4>. QED
        BY <1>1, <1>3, <1>4, <1>7, <2>1, ShownType
    <3>. QED
      BY <1>4, <3>1
  <2>3. data'[ChainIn(fat, mine)[q \div ClusterBytes]][q % ClusterBytes] =
             IF q \in (mine.pos)..(mine.pos + Chunk - 1) THEN op.value
             ELSE data[ChainIn(fat, mine)[q \div ClusterBytes]][q % ClusterBytes]
    BY <2>2, ChunkWrites
  <2>4. ChainIn(fat, s)[q \div ClusterBytes] = ChainIn(fat, mine)[q \div ClusterBytes]
    BY <1>4, <2>2
  <2>5. q \in (mine.pos)..(mine.pos + Chunk - 1) <=> p \in (mine.pos + 1)..(mine.pos + Chunk)
    <3>. HIDE DEF Chunk
    <3>. QED
      BY <1>3, <1>5, <1>7, <2>1
  <2>. HIDE DEF Shown, ChainIn
  <2>. QED
    BY <2>1, <2>2, <2>3, <2>4, <2>5
<1>8. mine.pos + 1 \in 1..s.valid /\ mine.pos + Chunk \in 1..s.valid
  <2>. HIDE DEF Chunk
  <2>. QED
    BY <1>3, <1>5
<1>9. Shown(fat', data', s) =
        [p \in 1..s.valid |-> data'[ChainIn(fat, s)[(p - 1) \div ClusterBytes]][(p - 1) % ClusterBytes]]
  BY <1>6 DEF Shown
<1>10. [p \in 1..s.valid |-> data'[ChainIn(fat, s)[(p - 1) \div ClusterBytes]][(p - 1) % ClusterBytes]]
         = [p \in 1..s.valid |-> IF p \in (mine.pos + 1)..(mine.pos + Chunk) THEN op.value
                                 ELSE Shown(fat, data, s)[p]]
  <2>. HIDE DEF Shown, Chunk, ChainIn, mine
  <2>. QED
    BY <1>7
<1>. QED
  BY <1>1, <1>3, <1>8, <1>9, <1>10

(* Sealing shows the bytes of the append behind those that were there.     *)
LEMMA SealAppends ==
    ASSUME NEW o, Laying(o), Appended, Seal, NEW s, s = sealed[op.file]
    PROVE  /\ op.kind = "append" /\ op.file \in live
           /\ Shown(fat', data', sealed'[op.file])
                = Seqs!\o(Shown(fat, data, s), [i \in 1..op.n |-> op.value])
<1>1. op.kind = "append" /\ ~At("idle") /\ ~Moving
  BY DEF Seal, At, Moving, Laying, Owning, KindOK, NeverTruncated
<1>2. /\ op \in OpType /\ op.file \in Files /\ op.file \in live /\ mine \in HandleType
      /\ Located(mine) /\ Laid(fat, mine) /\ Count(mine) \in Nat /\ fat \in Links /\ TypeOK
      /\ sealed \in [Files -> Stream]
  BY <1>1, LayingCall DEF Laying, Owning, TypeOK, VolumeTypeOK, Links
<1>3. /\ s.valid \in Nat /\ s.valid <= s.data /\ Located(s) /\ Laid(fat, s)
  BY <1>2, SealedLaid
<1>4. PICK t : t = StreamOf(mine)
  OBVIOUS
<1>5. sealed'[op.file] = t /\ fat' = fat /\ data' = data
  BY <1>2, <1>4 DEF Seal, Laying, HandleInv, CallMatches
<1>6. /\ t.first = mine.first /\ t.data = mine.data /\ t.nofat = mine.nofat /\ t.valid = mine.valid
      /\ t.valid \in Nat /\ op.n \in Nat
  BY <1>2, <1>4 DEF StreamOf, HandleType, OpType
<1>7. Filled = t.valid /\ op.saved.valid = s.valid /\ t.valid = s.valid + op.n /\ t.valid <= t.data
  <2>1. StreamOf(op.saved) = s
    BY <1>1 DEF Laying, HandleInv, CallMatches
  <2>2. mine.valid = NewEnd /\ mine.valid <= mine.data
    <3>1. CallFits /\ Fits(handle[op.file]) /\ op.pc = "seal"
      BY <1>2 DEF Laying, LengthsOK, Seal, At
    <3>. QED
      BY <1>1, <3>1 DEF CallFits, Fits, mine
  <2>. QED
    BY <1>1, <1>6, <2>1, <2>2 DEF StreamOf, NewEnd, Filled
<1>8. /\ Located(t) /\ Laid(fat, t) /\ Count(t) = Count(mine)
      /\ \A i \in 0..(Count(mine) - 1) : ChainIn(fat, t)[i] = ChainIn(fat, mine)[i]
  <2>. HIDE DEF mine
  <2>. QED
    BY ONLY <1>2, <1>6, SamePlaces
<1>9. /\ \A i \in 0..(Count(s) - 1) : ChainIn(fat, mine)[i] = ChainIn(fat, s)[i]
      /\ \A p \in (s.valid)..(t.valid - 1) :
           data[ChainIn(fat, mine)[p \div ClusterBytes]][p % ClusterBytes] = op.value
  BY <1>1, <1>7 DEF Appended
<1>. DEFINE u == Shown(fat, data, s)
            v == Shown(fat, data, t)
<1>10. /\ u \in [1..s.valid -> Values \cup {Zero}]
       /\ \A p \in 1..s.valid :
            /\ p - 1 \in 0..(s.valid - 1) /\ (p - 1) \div ClusterBytes \in 0..(Count(s) - 1)
            /\ u[p] = data[ChainIn(fat, s)[(p - 1) \div ClusterBytes]][(p - 1) % ClusterBytes]
  <2>. HIDE DEF Shown, ChainIn, Count
  <2>. QED
    BY <1>2, <1>3, ShownType
<1>11. /\ v \in [1..t.valid -> Values \cup {Zero}]
       /\ \A p \in 1..t.valid :
            /\ p - 1 \in 0..(t.valid - 1) /\ (p - 1) \div ClusterBytes \in 0..(Count(t) - 1)
            /\ v[p] = data[ChainIn(fat, t)[(p - 1) \div ClusterBytes]][(p - 1) % ClusterBytes]
  <2>. HIDE DEF Shown, ChainIn, Count
  <2>. QED
    BY <1>2, <1>6, <1>7, <1>8, ShownType
<1>. HIDE DEF u, v
<1>12. \A p \in 1..t.valid :
         v[p] = data[ChainIn(fat, mine)[(p - 1) \div ClusterBytes]][(p - 1) % ClusterBytes]
  BY <1>8, <1>11
<1>13. \A p \in 1..s.valid : v[p] = u[p]
  <2>1. \A p \in 1..s.valid : p \in 1..t.valid
    BY <1>3, <1>6, <1>7
  <2>. QED
    BY <1>9, <1>10, <1>12, <2>1
<1>14. \A p \in (s.valid + 1)..(s.valid + op.n) : v[p] = op.value
  <2>1. \A p \in (s.valid + 1)..(s.valid + op.n) : p \in 1..t.valid /\ p - 1 \in (s.valid)..(t.valid - 1)
    BY <1>3, <1>6, <1>7
  <2>. QED
    BY <1>9, <1>12, <2>1
<1>15. v = Seqs!\o(u, [i \in 1..op.n |-> op.value])
  <2>. DEFINE V == Values \cup {Zero}
  <2>1. PICK n, b : n = op.n /\ b = op.value
    OBVIOUS
  <2>2. b \in V /\ n \in Nat
    BY <1>2, <1>6, <2>1 DEF OpType
  <2>3. u \in [1..s.valid -> V] /\ v \in [1..(s.valid + n) -> V]
    BY <1>7, <1>10, <1>11, <2>1
  <2>4. (\A p \in 1..s.valid : v[p] = u[p]) /\ \A p \in (s.valid + 1)..(s.valid + n) : v[p] = b
    BY <1>13, <1>14, <2>1
  <2>. HIDE DEF V
  <2>5. v = Seqs!\o(u, [i \in 1..n |-> b])
    BY ONLY <1>3, <2>2, <2>3, <2>4, SequenceExtended
  <2>. QED
    BY <2>1, <2>5
<1>16. Shown(fat', data', sealed'[op.file]) = v
  BY <1>5 DEF v, Shown
<1>. QED
  BY <1>1, <1>2, <1>15, <1>16 DEF u

-----------------------------------------------------------------------------
(* Every step of the program is a step of the store.                       *)

(* The mark of an absent file is no file.                                  *)
NoneIsNoFile == \A n \in Nat : None \notin [1..n -> Values \cup {Zero}]

(* What is known of a state when its step is to be mapped.                 *)
Storing(o) == Laying(o) /\ Content(o) /\ Appended /\ NoneIsNoFile

(* A file that is there shows as many bytes as its record says.            *)
LEMMA FileShown ==
    ASSUME NEW o, Storing(o), NEW f \in live
    PROVE  /\ f \in Files /\ Contents[f] = Shown(fat, data, sealed[f]) /\ Contents[f] # None
           /\ Seqs!Len(Contents[f]) = sealed[f].valid /\ sealed[f].valid \in Nat
<1>1. /\ f \in Files /\ sealed[f].valid \in Nat /\ sealed[f].valid <= sealed[f].data
      /\ Located(sealed[f]) /\ Laid(fat, sealed[f]) /\ TypeOK
  BY SealedLaid DEF Storing, Laying, Owning
<1>2. Shown(fat, data, sealed[f]) \in [1..sealed[f].valid -> Values \cup {Zero}]
  BY <1>1, ShownType
<1>. HIDE DEF Shown
<1>3. Contents[f] = Shown(fat, data, sealed[f])
  BY <1>1 DEF Contents
<1>4. Contents[f] # None
  BY <1>1, <1>2, <1>3 DEF Storing, NoneIsNoFile
<1>5. Seqs!Len(Contents[f]) = sealed[f].valid
  BY <1>1, <1>2, <1>3
<1>. QED
  BY <1>1, <1>3, <1>4, <1>5

(* Only seal changes what is sealed.                                       *)
LEMMA StepSeals ==
    ASSUME NEW o, Laying(o), Step
    PROVE  live' = live /\ (~Seal => sealed' = sealed)
<1>1. CASE Seal \/ UpdateStream
  BY <1>1 DEF Seal, UpdateStream
<1>2. CASE ~Seal /\ ~UpdateStream
  BY <1>2, RecordsUntouched
<1>. QED
  BY <1>1, <1>2

(* The files but one show what they showed.                                *)
LEMMA OneFile ==
    ASSUME NEW o, Storing(o), TypeOK', Layout', Step, NEW f \in live,
           TransferChunk \/ Seal => f = op.file
    PROVE  Contents' = [Contents EXCEPT ![f] = Shown(fat', data', sealed'[f])]
<1>1. live' = live /\ f \in Files /\ live \subseteq Files
  BY StepSeals DEF Storing, Laying, Owning, TypeOK, VolumeTypeOK
<1>2. ASSUME NEW g \in live, g # f
      PROVE  Shown(fat', data', sealed'[g]) = Shown(fat, data, sealed[g])
  <2>1. sealed'[g] = sealed[g]
    <3>1. CASE Seal
      BY <1>1, <1>2, <3>1 DEF Seal, Storing, Laying, Owning, TypeOK, VolumeTypeOK
    <3>2. CASE ~Seal
      BY <3>2, StepSeals DEF Storing
    <3>. QED
      BY <3>1, <3>2
  <2>2. ~(TransferChunk /\ op.kind = "write" /\ g = op.file)
    BY <1>2
  <2>. QED
    BY <2>1, <2>2, ShownStays DEF Storing
<1>. HIDE DEF Shown
<1>. QED
  BY <1>1, <1>2 DEF Contents

(* While the volume stays, so does what it shows.                          *)
LEMMA SameContents ==
    ASSUME UNCHANGED device
    PROVE  Contents' = Contents
<1>. HIDE DEF Shown
<1>. QED
  BY DEF Contents, device

(* A chunk of a write is an overwrite, sealing an append is an append, and *)
(* no other step of an operation is seen.                                  *)
LEMMA StepStores ==
    ASSUME NEW o, Storing(o), TypeOK', Layout', Step, ViewsShown, ViewsShown'
    PROVE  Store!Next
<1>1. /\ [f \in Files |-> View(f)] = Contents /\ [f \in Files |-> View(f)]' = Contents'
      /\ Call.kind = op.kind /\ Call.file = op.file /\ Call.n = op.n /\ Call.value = op.value
  BY DEF ViewsShown, Call
<1>2. PICK A, B : A = Contents /\ B = Contents'
  OBVIOUS
<1>3. CASE TransferChunk /\ op.kind = "write"
  <2>1. PICK s : s = sealed[op.file]
    OBVIOUS
  <2>2. /\ op.file \in live /\ s.valid \in Nat
        /\ mine.pos + 1 \in 1..s.valid /\ mine.pos + Chunk \in 1..s.valid
        /\ Shown(fat', data', s) =
             [p \in 1..s.valid |-> IF p \in (mine.pos + 1)..(mine.pos + Chunk) THEN op.value
                                   ELSE Shown(fat, data, s)[p]]
    BY <1>3, <2>1, ChunkOverwrites DEF Storing
  <2>3. sealed'[op.file] = s
    BY <1>3, <2>1 DEF TransferChunk
  <2>. HIDE DEF Shown, Contents, Chunk, mine
  <2>4. /\ A[op.file] = Shown(fat, data, s) /\ A[op.file] # None /\ Seqs!Len(A[op.file]) = s.valid
    BY <1>2, <2>1, <2>2, FileShown
  <2>5. B = [A EXCEPT ![op.file] = Shown(fat', data', s)]
    BY <1>2, <1>3, <2>2, <2>3, OneFile
  <2>6. PICK i, j : i = mine.pos + 1 /\ j = mine.pos + Chunk
    OBVIOUS
  <2>7. /\ i \in 1..Seqs!Len(A[op.file]) /\ j \in 1..Seqs!Len(A[op.file])
        /\ B = [A EXCEPT ![op.file] = [p \in 1..Seqs!Len(A[op.file]) |->
                                         IF p \in i..j THEN op.value ELSE A[op.file][p]]]
    BY <2>2, <2>4, <2>5, <2>6
  <2>8. Store!Overwrite
    <3>. DEFINE V == [f \in Files |-> View(f)]
                bytes == [p \in 1..Seqs!Len(V[Call.file]) |-> IF p \in i..j THEN Call.value
                                                           ELSE V[Call.file][p]]
    <3>1. V = A /\ V' = B
      BY <1>1, <1>2
    <3>2. bytes = [p \in 1..Seqs!Len(A[op.file]) |-> IF p \in i..j THEN op.value ELSE A[op.file][p]]
      <4>. HIDE DEF V, Call
      <4>. QED
        BY ONLY <1>1, <3>1
    <3>3. /\ Call.kind = "write" /\ V[Call.file] # None
          /\ i \in 1..Seqs!Len(V[Call.file]) /\ j \in 1..Seqs!Len(V[Call.file])
          /\ V' = [V EXCEPT ![Call.file] = bytes]
      <4>. HIDE DEF V, bytes, Call
      <4>. QED
        BY ONLY <1>1, <1>3, <2>4, <2>7, <3>1, <3>2
    <3>. QED
      BY ONLY <3>3, Zenon DEF Store!Overwrite, Store!Present, Store!SetContent
  <2>. QED
    BY <2>8 DEF Store!Next
<1>4. CASE Seal
  <2>1. PICK s : s = sealed[op.file]
    OBVIOUS
  <2>2. /\ op.kind = "append" /\ op.file \in live
        /\ Shown(fat', data', sealed'[op.file])
             = Seqs!\o(Shown(fat, data, s), [i \in 1..op.n |-> op.value])
    BY <1>4, <2>1, SealAppends DEF Storing
  <2>. HIDE DEF Shown, Contents
  <2>3. A[op.file] = Shown(fat, data, s) /\ A[op.file] # None
    BY <1>2, <2>1, <2>2, FileShown
  <2>4. B = [A EXCEPT ![op.file] = Shown(fat', data', sealed'[op.file])]
    <3>1. ~TransferChunk \/ op.file = op.file
      OBVIOUS
    <3>. QED
      BY <1>2, <2>2, OneFile
  <2>5. Call'.kind = "none"
    <3>1. op' = Idle
      BY <1>4 DEF Seal
    <3>. QED
      BY <3>1, IdleFields DEF Call
  <2>6. B = [A EXCEPT ![op.file] = Seqs!\o(A[op.file], [i \in 1..op.n |-> op.value])]
    BY <2>2, <2>3, <2>4
  <2>7. Store!AppendBytes
    <3>. DEFINE V == [f \in Files |-> View(f)]
                bytes == Seqs!\o(V[Call.file], [i \in 1..Call.n |-> Call.value])
    <3>1. V = A /\ V' = B
      BY <1>1, <1>2
    <3>2. bytes = Seqs!\o(A[op.file], [i \in 1..op.n |-> op.value])
      <4>. HIDE DEF V, Call
      <4>. QED
        BY ONLY <1>1, <3>1
    <3>3. /\ Call.kind = "append" /\ Call'.kind = "none" /\ V[Call.file] # None
          /\ V' = [V EXCEPT ![Call.file] = bytes]
      <4>. HIDE DEF V, bytes, Call
      <4>. QED
        BY ONLY <1>1, <2>2, <2>3, <2>5, <2>6, <3>1, <3>2
    <3>. QED
      BY ONLY <3>3, Zenon DEF Store!AppendBytes, Store!Present, Store!SetContent
  <2>. QED
    BY <2>7 DEF Store!Next
<1>5. CASE ~Seal /\ ~(TransferChunk /\ op.kind = "write")
  <2>1. live' = live /\ sealed' = sealed
    BY <1>5, StepSeals DEF Storing
  <2>2. \A f \in live : Shown(fat', data', sealed'[f]) = Shown(fat, data, sealed[f])
    BY <1>5, <2>1, ShownStays DEF Storing
  <2>3. Contents' = Contents
    <3>. HIDE DEF Shown
    <3>. QED
      BY <2>1, <2>2 DEF Contents
  <2>. QED
    BY <1>1, <2>3 DEF Store!Next
<1>. QED
  BY <1>3, <1>4, <1>5

(* What leaves the volume alone is not seen.                               *)
LEMMA NothingSeen ==
    ASSUME ViewsShown, ViewsShown', UNCHANGED device
    PROVE  Store!Next
<1>1. [f \in Files |-> View(f)] = Contents /\ [f \in Files |-> View(f)]' = Contents'
  BY DEF ViewsShown
<1>2. Contents' = Contents
  BY SameContents
<1>. QED
  BY <1>1, <1>2 DEF Store!Next

(* create and remove act as they are called; other calls are not seen.     *)
LEMMA CallStores ==
    ASSUME NEW o, Storing(o), NEW f \in Files, Calls(f), ViewsShown, ViewsShown'
    PROVE  Store!Next
<1>. DEFINE V == [g \in Files |-> View(g)]
<1>1. V = Contents /\ V' = Contents'
  BY DEF ViewsShown
<1>2. CASE CreateAbsent(f)
  <2>1. /\ op = Idle /\ f \notin live /\ live' = live \cup {f} /\ UNCHANGED <<fat, data>>
        /\ sealed' = [sealed EXCEPT ![f] = NoStream] /\ sealed \in [Files -> Stream] /\ live \subseteq Files
    BY <1>2 DEF CreateAbsent, Storing, Laying, Owning, KindOK, TypeOK, VolumeTypeOK
  <2>2. Shown(fat, data, NoStream) = << >>
    <3>1. NoStream.valid = 0 /\ 1..0 = {}
      BY DEF NoStream
    <3>. HIDE DEF NoStream
    <3>. QED
      BY <3>1 DEF Shown
  <2>3. Contents' = [Contents EXCEPT ![f] = << >>]
    <3>. HIDE DEF Shown, NoStream
    <3>1. Contents' = [g \in Files |-> IF g \in live' THEN Shown(fat, data, sealed'[g]) ELSE None]
      BY <2>1 DEF Contents
    <3>2. \A g \in Files : IF g = f THEN g \in live' /\ sealed'[g] = NoStream
                           ELSE (g \in live' <=> g \in live) /\ sealed'[g] = sealed[g]
      BY <2>1
    <3>. QED
      BY <2>2, <3>1, <3>2 DEF Contents
  <2>4. Contents[f] = None
    BY <2>1 DEF Contents
  <2>5. Call.kind = "none"
    BY <2>1, IdleFields DEF Call
  <2>6. Call.kind = "none" /\ ~(V[f] # None) /\ V' = [V EXCEPT ![f] = << >>]
    <3>. HIDE DEF V, Contents
    <3>. QED
      BY ONLY <1>1, <2>3, <2>4, <2>5
  <2>7. Store!Create(f)
    BY ONLY <2>6, Zenon DEF Store!Create, Store!Present, Store!SetContent
  <2>. QED
    BY <2>7 DEF Store!Next
<1>3. CASE Remove(f)
  <2>1. /\ op = Idle /\ f \in live /\ live' = live \ {f} /\ UNCHANGED <<fat, data, sealed>>
    BY <1>3 DEF Remove, Storing, Laying, Owning, KindOK
  <2>2. Contents' = [Contents EXCEPT ![f] = None]
    <3>. HIDE DEF Shown
    <3>. QED
      BY <2>1 DEF Contents
  <2>3. Contents[f] # None
    BY <2>1, FileShown
  <2>4. Call.kind = "none"
    BY <2>1, IdleFields DEF Call
  <2>5. Call.kind = "none" /\ V[f] # None /\ V' = [V EXCEPT ![f] = None]
    <3>. HIDE DEF V, Contents
    <3>. QED
      BY ONLY <1>1, <2>2, <2>3, <2>4
  <2>6. Store!Remove(f)
    BY ONLY <2>5, Zenon DEF Store!Remove, Store!Present, Store!SetContent
  <2>. QED
    BY <2>6 DEF Store!Next
<1>4. CASE Open(f) \/ Close(f)
  BY <1>4, NothingSeen DEF Open, Close
<1>5. ASSUME NEW n, NEW v, Append(f, n, v) PROVE Store!Next
  BY <1>5, NothingSeen DEF Append
<1>6. ASSUME NEW n, NEW v, NEW kind, StartTransfer(f, n, v, kind) PROVE Store!Next
  BY <1>6, NothingSeen DEF StartTransfer
<1>7. ~(CreateExisting(f) \/ \E len \in 0..MaxLength : Truncate(f, len))
  BY DEF CreateExisting, Truncate, Storing, Laying, Owning, NeverTruncated
<1>. QED
  BY <1>2, <1>3, <1>4, <1>5, <1>6, <1>7 DEF Calls, Read, Write

(* So every step is one of the store.                                      *)
LEMMA NextStores ==
    ASSUME NEW o, Storing(o), TypeOK', Layout', [Next]_vars, ViewsShown, ViewsShown'
    PROVE  Store!Next
<1>1. CASE RefreshFreeClusters \/ Remount \/ Crash \/ Cancel \/ IoError \/ UNCHANGED vars
  <2>1. UNCHANGED device
    BY <1>1 DEF RefreshFreeClusters, Remount, Crash, Restart, Cancel, IoError, Fail, vars, device
  <2>. QED
    BY <2>1, NothingSeen
<1>. QED
  BY <1>1, StepStores, CallStores DEF Next

(* Whatever fails, is cut off or is dropped, the files behave as the       *)
(* abstract store: create, remove, each chunk of a write and the sealing   *)
(* of an append act once, on their own file, with their own bytes, and no  *)
(* other step is seen (the order of the updates in append).                *)
THEOREM StoreImplemented ==
    ASSUME VolumeApart, NeverTruncated, HandlesTrusted, WholeClusters, PayloadGiven, NoneIsNoFile
    PROVE  Spec => ImplementsStore
<1>1. Store!Init
  BY DEF Store!Init
<1>2. ASSUME TypeOK, KindOK, HandleInv, LengthsOK, Layout, Filed, Appended, ViewsShown,
             TypeOK', Layout', ViewsShown', [Next]_vars
      PROVE  [Store!Next]_(Store!vars)
  <2>1. PICK o \in OwnerMaps : Owned(o) /\ Content(o)
    BY <1>2 DEF Filed
  <2>2. Storing(o)
    BY <1>2, <2>1 DEF Storing, Laying, Owning
  <2>3. Store!Next
    BY <1>2, <2>2, NextStores
  <2>. QED
    BY <2>3
<1>3. TypeOK /\ KindOK /\ LengthsOK /\ Layout => ViewsShown
  BY ShownView
<1>. QED
  BY <1>1, <1>2, <1>3, TypeCorrect, KindInvariant, HandleInvariant, LengthInvariant, LayoutInvariant,
     ContentInvariant, AppendedInvariant, PTL DEF Spec, ImplementsStore, Store!Spec
=============================================================================
