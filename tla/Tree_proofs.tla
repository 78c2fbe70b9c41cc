------------------------------- MODULE Tree_proofs -------------------------------
(***************************************************************************)
(* Whose cluster is whose: the directories of Tree share none, whatever is *)
(* made, grown, renamed, removed or interrupted in them, and only an       *)
(* interruption loses one.  And which paths there are: each call acts on   *)
(* them at once, as PathTree has it.                                       *)
(***************************************************************************)
EXTENDS Tree, Induction, FunctionTheorems

-----------------------------------------------------------------------------
(* The inductive invariant.                                                *)

Slots == 1..SlotsPerCluster
Places == Clusters \X Slots
(* No directory has this place: it stands for the clusters in hand.        *)
Hand == <<0, 1>>
Dirs == {Top, Hand} \cup Places
Chains == [Dirs -> Seq(Clusters)]

(* The clusters of a directory, and of them all.                           *)
In(ch, p, c) == \E i \in 1..Len(ch[p]) : ch[p][i] = c
Anywhere(ch, c) == \E p \in Dirs : In(ch, p, c)

(* No cluster is in two, or twice in one.                                  *)
Disjoint(ch) ==
    \A p, q \in Dirs : \A i \in 1..Len(ch[p]), j \in 1..Len(ch[q]) :
        ch[p][i] = ch[q][j] => p = q /\ i = j

(* The FAT leads through them, but where FreeLink has cut the first link.  *)
Cut(p, i) == At("unmark") /\ p = Hand /\ i = 1
Linked(ch) ==
    \A p \in Dirs : \A i \in 1..(Len(ch[p]) - 1) : Cut(p, i) \/ fat[ch[p][i]] = ch[p][i + 1]
Marked(ch) ==
    \A p \in Dirs : \A i \in 1..Len(ch[p]) : ch[p][i] \in used \/ (At("mark") /\ p = Hand)
(* The chain of the root has no length: its last link ends it.             *)
RootChain(ch) ==
    /\ ch[Top] # <<>> /\ ch[Top][1] = Root
    /\ fat[ch[Top][Len(ch[Top])]] \notin Clusters

(* The sets that can be found, and what they say of the chains.            *)
Live(ch, p) == Anywhere(ch, p[1]) /\ SetAt(p).used /\ ~Hidden(p)
Recorded(ch, p) ==
    /\ ch[p] # <<>> /\ ch[p][1] = SetAt(p).first /\ Len(ch[p]) = SetAt(p).len
    /\ ~In(ch, p, p[1])
Records(ch) ==
    \A p \in Places :
        /\ Live(ch, p) /\ SetAt(p).dir => Recorded(ch, p)
        /\ Live(ch, p) /\ ~SetAt(p).dir => SetAt(p).len = 0
        /\ ch[p] # <<>> => Live(ch, p) /\ SetAt(p).dir
HandEmpty(ch) == \A i \in 1..Len(ch[Hand]) : \A s \in Slots : ~content[ch[Hand][i]][s].used

Struct(ch) ==
    Disjoint(ch) /\ Linked(ch) /\ Marked(ch) /\ RootChain(ch) /\ Records(ch) /\ HandEmpty(ch)

(* What the operation in progress holds.                                   *)
Making == op.pc \in {"search", "claim", "mark", "terminate", "link", "length", "write"}
Placed == At("write") \/ (op.pc \in {"claim", "mark", "terminate"} /\ ~op.growing)
Claimed ==
    op.pc \in {"mark", "terminate", "link", "length"} \/ (At("write") /\ op.kind = "mkdir")
Releasing == op.pc \in {"free", "unmark"}

HandIs(ch) ==
    /\ Claimed => op.new \in Clusters /\ ch[Hand] = <<op.new>>
    /\ Releasing => /\ op.left \in Nat \ {0} /\ Len(ch[Hand]) = op.left /\ ch[Hand][1] = op.cl
                    /\ At("unmark") /\ op.left # 1 => op.next = ch[Hand][2]
    /\ ~Claimed /\ ~Releasing => ch[Hand] = <<>>
    /\ At("link") => fat[op.new] \notin Clusters
    /\ At("length") => /\ op.dir.at # Top
                       /\ fat[ch[op.dir.at][Len(ch[op.dir.at])]] = op.new
DirIs(ch) ==
    Making \/ At("descend") =>
        op.dir.at \in {Top} \cup Places /\ ch[op.dir.at] # <<>> /\ op.dir = DirectoryAt(op.dir.at)
PlaceIs(ch) ==
    Placed => op.place \in Places /\ In(ch, op.dir.at, op.place[1]) /\ ~SetAt(op.place).used
CallIs ==
    /\ At("descend") \/ (Placed /\ ~At("write")) => op.kind = "mkdir"
    /\ op.pc \in {"link", "length"} => op.growing
    /\ (At("descend") \/ Making) /\ op.kind = "mkdir" => op.path \in Paths /\ op.i \in 1..Len(op.path)
SetIs ==
    /\ Making => op.kind \in {"mkdir", "create", "rename"}
    /\ Making /\ op.kind = "create" => op.set.used /\ ~op.set.dir /\ op.set.len = 0
    /\ At("write") /\ op.kind = "mkdir" =>
          op.set.used /\ op.set.dir /\ op.set.first = op.new /\ op.set.len = 1
    /\ At("edit") => op.name \in Names /\ ~Shrinks(op.set, op.name)

(* The set that is renamed or removed.                                     *)
Copied == /\ op.set.used /\ op.set.dir = SetAt(op.old).dir
          /\ op.set.first = SetAt(op.old).first /\ op.set.len = SetAt(op.old).len
OldIs(ch) ==
    /\ (Making /\ op.kind = "rename") \/ op.pc \in {"edit", "retire", "retireOld"} =>
          op.old \in Places /\ Live(ch, op.old) /\ Copied
    /\ Making /\ op.kind = "rename" => In(ch, op.dir.at, op.old[1])
    /\ At("retire") /\ op.set.dir =>
          \A i \in 1..Len(ch[op.old]) : \A s \in Slots : ~content[ch[op.old][i]][s].used
    /\ At("retireOld") => /\ op.place \in Places /\ Anywhere(ch, op.place[1])
                          /\ ~In(ch, op.old, op.place[1]) /\ SetAt(op.place) = op.set
                          /\ op.dir.at \in {Top} \cup Places
                          /\ In(ch, op.dir.at, op.old[1]) /\ In(ch, op.dir.at, op.place[1])

Held(ch) == HandIs(ch) /\ DirIs(ch) /\ PlaceIs(ch) /\ CallIs /\ SetIs /\ OldIs(ch)

(* The types of the variables.                                             *)
Addresses == Clusters \cup {0}
SlotType ==
    [used : BOOLEAN, surplus : BOOLEAN, name : StoredNames \cup {None}, wide : BOOLEAN,
     dir : BOOLEAN, first : Addresses, len : 0..ClusterCount]
DirType == [first : Addresses, len : 0..ClusterCount, at : {Top} \cup Places]
OpType ==
    [pc : {"idle", "descend", "search", "claim", "mark", "terminate", "link", "length", "write",
           "edit", "retire", "retireOld", "free", "unmark"},
     kind : {"none", "mkdir", "create", "remove", "rename"}, path : Paths \cup {<<>>}, i : Nat,
     name : Names \cup {None}, dir : DirType, set : SlotType, old : Places \cup {None},
     place : Places \cup {None}, growing : BOOLEAN, new : Addresses, cl : Addresses,
     next : Addresses \cup {EndOfChain}, left : 0..ClusterCount]
SetFits(s) == s.dir /\ s.used => s.first \in Clusters /\ s.len # 0
Types ==
    /\ content \in [Clusters -> [Slots -> SlotType]]
    /\ \A c \in Clusters : \A s \in Slots : SetFits(content[c][s])
    /\ fat \in [Clusters -> Addresses \cup {EndOfChain}]
    /\ used \subseteq Clusters
    /\ op \in OpType

Inv == Types /\ \E ch \in Chains : Struct(ch) /\ Held(ch)

-----------------------------------------------------------------------------
(* Constants, places and sequences of clusters.                            *)

LEMMA Parameters ==
    /\ ClusterCount \in Nat \ {0} /\ SlotsPerCluster \in Nat \ {0} /\ MaxDepth \in Nat
    /\ Clusters \subseteq Nat \ {0, 1} /\ Root \in Clusters /\ Root = 2
    /\ 0 \notin Clusters /\ EndOfChain \notin Clusters /\ Free \notin Clusters
    /\ Free = 0 /\ EndOfChain = 1 /\ Slots \subseteq Nat \ {0}
    /\ None \notin Names
BY TreeAssumption DEF Clusters, Root, Free, EndOfChain, Slots

LEMMA PlacesApart ==
    /\ Top \notin Places /\ Hand \notin Places /\ Top # Hand
    /\ None \notin Places /\ None # Top /\ None # Hand
    /\ Top \in Dirs /\ Hand \in Dirs /\ Places \subseteq Dirs /\ Dirs = {Top, Hand} \cup Places
    /\ \A p \in Places : p[1] \in Clusters /\ p[2] \in Slots /\ p = <<p[1], p[2]>>
    /\ \A c \in Clusters, s \in Slots : <<c, s>> \in Places
<1>1. Top \notin Places /\ Hand \notin Places /\ Top # Hand
  BY Parameters DEF Places, Top, Hand
<1>2. Places \subseteq Nat \X Nat /\ Top \in Nat \X Nat /\ Hand \in Nat \X Nat
  BY Parameters DEF Places, Top, Hand
<1>3. None \notin Nat \X Nat
  BY TreeAssumption
<1>. QED
  BY <1>1, <1>2, <1>3 DEF Places, Dirs

LEMMA ChainTypes ==
    ASSUME NEW ch \in Chains, NEW p \in Dirs
    PROVE  /\ ch[p] \in Seq(Clusters) /\ Len(ch[p]) \in Nat /\ DOMAIN ch[p] = 1..Len(ch[p])
           /\ \A i \in 1..Len(ch[p]) : ch[p][i] \in Clusters
           /\ ch[p] # <<>> <=> Len(ch[p]) # 0
           /\ ch[p] # <<>> <=> 1 \in 1..Len(ch[p])
           /\ ch[p] # <<>> <=> Len(ch[p]) \in 1..Len(ch[p])
BY DEF Chains

LEMMA UpTo ==
    ASSUME NEW m \in Nat
    PROVE  IsFiniteSet(1..m) /\ Cardinality(1..m) = m
<1>1. 1 \in Int /\ m \in Int /\ (1 > m => m = 0) /\ m - 1 + 1 = m
  OBVIOUS
<1>. QED
  BY ONLY SMTT(30), <1>1, FS_Interval

(* A chain has no more clusters than there are.                            *)
LEMMA ChainFits ==
    ASSUME NEW s \in Seq(Clusters), \A i, j \in 1..Len(s) : s[i] = s[j] => i = j
    PROVE  Len(s) <= ClusterCount /\ Cardinality({s[i] : i \in 1..Len(s)}) = Len(s)
<1>. DEFINE n == Len(s)
            R == {s[i] : i \in 1..n}
<1>1. n \in Nat /\ s \in [1..n -> Clusters]
  OBVIOUS
<1>2. IsFiniteSet(1..n) /\ Cardinality(1..n) = n
  BY <1>1, UpTo
<1>3. IsFiniteSet(Clusters) /\ Cardinality(Clusters) = ClusterCount
  BY Parameters, FS_Interval DEF Clusters
<1>4. s \in Injection(1..n, Clusters)
  BY <1>1 DEF Injection, IsInjective
<1>5. s \in Bijection(1..n, R)
  BY <1>1 DEF Bijection, Injection, Surjection, IsInjective
<1>6. ExistsBijection(1..n, R)
  BY <1>5 DEF ExistsBijection
<1>. HIDE DEF n, R
<1>7. n <= ClusterCount
  BY <1>2, <1>3, <1>4, FS_Injection
<1>8. Cardinality(R) = n
  BY <1>2, <1>6, FS_Bijection
<1>. QED
  BY <1>7, <1>8 DEF n, R

-----------------------------------------------------------------------------
(* Chains.                                                                 *)

(* The recursion of Chain, unfolded.                                       *)
LEMMA ChainEquation ==
    ASSUME Types, NEW first \in Addresses \cup {EndOfChain}
    PROVE  \E e \in [1..ClusterCount -> Addresses \cup {EndOfChain}] :
             /\ e[1] = first
             /\ \A k \in 2..ClusterCount :
                    e[k] = IF e[k - 1] \in Clusters THEN fat[e[k - 1]] ELSE e[k - 1]
             /\ Chain(first) = [k \in {j \in 1..ClusterCount : e[j] \in Clusters} |-> e[k]]
<1>. DEFINE S == Addresses \cup {EndOfChain}
            n == ClusterCount - 1
            follow == [c \in Clusters \cup {Free, EndOfChain} |-> IF c \in Clusters THEN fat[c] ELSE c]
            step == [i \in 1..n |-> follow]
            Unfold(d) == [k \in 1..ClusterCount |-> IF k = 1 THEN first ELSE follow[d[k - 1]]]
<1>1. n \in Nat /\ ClusterCount \in Nat \ {0} /\ Clusters \cup {Free, EndOfChain} = S
  BY Parameters DEF Addresses
<1>2. follow \in [S -> S] /\ \A c \in S : follow[c] = IF c \in Clusters THEN fat[c] ELSE c
  BY <1>1 DEF Types
<1>. HIDE DEF follow
<1>3. step \in [1..n -> [S -> S]]
  BY <1>2
<1>. HIDE DEF step, S
<1>4. PICK c : Iterates(c, n, S, first, step)
  BY <1>1, <1>3, Iteration DEF S
<1>5. c \in [0..n -> S] /\ c[0] = first /\ \A i \in 1..n : c[i] = follow[c[i - 1]]
  BY <1>4 DEF Iterates, step
<1>. DEFINE d == [k \in 1..ClusterCount |-> c[k - 1]]
<1>6. \A k \in 1..ClusterCount : k - 1 \in 0..n /\ (k # 1 => k - 1 \in 1..n)
  BY <1>1
<1>7. d = Unfold(d)
  <2>1. \A k \in 1..ClusterCount : d[k] = Unfold(d)[k]
    <3>. SUFFICES ASSUME NEW k \in 1..ClusterCount PROVE d[k] = Unfold(d)[k]
      OBVIOUS
    <3>1. CASE k = 1
      BY <3>1, <1>5
    <3>2. CASE k # 1
      <4>1. k - 1 \in 1..ClusterCount /\ c[k - 1] = follow[c[k - 1 - 1]]
        BY <3>2, <1>1, <1>5, <1>6
      <4>. QED
        BY <3>2, <4>1
    <3>. QED
      BY <3>1, <3>2
  <2>. QED
    BY <2>1
<1>8. PICK e : e = (CHOOSE x : x = Unfold(x)) /\ e = Unfold(e)
  <2>. HIDE DEF d, Unfold
  <2>. QED
    BY <1>7
<1>9. Chain(first) = [k \in {j \in 1..ClusterCount : e[j] \in Clusters} |-> e[k]]
  BY <1>8 DEF Chain, follow
<1>10. e[1] = first /\ \A k \in 2..ClusterCount : e[k] = follow[e[k - 1]]
  <2>1. \A k \in 1..ClusterCount : e[k] = Unfold(e)[k]
    BY <1>8
  <2>2. 1 \in 1..ClusterCount /\ \A k \in 2..ClusterCount : k \in 1..ClusterCount /\ k # 1
    BY <1>1
  <2>. QED
    BY <2>1, <2>2
<1>11. e = [k \in 1..ClusterCount |-> e[k]]
  BY <1>8
<1>. DEFINE T == {k \in 0..n : e[k + 1] \in S}
<1>12. 0 \in T
  BY <1>1, <1>10 DEF S
<1>13. ASSUME NEW i \in 1..n, i - 1 \in T PROVE i \in T
  <2>1. e[i] \in S /\ e[i + 1] = follow[e[i]] /\ i \in 0..n
    <3>1. i + 1 \in 2..ClusterCount /\ i + 1 - 1 = i /\ i - 1 + 1 = i /\ i \in 0..n
      BY <1>1
    <3>2. e[i + 1] = follow[e[i + 1 - 1]] /\ e[i - 1 + 1] \in S
      BY <3>1, <1>10, <1>13
    <3>. QED
      BY <3>1, <3>2
  <2>. QED
    BY <2>1, <1>2
<1>. HIDE DEF T
<1>14. \A i \in 0..n : i \in T
  BY <1>1, <1>12, <1>13, IntervalInduction
<1>15. ASSUME NEW k \in 1..ClusterCount PROVE e[k] \in S
  <2>1. k - 1 \in T /\ k - 1 + 1 = k
    BY <1>6, <1>14
  <2>. QED
    BY <2>1 DEF T
<1>16. e \in [1..ClusterCount -> S]
  BY <1>11, <1>15
<1>17. \A k \in 2..ClusterCount : e[k] = IF e[k - 1] \in Clusters THEN fat[e[k - 1]] ELSE e[k - 1]
  <2>1. \A k \in 2..ClusterCount : k - 1 \in 1..ClusterCount
    BY <1>1
  <2>. QED
    BY <2>1, <1>2, <1>10, <1>15
<1>. QED
  BY <1>9, <1>10, <1>16, <1>17 DEF S

(* A chain is a sequence: what leads out of the heap does not come back.   *)
LEMMA ChainSequence ==
    ASSUME Types, NEW first \in Addresses \cup {EndOfChain}
    PROVE  Chain(first) \in Seq(Clusters) /\ (first \notin Clusters => Chain(first) = <<>>)
<1>1. PICK e \in [1..ClusterCount -> Addresses \cup {EndOfChain}] :
             /\ e[1] = first
             /\ \A k \in 2..ClusterCount :
                    e[k] = IF e[k - 1] \in Clusters THEN fat[e[k - 1]] ELSE e[k - 1]
             /\ Chain(first) = [k \in {j \in 1..ClusterCount : e[j] \in Clusters} |-> e[k]]
  BY ChainEquation
<1>2. ClusterCount \in Nat \ {0}
  BY Parameters
<1>. DEFINE out == {k \in 1..ClusterCount : e[k] \notin Clusters}
<1>3. CASE out = {}
  <2>1. {j \in 1..ClusterCount : e[j] \in Clusters} = 1..ClusterCount
    BY <1>3
  <2>2. Chain(first) = [k \in 1..ClusterCount |-> e[k]] /\ \A k \in 1..ClusterCount : e[k] \in Clusters
    BY <1>1, <2>1
  <2>3. first \in Clusters
    BY <1>1, <1>2, <2>2
  <2>. QED
    BY <1>2, <2>2, <2>3
<1>4. CASE out # {}
  <2>1. out \subseteq Nat
    OBVIOUS
  <2>2. PICK m \in out : \A y \in out : m <= y
    <3>. HIDE DEF out
    <3>. QED
      BY <1>4, <2>1, LeastNumber
  <2>3. m \in 1..ClusterCount /\ e[m] \notin Clusters /\ \A k \in 1..(m - 1) : e[k] \in Clusters
    BY <2>2, <1>2
  <2>. DEFINE T == {k \in 0..(ClusterCount - m) : e[m + k] \notin Clusters}
  <2>4. 0 \in T
    BY <2>3, <1>2
  <2>5. ASSUME NEW i \in 1..(ClusterCount - m), i - 1 \in T PROVE i \in T
    <3>1. m + i \in 2..ClusterCount /\ m + i - 1 = m + (i - 1) /\ i \in 0..(ClusterCount - m)
      BY <2>3, <1>2
    <3>2. e[m + i - 1] \notin Clusters
      BY <2>5, <3>1
    <3>3. e[m + i] = e[m + i - 1]
      BY <1>1, <3>1, <3>2
    <3>. QED
      BY <3>1, <3>2, <3>3
  <2>. HIDE DEF T
  <2>6. \A i \in 0..(ClusterCount - m) : i \in T
    <3>1. ClusterCount - m \in Nat
      BY <1>2, <2>3
    <3>. QED
      BY <3>1, <2>4, <2>5, IntervalInduction
  <2>7. \A k \in m..ClusterCount : e[k] \notin Clusters
    <3>. SUFFICES ASSUME NEW k \in m..ClusterCount PROVE e[k] \notin Clusters
      OBVIOUS
    <3>1. k - m \in 0..(ClusterCount - m) /\ m + (k - m) = k
      BY <1>2, <2>3
    <3>. QED
      BY <2>6, <3>1 DEF T
  <2>8. {j \in 1..ClusterCount : e[j] \in Clusters} = 1..(m - 1)
    BY <1>2, <2>3, <2>7
  <2>9. Chain(first) = [k \in 1..(m - 1) |-> e[k]] /\ m - 1 \in Nat
    BY <1>1, <1>2, <2>3, <2>8
  <2>10. Chain(first) \in Seq(Clusters)
    BY <2>3, <2>9
  <2>11. first \notin Clusters => m = 1
    BY <1>1, <1>2, <2>3
  <2>. QED
    BY <2>9, <2>10, <2>11
<1>. QED
  BY <1>3, <1>4

(* Linked clusters are a chain's first ones; all of it if the last link    *)
(* leads nowhere.                                                          *)
LEMMA ChainLeads ==
    ASSUME Types, NEW s \in Seq(Clusters), s # <<>>, Len(s) <= ClusterCount,
           \A i \in 1..(Len(s) - 1) : fat[s[i]] = s[i + 1]
    PROVE  /\ Chain(s[1]) \in Seq(Clusters) /\ Len(s) <= Len(Chain(s[1]))
           /\ \A i \in 1..Len(s) : Chain(s[1])[i] = s[i]
           /\ fat[s[Len(s)]] \notin Clusters => Chain(s[1]) = s
<1>1. s[1] \in Clusters /\ Len(s) \in Nat \ {0} /\ ClusterCount \in Nat \ {0}
  BY Parameters
<1>2. PICK e \in [1..ClusterCount -> Addresses \cup {EndOfChain}] :
             /\ e[1] = s[1]
             /\ \A k \in 2..ClusterCount :
                    e[k] = IF e[k - 1] \in Clusters THEN fat[e[k - 1]] ELSE e[k - 1]
             /\ Chain(s[1]) = [k \in {j \in 1..ClusterCount : e[j] \in Clusters} |-> e[k]]
  BY <1>1, ChainEquation DEF Addresses
<1>. DEFINE T == {k \in 0..(Len(s) - 1) : e[k + 1] = s[k + 1]}
<1>3. 0 \in T
  BY <1>1, <1>2
<1>4. ASSUME NEW i \in 1..(Len(s) - 1), i - 1 \in T PROVE i \in T
  <2>1. /\ i \in 1..Len(s) /\ i + 1 \in 1..Len(s) /\ i + 1 \in 2..ClusterCount
        /\ i - 1 + 1 = i /\ i + 1 - 1 = i /\ i \in 0..(Len(s) - 1)
    BY <1>1
  <2>2. e[i] = s[i] /\ s[i] \in Clusters
    BY <1>4, <2>1
  <2>3. e[i + 1] = fat[s[i]]
    BY <1>2, <2>1, <2>2
  <2>. QED
    BY <2>1, <2>3
<1>. HIDE DEF T
<1>5. \A i \in 0..(Len(s) - 1) : i \in T
  <2>1. Len(s) - 1 \in Nat
    BY <1>1
  <2>. QED
    BY <2>1, <1>3, <1>4, IntervalInduction
<1>6. ASSUME NEW i \in 1..Len(s) PROVE e[i] = s[i] /\ s[i] \in Clusters /\ i \in 1..ClusterCount
  <2>1. i - 1 \in 0..(Len(s) - 1) /\ i - 1 + 1 = i
    BY <1>1
  <2>2. i - 1 \in T
    BY <2>1, <1>5
  <2>3. e[i] = s[i]
    BY <2>1, <2>2 DEF T
  <2>. QED
    BY <2>3, <1>1
<1>7. Chain(s[1]) \in Seq(Clusters)
  BY <1>1, ChainSequence DEF Addresses
<1>. DEFINE D == {j \in 1..ClusterCount : e[j] \in Clusters}
            c == Chain(s[1])
<1>8. D = 1..Len(c) /\ \A k \in D : c[k] = e[k]
  <2>1. DOMAIN c = 1..Len(c)
    BY <1>7
  <2>2. c = [k \in D |-> e[k]]
    BY <1>2
  <2>. HIDE DEF c, D
  <2>. QED
    BY <2>1, <2>2
<1>9. \A i \in 1..Len(s) : i \in D /\ c[i] = s[i]
  BY <1>6, <1>8
<1>10. Len(s) <= Len(c)
  <2>1. Len(s) \in D
    BY <1>1, <1>9
  <2>. HIDE DEF D, c
  <2>. QED
    BY <2>1, <1>8
<1>11. ASSUME fat[s[Len(s)]] \notin Clusters PROVE c = s
  <2>1. Len(s) + 1 \notin D
    <3>1. SUFFICES ASSUME Len(s) + 1 \in 1..ClusterCount PROVE e[Len(s) + 1] \notin Clusters
      OBVIOUS
    <3>2. Len(s) + 1 \in 2..ClusterCount /\ Len(s) + 1 - 1 = Len(s) /\ Len(s) \in 1..Len(s)
      BY <1>1, <3>1
    <3>3. e[Len(s) + 1] = fat[s[Len(s)]]
      BY <1>2, <1>6, <3>2
    <3>. QED
      BY <3>3, <1>11
  <2>2. Len(c) \in Nat
    BY <1>7
  <2>3. Len(c) = Len(s)
    <3>. HIDE DEF D, c
    <3>. QED
      BY <2>1, <2>2, <1>1, <1>8, <1>10
  <2>. HIDE DEF c, D
  <2>. QED
    BY <2>3, <1>7, <1>9 DEF c
<1>. QED
  BY <1>7, <1>9, <1>10, <1>11

-----------------------------------------------------------------------------
(* What the scans of a directory return.                                   *)

LEMMA NotTwice ==
    ASSUME NEW ch \in Chains, Disjoint(ch), NEW p \in Dirs
    PROVE  /\ \A i, j \in 1..Len(ch[p]) : ch[p][i] = ch[p][j] => i = j
           /\ Len(ch[p]) <= ClusterCount
           /\ Cardinality({ch[p][i] : i \in 1..Len(ch[p])}) = Len(ch[p])
<1>1. \A i, j \in 1..Len(ch[p]) : ch[p][i] = ch[p][j] => i = j
  BY DEF Disjoint
<1>. QED
  BY <1>1, ChainTypes, ChainFits

LEMMA SetTypes ==
    ASSUME Types, NEW p \in Places
    PROVE  SetAt(p) \in SlotType /\ SetFits(SetAt(p)) /\ content[p[1]] \in [Slots -> SlotType]
BY PlacesApart DEF Types, SetAt

(* The chain that a directory's record says is the one it has.             *)
LEMMA ClustersAre ==
    ASSUME Types, NEW ch \in Chains, Struct(ch), NEW p \in {Top} \cup Places, ch[p] # <<>>
    PROVE  /\ ClustersOf(DirectoryAt(p)) = ch[p] /\ DirectoryAt(p) \in DirType
           /\ LastOf(DirectoryAt(p)) = ch[p][Len(ch[p])] /\ DirectoryAt(p).at = p
           /\ DirectoryAt(p).len = IF p = Top THEN 0 ELSE Len(ch[p])
<1>1. p \in Dirs /\ p # Hand
  BY PlacesApart
<1>2. ch[p] \in Seq(Clusters) /\ Len(ch[p]) \in Nat \ {0} /\ Len(ch[p]) <= ClusterCount
  BY <1>1, ChainTypes, NotTwice DEF Struct
<1>3. \A i \in 1..(Len(ch[p]) - 1) : fat[ch[p][i]] = ch[p][i + 1]
  BY <1>1 DEF Struct, Linked, Cut
<1>4. /\ Chain(ch[p][1]) \in Seq(Clusters) /\ Len(ch[p]) <= Len(Chain(ch[p][1]))
      /\ \A i \in 1..Len(ch[p]) : Chain(ch[p][1])[i] = ch[p][i]
      /\ fat[ch[p][Len(ch[p])]] \notin Clusters => Chain(ch[p][1]) = ch[p]
  BY <1>2, <1>3, ChainLeads
<1>5. ClustersOf(DirectoryAt(p)) = ch[p]
  <2>1. CASE p = Top
    <3>1. DirectoryAt(p).len = 0 /\ DirectoryAt(p).first = ch[p][1]
      BY <2>1 DEF DirectoryAt, Struct, RootChain
    <3>. QED
      BY <3>1, <2>1, <1>4 DEF ClustersOf, Struct, RootChain
  <2>2. CASE p # Top
    <3>1. DirectoryAt(p).len = Len(ch[p]) /\ DirectoryAt(p).first = ch[p][1]
      BY <2>2 DEF DirectoryAt, Struct, Records, Recorded
    <3>2. ClustersOf(DirectoryAt(p)) = SubSeq(Chain(ch[p][1]), 1, Len(ch[p]))
      BY <3>1, <1>2 DEF ClustersOf
    <3>. DEFINE c == Chain(ch[p][1])
                b == SubSeq(c, 1, Len(ch[p]))
    <3>. HIDE DEF c
    <3>3. b \in Seq(Clusters) /\ Len(b) = Len(ch[p]) /\ \A i \in 1..Len(ch[p]) : b[i] = c[i]
      BY <1>2, <1>4 DEF c
    <3>4. b = ch[p]
      BY <1>2, <1>4, <3>3 DEF c
    <3>. QED
      BY <3>2, <3>4 DEF c
  <2>. QED
    BY <2>1, <2>2
<1>6. DirectoryAt(p) \in DirType /\ DirectoryAt(p).at = p
  <2>1. CASE p = Top
    BY <2>1, Parameters DEF DirectoryAt, DirType, Addresses
  <2>2. CASE p # Top
    BY <2>2, SetTypes DEF DirectoryAt, DirType, SlotType
  <2>. QED
    BY <2>1, <2>2
<1>7. DirectoryAt(p).len = IF p = Top THEN 0 ELSE Len(ch[p])
  BY DEF DirectoryAt, Struct, Records, Recorded
<1>. QED
  BY <1>5, <1>6, <1>7 DEF LastOf

(* Of places in a scan there is a first.                                   *)
Before(h, g) == h[1] < g[1] \/ (h[1] = g[1] /\ h[2] <= g[2])

LEMMA FirstHit ==
    ASSUME NEW H, NEW n \in Nat, H \subseteq (1..n) \X Slots, H # {}
    PROVE  \E h \in H : \A g \in H : Before(h, g)
<1>. DEFINE A == {h[1] : h \in H}
<1>1. A \subseteq Nat /\ A # {}
  OBVIOUS
<1>. HIDE DEF A
<1>2. PICK a \in A : \A b \in A : a <= b
  BY <1>1, LeastNumber
<1>. DEFINE B == {h[2] : h \in {g \in H : g[1] = a}}
<1>3. B \subseteq Nat /\ B # {}
  BY <1>2, Parameters DEF A
<1>. HIDE DEF B
<1>4. PICK b \in B : \A c \in B : b <= c
  BY <1>3, LeastNumber
<1>5. PICK h \in H : h[1] = a /\ h[2] = b
  BY <1>4 DEF B
<1>6. ASSUME NEW g \in H PROVE Before(h, g)
  <2>1. g[1] \in A /\ g[1] \in Nat /\ a \in Nat
    BY <1>1, <1>2 DEF A
  <2>2. g[1] = a => g[2] \in B
    BY DEF B
  <2>3. a <= g[1] /\ (g[1] = a => b <= g[2])
    BY <1>2, <1>4, <2>1, <2>2
  <2>. QED
    BY <1>5, <2>1, <2>3 DEF Before
<1>. QED
  BY <1>5, <1>6

Spot(chain, H) ==
    IF H = {} THEN None
    ELSE <<chain[(CHOOSE h \in H : \A g \in H : Before(h, g))[1]],
           (CHOOSE h \in H : \A g \in H : Before(h, g))[2]>>
Hits(chain) == (DOMAIN chain) \X (1..SlotsPerCluster)
Slot(chain, h) == content[chain[h[1]]][h[2]]

LEMMA Spots ==
    \A d, n : /\ FindChild(d, n) =
                    Spot(ClustersOf(d), {h \in Hits(ClustersOf(d)) : Slot(ClustersOf(d), h).used
                                                                      /\ Slot(ClustersOf(d), h).name = n})
              /\ FirstEntry(d) =
                    Spot(ClustersOf(d), {h \in Hits(ClustersOf(d)) : Slot(ClustersOf(d), h).used})
              /\ FreeSlot(d) =
                    Spot(ClustersOf(d), {h \in Hits(ClustersOf(d)) : ~Slot(ClustersOf(d), h).used
                                                                      /\ ~Slot(ClustersOf(d), h).surplus})
BY DEF FindChild, FirstEntry, FreeSlot, FirstPlace, Spot, Hits, Slot, Before

LEMMA SpotIs ==
    ASSUME NEW chain \in Seq(Clusters), NEW H \in SUBSET Hits(chain)
    PROVE  /\ H = {} => Spot(chain, H) = None
           /\ H # {} => \E h \in H : Spot(chain, H) = <<chain[h[1]], h[2]>>
<1>1. ASSUME H # {} PROVE \E h \in H : Spot(chain, H) = <<chain[h[1]], h[2]>>
  <2>1. H \subseteq (1..Len(chain)) \X Slots /\ Len(chain) \in Nat
    BY DEF Hits, Slots
  <2>2. \E h \in H : \A g \in H : Before(h, g)
    BY <1>1, <2>1, FirstHit
  <2>. QED
    BY <1>1, <2>2 DEF Spot
<1>. QED
  BY <1>1 DEF Spot

(* A place of a directory: a slot in one of its clusters.                  *)
Lies(ch, p, q) == q \in Places /\ In(ch, p, q[1])

LEMMA SpotLies ==
    ASSUME NEW ch \in Chains, NEW p \in Dirs
    PROVE  /\ \A h \in Hits(ch[p]) : /\ Lies(ch, p, <<ch[p][h[1]], h[2]>>)
                                     /\ Slot(ch[p], h) = SetAt(<<ch[p][h[1]], h[2]>>)
           /\ \A q : Lies(ch, p, q) => \E h \in Hits(ch[p]) : q = <<ch[p][h[1]], h[2]>>
<1>1. DOMAIN ch[p] = 1..Len(ch[p]) /\ \A i \in 1..Len(ch[p]) : ch[p][i] \in Clusters
  BY ChainTypes
<1>2. ASSUME NEW i \in 1..Len(ch[p]), NEW s \in Slots
      PROVE  Lies(ch, p, <<ch[p][i], s>>) /\ Slot(ch[p], <<i, s>>) = SetAt(<<ch[p][i], s>>)
  BY <1>1, PlacesApart DEF Lies, In, Slot, SetAt
<1>3. ASSUME NEW q, Lies(ch, p, q) PROVE \E h \in Hits(ch[p]) : q = <<ch[p][h[1]], h[2]>>
  <2>1. PICK i \in 1..Len(ch[p]) : ch[p][i] = q[1]
    BY <1>3 DEF Lies, In
  <2>2. q = <<q[1], q[2]>> /\ q[2] \in Slots
    BY <1>3, PlacesApart DEF Lies
  <2>3. <<i, q[2]>> \in Hits(ch[p])
    BY <1>1, <2>2 DEF Hits, Slots
  <2>. QED
    BY <2>1, <2>2, <2>3
<1>. QED
  BY <1>1, <1>2, <1>3 DEF Hits, Slots

LEMMA ChildFound ==
    ASSUME Types, NEW ch \in Chains, Struct(ch), NEW p \in {Top} \cup Places, ch[p] # <<>>, NEW n
    PROVE  LET q == FindChild(DirectoryAt(p), n)
           IN  /\ q # None => Lies(ch, p, q) /\ SetAt(q).used /\ SetAt(q).name = n
               /\ q = None => \A r : Lies(ch, p, r) => ~(SetAt(r).used /\ SetAt(r).name = n)
<1>. DEFINE H == {h \in Hits(ch[p]) : Slot(ch[p], h).used /\ Slot(ch[p], h).name = n}
<1>1. FindChild(DirectoryAt(p), n) = Spot(ch[p], H)
  BY ClustersAre, Spots
<1>2. p \in Dirs /\ ch[p] \in Seq(Clusters) /\ H \in SUBSET Hits(ch[p])
  BY PlacesApart, ChainTypes
<1>3. ASSUME NEW h \in H PROVE /\ Lies(ch, p, <<ch[p][h[1]], h[2]>>) /\ <<ch[p][h[1]], h[2]>> # None
                               /\ SetAt(<<ch[p][h[1]], h[2]>>).used
                               /\ SetAt(<<ch[p][h[1]], h[2]>>).name = n
  BY <1>2, SpotLies, PlacesApart DEF Lies
<1>4. ASSUME NEW r, Lies(ch, p, r), SetAt(r).used, SetAt(r).name = n PROVE H # {}
  BY <1>2, <1>4, SpotLies
<1>. HIDE DEF H
<1>5. CASE H = {}
  BY <1>1, <1>2, <1>4, <1>5, SpotIs
<1>6. CASE H # {}
  BY <1>1, <1>2, <1>3, <1>6, SpotIs
<1>. QED
  BY <1>5, <1>6

LEMMA FreeFound ==
    ASSUME Types, NEW ch \in Chains, Struct(ch), NEW p \in {Top} \cup Places, ch[p] # <<>>
    PROVE  LET q == FreeSlot(DirectoryAt(p)) IN q # None => Lies(ch, p, q) /\ ~SetAt(q).used
<1>. DEFINE H == {h \in Hits(ch[p]) : ~Slot(ch[p], h).used /\ ~Slot(ch[p], h).surplus}
<1>1. FreeSlot(DirectoryAt(p)) = Spot(ch[p], H)
  BY ClustersAre, Spots
<1>2. p \in Dirs /\ ch[p] \in Seq(Clusters) /\ H \in SUBSET Hits(ch[p])
  BY PlacesApart, ChainTypes
<1>3. ASSUME NEW h \in H PROVE /\ Lies(ch, p, <<ch[p][h[1]], h[2]>>)
                               /\ ~SetAt(<<ch[p][h[1]], h[2]>>).used
  BY <1>2, SpotLies
<1>. HIDE DEF H
<1>. QED
  BY <1>1, <1>2, <1>3, SpotIs

LEMMA NoEntry ==
    ASSUME Types, NEW ch \in Chains, Struct(ch), NEW p \in {Top} \cup Places, ch[p] # <<>>,
           FirstEntry(DirectoryAt(p)) = None
    PROVE  \A r : Lies(ch, p, r) => ~SetAt(r).used
<1>. DEFINE H == {h \in Hits(ch[p]) : Slot(ch[p], h).used}
<1>1. FirstEntry(DirectoryAt(p)) = Spot(ch[p], H)
  BY ClustersAre, Spots
<1>2. p \in Dirs /\ ch[p] \in Seq(Clusters) /\ H \in SUBSET Hits(ch[p])
  BY PlacesApart, ChainTypes
<1>3. ASSUME NEW h \in H PROVE <<ch[p][h[1]], h[2]>> # None
  BY <1>2, SpotLies, PlacesApart DEF Lies
<1>4. ASSUME NEW r, Lies(ch, p, r), SetAt(r).used PROVE H # {}
  BY <1>2, <1>4, SpotLies
<1>. HIDE DEF H
<1>5. H = {}
  BY <1>1, <1>2, <1>3, SpotIs
<1>. QED
  BY <1>4, <1>5

-----------------------------------------------------------------------------
(* What a path leads to, while no set is hidden.                           *)

Reachable(ch) == {None, Top} \cup {p \in Places : Live(ch, p)}

LEMMA LiveDirectory ==
    ASSUME NEW ch \in Chains, Struct(ch), NEW x \in Reachable(ch), IsDirectory(x)
    PROVE  x \in {Top} \cup Places /\ ch[x] # <<>> /\ (x # Top => SetAt(x).dir /\ Live(ch, x))
<1>1. x # None
  BY PlacesApart DEF IsDirectory
<1>2. CASE x = Top
  BY <1>2 DEF Struct, RootChain
<1>3. CASE x # Top
  <2>1. x \in Places /\ Live(ch, x)
    BY <1>1, <1>3 DEF Reachable
  <2>2. SetAt(x).dir
    BY <1>1, <1>3 DEF IsDirectory
  <2>. QED
    BY <2>1, <2>2 DEF Struct, Records, Recorded
<1>. QED
  BY <1>2, <1>3

LEMMA LiesLive ==
    ASSUME NEW ch, NEW p \in Dirs, NEW q, Lies(ch, p, q), SetAt(q).used, ~Hidden(q)
    PROVE  Live(ch, q) /\ q \in Places
BY DEF Lies, Live, Anywhere

LEMMA BelowLive ==
    ASSUME Types, NEW ch \in Chains, Struct(ch), ~At("retireOld"), NEW x \in Reachable(ch), NEW n
    PROVE  /\ Below(x, n) \in Reachable(ch) \ {Top}
           /\ Below(x, n) # None => IsDirectory(x) /\ Lies(ch, x, Below(x, n)) /\ Live(ch, Below(x, n))
<1>1. CASE ~IsDirectory(x)
  BY <1>1, PlacesApart DEF Below, Reachable
<1>2. CASE IsDirectory(x)
  <2>1. x \in {Top} \cup Places /\ ch[x] # <<>> /\ x \in Dirs
    BY <1>2, LiveDirectory, PlacesApart
  <2>. DEFINE q == FindChild(DirectoryAt(x), n)
  <2>2. Below(x, n) = q
    BY <1>2 DEF Below
  <2>3. q # None => Lies(ch, x, q) /\ SetAt(q).used
    BY <2>1, ChildFound
  <2>4. ~Hidden(q)
    BY DEF Hidden
  <2>. HIDE DEF q
  <2>5. q # None => Live(ch, q) /\ q \in Places
    BY <2>1, <2>3, <2>4, LiesLive
  <2>. QED
    BY <1>2, <2>2, <2>3, <2>5, PlacesApart DEF Reachable
<1>. QED
  BY <1>1, <1>2

(* The recursion of lookup, unfolded.                                      *)
Way(path) ==
    LET reached[k \in 0..Len(path)] == IF k = 0 THEN Top ELSE Below(reached[k - 1], path[k])
    IN  reached

LEMMA LookupSteps ==
    ASSUME Types, NEW ch \in Chains, Struct(ch), ~At("retireOld"), NEW path \in Seq(Names)
    PROVE  /\ Way(path) \in [0..Len(path) -> Reachable(ch)] /\ Way(path)[0] = Top
           /\ \A k \in 1..Len(path) : Way(path)[k] = Below(Way(path)[k - 1], path[k])
           /\ Lookup(path) = Way(path)[Len(path)]
<1>. DEFINE S == Reachable(ch)
            n == Len(path)
            step == [k \in 1..n |-> [x \in S |-> Below(x, path[k])]]
            Unfold(d) == [k \in 0..n |-> IF k = 0 THEN Top ELSE Below(d[k - 1], path[k])]
<1>1. n \in Nat /\ Top \in S
  BY DEF Reachable
<1>2. step \in [1..n -> [S -> S]]
  BY BelowLive
<1>. HIDE DEF step, S
<1>3. PICK c : Iterates(c, n, S, Top, step)
  BY <1>1, <1>2, Iteration
<1>4. c \in [0..n -> S] /\ c[0] = Top /\ \A k \in 1..n : c[k] = step[k][c[k - 1]]
  BY <1>3 DEF Iterates
<1>5. \A k \in 0..n : k = 0 \/ (k \in 1..n /\ k - 1 \in 0..n)
  BY <1>1
<1>6. \A k \in 1..n : c[k] = Below(c[k - 1], path[k])
  <2>1. \A k \in 1..n : c[k - 1] \in S
    BY <1>1, <1>4
  <2>. QED
    BY <2>1, <1>4 DEF step
<1>7. c = Unfold(c)
  BY <1>4, <1>5, <1>6
<1>8. PICK e : e = (CHOOSE x : x = Unfold(x)) /\ e = Unfold(e)
  <2>. HIDE DEF Unfold
  <2>. QED
    BY <1>7
<1>9. Way(path) = e /\ Lookup(path) = e[n]
  <2>1. Lookup(path) = Way(path)[n]
    BY DEF Lookup, Way
  <2>2. Way(path) = e
    BY <1>8 DEF Way
  <2>. QED
    BY <2>1, <2>2
<1>10. e[0] = Top /\ \A k \in 1..n : e[k] = Below(e[k - 1], path[k])
  <2>1. \A k \in 0..n : e[k] = Unfold(e)[k]
    BY <1>8
  <2>2. 0 \in 0..n /\ \A k \in 1..n : k \in 0..n /\ k # 0
    BY <1>1
  <2>. QED
    BY <2>1, <2>2
<1>11. e = [k \in 0..n |-> e[k]]
  BY <1>8
<1>. DEFINE T == {k \in 0..n : e[k] \in S}
<1>12. 0 \in T
  BY <1>1, <1>10
<1>13. \A k \in 1..n : k - 1 \in T => k \in T
  BY <1>5, <1>10, BelowLive DEF S
<1>. HIDE DEF T
<1>14. \A k \in 0..n : k \in T
  BY <1>1, <1>12, <1>13, IntervalInduction
<1>15. e \in [0..n -> S]
  BY <1>11, <1>14 DEF T
<1>. QED
  BY <1>9, <1>10, <1>15 DEF S

LEMMA PathTypes ==
    ASSUME NEW path \in Paths
    PROVE  /\ path \in Seq(Names) /\ Len(path) \in 1..MaxDepth /\ path # <<>>
           /\ Last(path) \in Names /\ Parent(path) \in Seq(Names) /\ Len(Parent(path)) = Len(path) - 1
           /\ \A k \in 1..(Len(path) - 1) : Parent(path)[k] = path[k]
           /\ Parent(path) \in Paths \cup {<<>>}
           /\ \A n \in Names : Append(Parent(path), n) \in Paths
<1>1. PICK m \in 1..MaxDepth : path \in [1..m -> Names]
  BY DEF Paths
<1>2. path \in Seq(Names) /\ Len(path) = m /\ m \in Nat
  BY <1>1, Parameters
<1>3. /\ Parent(path) \in Seq(Names) /\ Len(Parent(path)) = m - 1
      /\ \A k \in 1..(m - 1) : Parent(path)[k] = path[k]
  BY <1>2 DEF Parent
<1>4. Parent(path) \in Paths \cup {<<>>}
  <2>1. CASE m = 1
    BY <2>1, <1>3
  <2>2. CASE m # 1
    <3>1. m - 1 \in 1..MaxDepth
      BY <2>2, <1>2, Parameters
    <3>2. Parent(path) \in [1..(m - 1) -> Names]
      BY <1>3
    <3>. QED
      BY <3>1, <3>2 DEF Paths
  <2>. QED
    BY <2>1, <2>2
<1>5. ASSUME NEW n \in Names PROVE Append(Parent(path), n) \in [1..m -> Names]
  <2>. DEFINE a == Append(Parent(path), n)
  <2>1. a \in Seq(Names) /\ Len(a) = m
    BY <1>2, <1>3
  <2>2. \A x \in Seq(Names) : Len(x) = m => x \in [1..m -> Names]
    BY <1>2
  <2>. QED
    BY <2>1, <2>2
<1>. QED
  BY <1>1, <1>2, <1>3, <1>4, <1>5 DEF Paths, Last

(* A path leads where its last name leads from where its parent leads.     *)
LEMMA LookupLast ==
    ASSUME Types, NEW ch \in Chains, Struct(ch), ~At("retireOld"), NEW path \in Paths
    PROVE  /\ Lookup(path) = Below(Lookup(Parent(path)), Last(path))
           /\ Lookup(Parent(path)) \in Reachable(ch)
           /\ Lookup(path) \in Reachable(ch) \ {Top}
<1>. DEFINE n == Len(path)
            e == Way(path)
            f == Way(Parent(path))
<1>1. /\ path \in Seq(Names) /\ n \in Nat \ {0} /\ Parent(path) \in Seq(Names)
      /\ Len(Parent(path)) = n - 1 /\ \A k \in 1..(n - 1) : Parent(path)[k] = path[k]
      /\ Last(path) = path[n]
  BY PathTypes DEF Last
<1>2. /\ e \in [0..n -> Reachable(ch)] /\ e[0] = Top /\ Lookup(path) = e[n]
      /\ \A k \in 1..n : e[k] = Below(e[k - 1], path[k])
  BY <1>1, LookupSteps
<1>3. /\ f \in [0..(n - 1) -> Reachable(ch)] /\ f[0] = Top /\ Lookup(Parent(path)) = f[n - 1]
      /\ \A k \in 1..(n - 1) : f[k] = Below(f[k - 1], Parent(path)[k])
  <2>1. PICK p \in Seq(Names) : p = Parent(path)
    BY <1>1
  <2>2. /\ Way(p) \in [0..Len(p) -> Reachable(ch)] /\ Way(p)[0] = Top
        /\ \A k \in 1..Len(p) : Way(p)[k] = Below(Way(p)[k - 1], p[k])
        /\ Lookup(p) = Way(p)[Len(p)]
    BY LookupSteps
  <2>. QED
    BY <1>1, <2>1, <2>2
<1>. HIDE DEF e, f, n
<1>. DEFINE T == {k \in 0..(n - 1) : e[k] = f[k]}
<1>4. 0 \in T
  BY <1>1, <1>2, <1>3
<1>5. \A k \in 1..(n - 1) : k - 1 \in T => k \in T
  BY <1>1, <1>2, <1>3
<1>. HIDE DEF T
<1>6. n - 1 \in T
  <2>1. n - 1 \in Nat
    BY <1>1
  <2>. QED
    BY <2>1, <1>4, <1>5, IntervalInduction
<1>7. n \in 1..n /\ n - 1 \in 0..(n - 1)
  BY <1>1
<1>8. Lookup(path) = Below(Lookup(Parent(path)), Last(path))
  BY <1>1, <1>2, <1>3, <1>6, <1>7 DEF T
<1>9. Lookup(Parent(path)) \in Reachable(ch)
  BY <1>3, <1>7
<1>. QED
  BY <1>8, <1>9, BelowLive

-----------------------------------------------------------------------------
(* Clusters that change hands.                                             *)

(* What was in hand is let go; a free cluster is taken; the one in hand is *)
(* put behind a chain; a whole chain changes its place; the first cluster  *)
(* in hand is let go.                                                      *)
Emptied(ch) == [ch EXCEPT ![Hand] = <<>>]
Taken(ch, c) == [ch EXCEPT ![Hand] = <<c>>]
Attached(ch, p) == [ch EXCEPT ![Hand] = <<>>, ![p] = Append(ch[p], ch[Hand][1])]
Shifted(ch, p, q) == [ch EXCEPT ![q] = ch[p], ![p] = <<>>]
Dropped(ch) == [ch EXCEPT ![Hand] = Tail(ch[Hand])]

SameElsewhere(ch, w, S) == \A q \in Dirs \ S : w[q] = ch[q]
SameClusters(ch, w) == \A c : Anywhere(w, c) <=> Anywhere(ch, c)

LEMMA EmptiedIs ==
    ASSUME NEW ch \in Chains, Disjoint(ch)
    PROVE  /\ Emptied(ch) \in Chains /\ Disjoint(Emptied(ch)) /\ Emptied(ch)[Hand] = <<>>
           /\ SameElsewhere(ch, Emptied(ch), {Hand})
           /\ \A c : Anywhere(ch, c) <=> Anywhere(Emptied(ch), c) \/ In(ch, Hand, c)
<1>. DEFINE w == Emptied(ch)
<1>1. w \in Chains /\ w[Hand] = <<>> /\ \A q \in Dirs \ {Hand} : w[q] = ch[q]
  BY PlacesApart DEF Chains, Emptied
<1>. HIDE DEF w
<1>2. Len(w[Hand]) = 0
  BY <1>1
<1>3. Disjoint(w)
  BY <1>1, <1>2 DEF Disjoint
<1>4. ASSUME NEW c PROVE Anywhere(ch, c) <=> Anywhere(w, c) \/ In(ch, Hand, c)
  BY <1>1, <1>2, PlacesApart DEF Anywhere, In
<1>. QED
  BY <1>1, <1>3, <1>4 DEF w, SameElsewhere

LEMMA TakenIs ==
    ASSUME NEW ch \in Chains, Disjoint(ch), ch[Hand] = <<>>, NEW c \in Clusters, ~Anywhere(ch, c)
    PROVE  /\ Taken(ch, c) \in Chains /\ Disjoint(Taken(ch, c)) /\ Taken(ch, c)[Hand] = <<c>>
           /\ SameElsewhere(ch, Taken(ch, c), {Hand})
           /\ \A d : Anywhere(Taken(ch, c), d) <=> Anywhere(ch, d) \/ d = c
<1>. DEFINE w == Taken(ch, c)
<1>1. w \in Chains /\ w[Hand] = <<c>> /\ \A q \in Dirs \ {Hand} : w[q] = ch[q]
  BY PlacesApart DEF Chains, Taken
<1>. HIDE DEF w
<1>2. Len(w[Hand]) = 1 /\ w[Hand][1] = c /\ Len(ch[Hand]) = 0
  BY <1>1
<1>3. Disjoint(w)
  <2>. SUFFICES ASSUME NEW p \in Dirs, NEW q \in Dirs, NEW i \in 1..Len(w[p]), NEW j \in 1..Len(w[q]),
                       w[p][i] = w[q][j]
                PROVE  p = q /\ i = j
    BY DEF Disjoint
  <2>1. \A r \in Dirs \ {Hand} : \A k \in 1..Len(w[r]) : w[r][k] # c
    BY <1>1 DEF Anywhere, In
  <2>2. CASE p # Hand /\ q # Hand
    BY <1>1, <2>2 DEF Disjoint
  <2>3. CASE p = Hand \/ q = Hand
    BY <1>1, <1>2, <2>1, <2>3
  <2>. QED
    BY <2>2, <2>3
<1>4. ASSUME NEW d PROVE Anywhere(w, d) <=> Anywhere(ch, d) \/ d = c
  <2>1. Anywhere(w, d) => Anywhere(ch, d) \/ d = c
    BY <1>1, <1>2 DEF Anywhere, In
  <2>2. d = c => Anywhere(w, d)
    BY <1>2, PlacesApart DEF Anywhere, In
  <2>3. Anywhere(ch, d) => Anywhere(w, d)
    BY <1>1, <1>2 DEF Anywhere, In
  <2>. QED
    BY <2>1, <2>2, <2>3
<1>. QED
  BY <1>1, <1>3, <1>4 DEF w, SameElsewhere

LEMMA AttachedIs ==
    ASSUME NEW ch \in Chains, Disjoint(ch), NEW p \in Dirs \ {Hand}, NEW c \in Clusters,
           ch[Hand] = <<c>>
    PROVE  /\ Attached(ch, p) \in Chains /\ Disjoint(Attached(ch, p)) /\ Attached(ch, p)[Hand] = <<>>
           /\ SameElsewhere(ch, Attached(ch, p), {Hand, p}) /\ SameClusters(ch, Attached(ch, p))
           /\ Len(Attached(ch, p)[p]) = Len(ch[p]) + 1
           /\ \A i \in 1..Len(ch[p]) : Attached(ch, p)[p][i] = ch[p][i]
           /\ Attached(ch, p)[p][Len(ch[p]) + 1] = c
           /\ \A d : In(Attached(ch, p), p, d) <=> In(ch, p, d) \/ d = c
<1>. DEFINE w == Attached(ch, p)
            n == Len(ch[p])
<1>1. c \in Clusters /\ Len(ch[Hand]) = 1 /\ ch[Hand][1] = c
  <2>1. Len(ch[Hand]) = 1 /\ ch[Hand][1] = c
    OBVIOUS
  <2>. QED
    BY <2>1, ChainTypes, PlacesApart
<1>2. ch[p] \in Seq(Clusters) /\ n \in Nat
  BY ChainTypes
<1>3. /\ w \in Chains /\ w[Hand] = <<>> /\ w[p] = Append(ch[p], c)
      /\ \A q \in Dirs \ {Hand, p} : w[q] = ch[q]
  <2>. DEFINE a == Append(ch[p], c)
              v == [ch EXCEPT ![Hand] = <<>>]
  <2>1. a \in Seq(Clusters) /\ <<>> \in Seq(Clusters)
    BY <1>1, <1>2
  <2>2. w = [v EXCEPT ![p] = a]
    BY <1>1 DEF Attached
  <2>. HIDE DEF a
  <2>3. v \in [Dirs -> Seq(Clusters)] /\ v[Hand] = <<>> /\ \A q \in Dirs \ {Hand} : v[q] = ch[q]
    BY <2>1, PlacesApart DEF Chains
  <2>. HIDE DEF v, w
  <2>4. w \in [Dirs -> Seq(Clusters)] /\ w[p] = a /\ \A q \in Dirs \ {p} : w[q] = v[q]
    BY <2>1, <2>2, <2>3
  <2>. QED
    BY <2>3, <2>4, PlacesApart DEF a, Chains
<1>. HIDE DEF w
<1>4. /\ Len(w[Hand]) = 0 /\ Len(w[p]) = n + 1 /\ w[p][n + 1] = c
      /\ \A i \in 1..n : w[p][i] = ch[p][i]
  BY <1>1, <1>2, <1>3
<1>5. \A i \in 1..(n + 1) : i = n + 1 \/ i \in 1..n
  BY <1>2
<1>6. n + 1 \in 1..(n + 1) /\ \A i \in 1..n : i \in 1..(n + 1)
  BY <1>2
<1>. HIDE DEF n
<1>7. \A q \in Dirs \ {Hand} : \A i \in 1..Len(ch[q]) : ch[q][i] # c
  BY <1>1, PlacesApart DEF Disjoint
<1>8. Disjoint(w)
  <2>. SUFFICES ASSUME NEW q \in Dirs, NEW r \in Dirs, NEW i \in 1..Len(w[q]), NEW j \in 1..Len(w[r]),
                       w[q][i] = w[r][j]
                PROVE  q = r /\ i = j
    BY DEF Disjoint
  <2>1. q # Hand /\ r # Hand
    BY <1>4
  <2>2. ASSUME NEW s \in Dirs \ {Hand}, NEW k \in 1..Len(w[s])
        PROVE  (k \in 1..Len(ch[s]) /\ w[s][k] = ch[s][k]) \/ (s = p /\ k = n + 1 /\ w[s][k] = c)
    BY <1>3, <1>4, <1>5 DEF n
  <2>. QED
    BY SMTT(20), <2>1, <2>2, <1>7 DEF Disjoint
<1>9. ASSUME NEW d PROVE In(w, p, d) <=> In(ch, p, d) \/ d = c
  BY <1>4, <1>5, <1>6 DEF In, n
<1>10. ASSUME NEW d PROVE Anywhere(w, d) <=> Anywhere(ch, d)
  <2>1. Anywhere(ch, c)
    <3>1. 1 \in 1..Len(ch[Hand]) /\ Hand \in Dirs
      BY <1>1, PlacesApart
    <3>. QED
      BY <3>1, <1>1 DEF Anywhere, In
  <2>2. Anywhere(w, d) => Anywhere(ch, d)
    <3>1. SUFFICES ASSUME NEW q \in Dirs, In(w, q, d) PROVE Anywhere(ch, d)
      BY DEF Anywhere
    <3>2. CASE q = p
      BY <3>1, <3>2, <1>9, <2>1 DEF Anywhere
    <3>3. CASE q # p
      BY <3>1, <3>3, <1>3, <1>4 DEF Anywhere, In
    <3>. QED
      BY <3>2, <3>3
  <2>3. Anywhere(ch, d) => Anywhere(w, d)
    <3>1. SUFFICES ASSUME NEW q \in Dirs, In(ch, q, d) PROVE Anywhere(w, d)
      BY DEF Anywhere
    <3>2. CASE q = p
      BY <3>1, <3>2, <1>9 DEF Anywhere
    <3>3. CASE q = Hand
      <4>1. d = c
        BY <3>1, <3>3, <1>1 DEF In
      <4>. QED
        BY <4>1, <1>9 DEF Anywhere
    <3>4. CASE q # p /\ q # Hand
      BY <3>1, <3>4, <1>3 DEF Anywhere, In
    <3>. QED
      BY <3>2, <3>3, <3>4
  <2>. QED
    BY <2>2, <2>3
<1>. QED
  BY <1>3, <1>4, <1>8, <1>9, <1>10 DEF w, n, SameElsewhere, SameClusters

LEMMA ShiftedIs ==
    ASSUME NEW ch \in Chains, Disjoint(ch), NEW p \in Dirs, NEW q \in Dirs, p # q, ch[q] = <<>>
    PROVE  /\ Shifted(ch, p, q) \in Chains /\ Disjoint(Shifted(ch, p, q))
           /\ Shifted(ch, p, q)[p] = <<>> /\ Shifted(ch, p, q)[q] = ch[p]
           /\ SameElsewhere(ch, Shifted(ch, p, q), {p, q}) /\ SameClusters(ch, Shifted(ch, p, q))
<1>. DEFINE w == Shifted(ch, p, q)
<1>1. /\ w \in Chains /\ w[p] = <<>> /\ w[q] = ch[p]
      /\ \A r \in Dirs \ {p, q} : w[r] = ch[r]
  BY DEF Chains, Shifted
<1>. HIDE DEF w
<1>2. Len(w[p]) = 0 /\ Len(ch[q]) = 0
  BY <1>1
<1>3. Disjoint(w)
  <2>1. ASSUME NEW r \in Dirs, NEW k \in 1..Len(w[r])
        PROVE  \E s \in Dirs : /\ s = (IF r = q THEN p ELSE r) /\ r # p
                               /\ k \in 1..Len(ch[s]) /\ w[r][k] = ch[s][k]
    BY <1>1, <1>2
  <2>. SUFFICES ASSUME NEW a \in Dirs, NEW b \in Dirs, NEW i \in 1..Len(w[a]), NEW j \in 1..Len(w[b]),
                       w[a][i] = w[b][j]
                PROVE  a = b /\ i = j
    BY DEF Disjoint
  <2>2. PICK s \in Dirs : /\ s = (IF a = q THEN p ELSE a) /\ a # p
                           /\ i \in 1..Len(ch[s]) /\ w[a][i] = ch[s][i]
    BY <2>1
  <2>3. PICK t \in Dirs : /\ t = (IF b = q THEN p ELSE b) /\ b # p
                           /\ j \in 1..Len(ch[t]) /\ w[b][j] = ch[t][j]
    BY <2>1
  <2>4. ch[s][i] = ch[t][j] /\ i \in 1..Len(ch[s]) /\ j \in 1..Len(ch[t])
    BY <2>2, <2>3
  <2>5. s = t /\ i = j
    BY ONLY <2>4, Disjoint(ch), s \in Dirs, t \in Dirs DEF Disjoint
  <2>. QED
    BY <2>2, <2>3, <2>5
<1>4. ASSUME NEW d PROVE Anywhere(w, d) <=> Anywhere(ch, d)
  <2>1. Anywhere(w, d) => Anywhere(ch, d)
    BY <1>1, <1>2 DEF Anywhere, In
  <2>2. Anywhere(ch, d) => Anywhere(w, d)
    BY <1>1, <1>2 DEF Anywhere, In
  <2>. QED
    BY <2>1, <2>2
<1>. QED
  BY <1>1, <1>3, <1>4 DEF w, SameElsewhere, SameClusters

LEMMA DroppedIs ==
    ASSUME NEW ch \in Chains, Disjoint(ch), ch[Hand] # <<>>
    PROVE  /\ Dropped(ch) \in Chains /\ Disjoint(Dropped(ch))
           /\ Len(Dropped(ch)[Hand]) = Len(ch[Hand]) - 1
           /\ \A i \in 1..(Len(ch[Hand]) - 1) : Dropped(ch)[Hand][i] = ch[Hand][i + 1]
           /\ SameElsewhere(ch, Dropped(ch), {Hand})
           /\ \A c : Anywhere(ch, c) <=> Anywhere(Dropped(ch), c) \/ c = ch[Hand][1]
           /\ ~Anywhere(Dropped(ch), ch[Hand][1])
<1>. DEFINE w == Dropped(ch)
            n == Len(ch[Hand])
<1>1. ch[Hand] \in Seq(Clusters) /\ n \in Nat \ {0} /\ Hand \in Dirs
  BY ChainTypes, PlacesApart
<1>2. w \in Chains /\ w[Hand] = Tail(ch[Hand]) /\ \A q \in Dirs \ {Hand} : w[q] = ch[q]
  BY <1>1 DEF Chains, Dropped
<1>. HIDE DEF w
<1>3. Len(w[Hand]) = n - 1 /\ \A i \in 1..(n - 1) : w[Hand][i] = ch[Hand][i + 1]
  BY <1>1, <1>2
<1>4. /\ \A i \in 1..(n - 1) : i + 1 \in 1..n /\ i + 1 # 1
      /\ \A i \in 1..n : i = 1 \/ (i - 1 \in 1..(n - 1) /\ i - 1 + 1 = i)
      /\ 1 \in 1..n
  BY <1>1
<1>. HIDE DEF n
<1>5. ASSUME NEW r \in Dirs, NEW k \in 1..Len(w[r])
      PROVE  \/ r # Hand /\ k \in 1..Len(ch[r]) /\ w[r][k] = ch[r][k]
             \/ r = Hand /\ k + 1 \in 1..Len(ch[r]) /\ k + 1 # 1 /\ w[r][k] = ch[r][k + 1] /\ k \in Nat
  <2>1. CASE r # Hand
    BY <2>1, <1>2
  <2>2. CASE r = Hand
    <3>1. k \in 1..(n - 1) /\ w[r][k] = ch[r][k + 1] /\ Len(ch[r]) = n
      BY <2>2, <1>3 DEF n
    <3>. QED
      BY <2>2, <3>1, <1>4
  <2>. QED
    BY <2>1, <2>2
<1>6. Disjoint(w)
  <2>. SUFFICES ASSUME NEW q \in Dirs, NEW r \in Dirs, NEW i \in 1..Len(w[q]), NEW j \in 1..Len(w[r]),
                       w[q][i] = w[r][j]
                PROVE  q = r /\ i = j
    BY DEF Disjoint
  <2>1. PICK x \in 1..Len(ch[q]) : ch[q][x] = w[q][i] /\ (q # Hand => x = i)
    BY <1>5
  <2>2. PICK y \in 1..Len(ch[r]) : ch[r][y] = w[r][j] /\ (r # Hand => y = j)
    BY <1>5
  <2>3. q = r /\ x = y
    BY <2>1, <2>2 DEF Disjoint
  <2>4. CASE q # Hand
    BY <2>1, <2>2, <2>3, <2>4
  <2>5. CASE q = Hand
    <3>1. /\ i + 1 \in 1..Len(ch[Hand]) /\ w[q][i] = ch[Hand][i + 1] /\ i \in Nat
          /\ j + 1 \in 1..Len(ch[Hand]) /\ w[r][j] = ch[Hand][j + 1] /\ j \in Nat
      BY <2>3, <2>5, <1>5
    <3>2. PICK a \in 1..Len(ch[Hand]), b \in 1..Len(ch[Hand]) : a = i + 1 /\ b = j + 1
      BY <3>1
    <3>3. ch[Hand][a] = ch[Hand][b]
      BY <3>1, <3>2
    <3>4. a = b
      BY <3>3, <1>1, NotTwice
    <3>. QED
      BY <2>3, <3>1, <3>2, <3>4
  <2>. QED
    BY <2>4, <2>5
<1>7. ASSUME NEW d PROVE Anywhere(w, d) => Anywhere(ch, d) /\ d # ch[Hand][1]
  <2>1. SUFFICES ASSUME NEW r \in Dirs, NEW k \in 1..Len(w[r]), w[r][k] = d
                 PROVE  Anywhere(ch, d) /\ d # ch[Hand][1]
    BY DEF Anywhere, In
  <2>2. CASE r # Hand
    BY <2>1, <2>2, <1>1, <1>4, <1>5 DEF Anywhere, In, Disjoint, n
  <2>3. CASE r = Hand
    BY <2>1, <2>3, <1>1, <1>4, <1>5 DEF Anywhere, In, Disjoint, n
  <2>. QED
    BY <2>2, <2>3
<1>8. ASSUME NEW d PROVE Anywhere(ch, d) => Anywhere(w, d) \/ d = ch[Hand][1]
  <2>1. SUFFICES ASSUME NEW r \in Dirs, NEW k \in 1..Len(ch[r]), ch[r][k] = d
                 PROVE  Anywhere(w, d) \/ d = ch[Hand][1]
    BY DEF Anywhere, In
  <2>2. CASE r # Hand
    BY <2>1, <2>2, <1>2 DEF Anywhere, In
  <2>3. CASE r = Hand /\ k # 1
    <3>1. k - 1 \in 1..Len(w[Hand]) /\ w[Hand][k - 1] = d
      BY <2>1, <2>3, <1>3, <1>4 DEF n
    <3>. QED
      BY <3>1, <1>1 DEF Anywhere, In
  <2>. QED
    BY <2>1, <2>2, <2>3
<1>9. Anywhere(ch, ch[Hand][1])
  BY <1>1, <1>4 DEF Anywhere, In, n
<1>. QED
  BY <1>2, <1>3, <1>6, <1>7, <1>8, <1>9 DEF w, n, SameElsewhere

-----------------------------------------------------------------------------
(* The chains after each write.                                            *)

Alike(p) == /\ SetAt(p)'.dir = SetAt(p).dir /\ SetAt(p)'.first = SetAt(p).first
            /\ SetAt(p)'.len = SetAt(p).len

LEMMA RecordsStay ==
    ASSUME NEW ch \in Chains, NEW w \in Chains, Records(ch), SameElsewhere(ch, w, {Hand, Top}),
           \A p \in Places : Live(w, p)' <=> Live(ch, p),
           \A p \in Places : Live(ch, p) => Alike(p)
    PROVE  Records(w)'
<1>. SUFFICES ASSUME NEW p \in Places
              PROVE  /\ Live(w, p)' /\ SetAt(p)'.dir => Recorded(w, p)'
                     /\ Live(w, p)' /\ ~SetAt(p)'.dir => SetAt(p)'.len = 0
                     /\ w[p] # <<>> => Live(w, p)' /\ SetAt(p)'.dir
  BY DEF Records
<1>1. w[p] = ch[p]
  BY PlacesApart DEF SameElsewhere
<1>2. CASE Live(ch, p)
  BY <1>1, <1>2 DEF Records, Recorded, Alike, In
<1>3. CASE ~Live(ch, p)
  BY <1>1, <1>3 DEF Records
<1>. QED
  BY <1>2, <1>3

(* What a live set is not.                                                 *)
LEMMA LiveApart ==
    ASSUME NEW ch \in Chains, Struct(ch), NEW p \in Places, Live(ch, p)
    PROVE  ~In(ch, Hand, p[1])
BY PlacesApart DEF Live, Struct, HandEmpty, In, SetAt

(* A step that writes nothing,                                             *)
LEMMA StructStays ==
    ASSUME NEW ch \in Chains, Struct(ch), UNCHANGED device,
           op.pc \notin {"retireOld", "unmark", "mark"}, op'.pc # "retireOld"
    PROVE  Struct(ch)'
<1>1. \A p : SetAt(p)' = SetAt(p) /\ ~Hidden(p) /\ ~Hidden(p)'
  BY DEF device, SetAt, Hidden, At
<1>2. \A p : Live(ch, p)' <=> Live(ch, p)
  BY <1>1 DEF Live
<1>3. Records(ch)'
  BY <1>1, <1>2, RecordsStay DEF Struct, Alike, SameElsewhere
<1>4. Linked(ch)' /\ Marked(ch)' /\ RootChain(ch)' /\ HandEmpty(ch)' /\ Disjoint(ch)'
  BY DEF Struct, Linked, Marked, RootChain, HandEmpty, Disjoint, device, Cut, At
<1>. QED
  BY <1>3, <1>4 DEF Struct

(* and one that lets go of what was in hand.                               *)
LEMMA StructEmptied ==
    ASSUME NEW ch \in Chains, Struct(ch), UNCHANGED device, ~At("retireOld"), op'.pc # "retireOld"
    PROVE  Struct(Emptied(ch))' /\ Emptied(ch) \in Chains
<1>. DEFINE w == Emptied(ch)
<1>1. /\ w \in Chains /\ Disjoint(w) /\ w[Hand] = <<>> /\ SameElsewhere(ch, w, {Hand})
      /\ \A c : Anywhere(ch, c) <=> Anywhere(w, c) \/ In(ch, Hand, c)
  BY EmptiedIs DEF Struct
<1>. HIDE DEF w
<1>2. \A p : SetAt(p)' = SetAt(p) /\ ~Hidden(p) /\ ~Hidden(p)'
  BY DEF device, SetAt, Hidden, At
<1>3. \A p \in Places : Live(w, p)' <=> Live(ch, p)
  <2>1. \A p \in Places : Live(ch, p) => ~In(ch, Hand, p[1])
    BY LiveApart
  <2>2. \A d : Anywhere(w, d)' <=> Anywhere(w, d)
    BY DEF Anywhere, In
  <2>. QED
    BY <1>1, <1>2, <2>1, <2>2 DEF Live
<1>4. Records(w)'
  BY <1>1, <1>2, <1>3, RecordsStay DEF Struct, Alike, SameElsewhere
<1>5. Len(w[Hand]) = 0 /\ \A p \in Dirs \ {Hand} : w[p] = ch[p]
  BY <1>1 DEF SameElsewhere
<1>6. Linked(w)'
  BY <1>5 DEF Struct, Linked, device, Cut
<1>7. Marked(w)' /\ HandEmpty(w)'
  BY <1>5 DEF Struct, Marked, HandEmpty, device
<1>8. RootChain(w)'
  BY <1>5, PlacesApart DEF Struct, RootChain, device
<1>. QED
  BY <1>1, <1>4, <1>6, <1>7, <1>8 DEF Struct, Disjoint, w

LEMMA ClaimStruct ==
    ASSUME Types, NEW ch \in Chains, Struct(ch), Held(ch), Claim
    PROVE  \E c \in Clusters : /\ op'.new = c /\ Taken(ch, c) \in Chains /\ Struct(Taken(ch, c))'
                               /\ ~Anywhere(ch, c) /\ Taken(ch, c)[Hand] = <<c>>
                               /\ SameElsewhere(ch, Taken(ch, c), {Hand})
                               /\ \A p \in Places : p[1] # c => SetAt(p)' = SetAt(p)
<1>1. PICK c \in FreeBits : content' = Zeroed(c) /\ op' = [op EXCEPT !.pc = "mark", !.new = c]
  BY DEF Claim
<1>2. c \in Clusters /\ c \notin used
  BY <1>1 DEF FreeBits
<1>3. At("claim") /\ fat' = fat /\ used' = used /\ op'.pc = "mark" /\ op'.new = c
  BY <1>1 DEF Claim, Types, OpType
<1>4. ch[Hand] = <<>>
  BY <1>3 DEF Held, HandIs, Claimed, Releasing, At
<1>5. ~Anywhere(ch, c)
  BY <1>2, <1>3 DEF Struct, Marked, Anywhere, In, At
<1>. DEFINE w == Taken(ch, c)
<1>6. /\ w \in Chains /\ Disjoint(w) /\ w[Hand] = <<c>> /\ SameElsewhere(ch, w, {Hand})
      /\ \A d : Anywhere(w, d) <=> Anywhere(ch, d) \/ d = c
  BY <1>2, <1>4, <1>5, TakenIs DEF Struct
<1>. HIDE DEF w
<1>7. /\ content' \in [Clusters -> [Slots -> SlotType]] /\ \A d \in Clusters \ {c} : content'[d] = content[d]
      /\ content'[c] = EmptyCluster
  <2>1. EmptyCluster \in [Slots -> SlotType]
    BY Parameters DEF EmptyCluster, NoSet, SlotType, Slots, Addresses
  <2>. QED
    BY <2>1, <1>1, <1>2 DEF Zeroed, Types
<1>8. /\ \A p \in Places : p[1] # c => SetAt(p)' = SetAt(p)
      /\ \A p \in Places : p[1] = c => ~SetAt(p)'.used
      /\ \A p : ~Hidden(p) /\ ~Hidden(p)'
  <2>1. \A s \in Slots : ~EmptyCluster[s].used
    BY DEF EmptyCluster, NoSet, Slots
  <2>. QED
    BY <1>3, <1>7, <2>1, PlacesApart DEF SetAt, Hidden, At
<1>9. \A p \in Places : Live(w, p)' <=> Live(ch, p)
  <2>1. \A d : Anywhere(w, d)' <=> Anywhere(w, d)
    BY DEF Anywhere, In
  <2>. QED
    BY <1>5, <1>6, <1>8, <2>1 DEF Live
<1>10. \A p \in Places : Live(ch, p) => Alike(p)
  BY <1>5, <1>8 DEF Live, Alike
<1>11. Records(w)'
  BY <1>6, <1>9, <1>10, RecordsStay DEF Struct, SameElsewhere
<1>12. Len(w[Hand]) = 1 /\ w[Hand][1] = c /\ \A p \in Dirs \ {Hand} : w[p] = ch[p]
  BY <1>6 DEF SameElsewhere
<1>13. Linked(w)'
  <2>1. ASSUME NEW p \in Dirs, NEW i \in 1..(Len(w[p]) - 1) PROVE fat'[w[p][i]] = w[p][i + 1]
    <3>1. i \in 1..(Len(w[p]) - 1)
      OBVIOUS
    <3>2. p = Hand => Len(w[p]) = 1
      BY <1>12
    <3>3. p # Hand
      <4>1. SUFFICES ASSUME p = Hand PROVE FALSE
        OBVIOUS
      <4>2. Len(w[p]) - 1 = 0
        BY <3>2, <4>1
      <4>3. i \in 1..0
        BY <3>1, <4>2
      <4>. QED
        BY <4>3
    <3>. QED
      BY <3>3, <1>12, <1>3 DEF Struct, Linked, Cut, At
  <2>. QED
    BY <2>1 DEF Linked
<1>14. Marked(w)'
  BY <1>12, <1>3 DEF Struct, Marked, At
<1>15. HandEmpty(w)'
  <2>1. \A s \in Slots : ~EmptyCluster[s].used
    BY DEF EmptyCluster, NoSet, Slots
  <2>2. \A i \in 1..Len(w[Hand]) : w[Hand][i] = c
    BY <1>12
  <2>. QED
    BY <2>1, <2>2, <1>7 DEF HandEmpty
<1>16. RootChain(w)'
  BY <1>12, <1>3, PlacesApart DEF Struct, RootChain
<1>. QED
  BY <1>2, <1>3, <1>5, <1>6, <1>8, <1>11, <1>13, <1>14, <1>15, <1>16 DEF Struct, Disjoint, w

LEMMA MarkUsedStruct ==
    ASSUME Types, NEW ch \in Chains, Struct(ch), Held(ch), MarkUsed
    PROVE  Struct(ch)'
<1>1. /\ At("mark") /\ UNCHANGED <<content, fat>> /\ used' = used \cup {op.new}
      /\ op'.pc = "terminate"
  BY DEF MarkUsed, Types, OpType
<1>2. ch[Hand] = <<op.new>>
  BY <1>1 DEF Held, HandIs, Claimed, At
<1>3. \A p : SetAt(p)' = SetAt(p) /\ ~Hidden(p) /\ ~Hidden(p)'
  BY <1>1 DEF SetAt, Hidden, At
<1>4. \A p : Live(ch, p)' <=> Live(ch, p)
  BY <1>3 DEF Live
<1>5. Records(ch)'
  BY <1>3, <1>4, RecordsStay DEF Struct, Alike, SameElsewhere
<1>6. Linked(ch)' /\ RootChain(ch)' /\ HandEmpty(ch)' /\ Disjoint(ch)'
  BY <1>1 DEF Struct, Linked, RootChain, HandEmpty, Disjoint, Cut, At
<1>7. Marked(ch)'
  <2>1. \A i \in 1..Len(ch[Hand]) : ch[Hand][i] = op.new
    BY <1>2
  <2>. QED
    BY <2>1, <1>1 DEF Struct, Marked
<1>. QED
  BY <1>5, <1>6, <1>7 DEF Struct

(* A link from the last cluster of a chain, or from one in hand, is none   *)
(* of those that the chains are held by.                                   *)
LinkChanged(c) == \A d \in Clusters \ {c} : fat'[d] = fat[d]

LEMMA LinkedStays ==
    ASSUME Types, NEW ch \in Chains, Struct(ch), NEW q \in Dirs, NEW n \in 1..Len(ch[q]),
           n = Len(ch[q]) \/ (q = Hand /\ n = 1 /\ Cut(q, n)'),
           LinkChanged(ch[q][n]), ~At("unmark")
    PROVE  Linked(ch)' /\ (q # Top => RootChain(ch)')
<1>1. ASSUME NEW p \in Dirs, NEW i \in 1..(Len(ch[p]) - 1)
      PROVE  Cut(p, i)' \/ fat'[ch[p][i]] = ch[p][i + 1]
  <2>1. i \in 1..Len(ch[p]) /\ i # Len(ch[p]) /\ ch[p][i] \in Clusters
    BY ChainTypes
  <2>2. fat[ch[p][i]] = ch[p][i + 1]
    BY DEF Struct, Linked, Cut, At
  <2>3. CASE p = q /\ i = n
    BY <2>1, <2>3
  <2>4. CASE ~(p = q /\ i = n)
    <3>1. ch[p][i] # ch[q][n]
      BY <2>1, <2>4 DEF Struct, Disjoint
    <3>. QED
      BY <2>1, <2>2, <3>1 DEF LinkChanged
  <2>. QED
    BY <2>3, <2>4
<1>2. ASSUME q # Top PROVE RootChain(ch)'
  <2>1. ch[Top] # <<>> /\ Len(ch[Top]) \in 1..Len(ch[Top]) /\ ch[Top][Len(ch[Top])] \in Clusters
    BY PlacesApart, ChainTypes DEF Struct, RootChain
  <2>2. ch[Top][Len(ch[Top])] # ch[q][n]
    BY <1>2, <2>1, PlacesApart DEF Struct, Disjoint
  <2>. QED
    BY <2>1, <2>2 DEF LinkChanged, Struct, RootChain
<1>. QED
  BY <1>1, <1>2 DEF Linked

LEMMA TerminateStruct ==
    ASSUME Types, NEW ch \in Chains, Struct(ch), Held(ch), Terminate
    PROVE  Struct(ch)' /\ fat'[op.new] = EndOfChain
<1>1. /\ At("terminate") /\ UNCHANGED <<content, used>> /\ fat' = [fat EXCEPT ![op.new] = EndOfChain]
      /\ op'.pc \in {"link", "write"}
  BY DEF Terminate, Types, OpType
<1>2. ch[Hand] = <<op.new>> /\ op.new \in Clusters
  BY <1>1 DEF Held, HandIs, Claimed, At
<1>3. \A p : SetAt(p)' = SetAt(p) /\ ~Hidden(p) /\ ~Hidden(p)'
  BY <1>1 DEF SetAt, Hidden, At
<1>4. \A p : Live(ch, p)' <=> Live(ch, p)
  BY <1>3 DEF Live
<1>5. Records(ch)'
  BY <1>3, <1>4, RecordsStay DEF Struct, Alike, SameElsewhere
<1>6. Marked(ch)' /\ HandEmpty(ch)' /\ Disjoint(ch)'
  BY <1>1 DEF Struct, Marked, HandEmpty, Disjoint, At
<1>7. Len(ch[Hand]) = 1 /\ ch[Hand][1] = op.new /\ 1 \in 1..Len(ch[Hand])
  BY <1>2
<1>8. LinkChanged(ch[Hand][1]) /\ fat'[op.new] = EndOfChain
  BY <1>1, <1>2, <1>7 DEF LinkChanged, Types
<1>9. Linked(ch)' /\ RootChain(ch)'
  BY <1>1, <1>7, <1>8, PlacesApart, LinkedStays DEF At
<1>. QED
  BY <1>5, <1>6, <1>8, <1>9 DEF Struct

(* What the operation's directory is, at the points that have one.         *)
LEMMA DirectoryIs ==
    ASSUME Types, NEW ch \in Chains, Struct(ch), Held(ch), Making \/ At("descend")
    PROVE  /\ op.dir.at \in {Top} \cup Places /\ op.dir.at \in Dirs /\ op.dir.at # Hand
           /\ ch[op.dir.at] # <<>> /\ op.dir = DirectoryAt(op.dir.at)
           /\ ClustersOf(op.dir) = ch[op.dir.at] /\ LastOf(op.dir) = ch[op.dir.at][Len(ch[op.dir.at])]
           /\ op.dir.len = IF op.dir.at = Top THEN 0 ELSE Len(ch[op.dir.at])
           /\ op.dir.len = 0 <=> op.dir.at = Top
<1>1. /\ op.dir.at \in {Top} \cup Places /\ ch[op.dir.at] # <<>> /\ op.dir = DirectoryAt(op.dir.at)
  BY DEF Held, DirIs
<1>2. op.dir.at \in Dirs /\ op.dir.at # Hand
  BY <1>1, PlacesApart
<1>3. Len(ch[op.dir.at]) \in Nat \ {0}
  BY <1>1, <1>2, ChainTypes
<1>. QED
  BY <1>1, <1>2, <1>3, ClustersAre

LEMMA LinkStruct ==
    ASSUME Types, NEW ch \in Chains, Struct(ch), Held(ch), Link
    PROVE  /\ op.dir.len = 0 => /\ Attached(ch, Top) \in Chains /\ Struct(Attached(ch, Top))'
                                /\ Attached(ch, Top)[Hand] = <<>>
                                /\ SameElsewhere(ch, Attached(ch, Top), {Hand, Top})
                                /\ SameClusters(ch, Attached(ch, Top))
                                /\ Attached(ch, Top)[Top] # <<>>
                                /\ \A d : In(ch, Top, d) => In(Attached(ch, Top), Top, d)
           /\ op.dir.len # 0 => Struct(ch)' /\ fat'[ch[op.dir.at][Len(ch[op.dir.at])]] = op.new
<1>. DEFINE q == op.dir.at
            n == Len(ch[q])
            l == ch[q][n]
<1>1. /\ q \in {Top} \cup Places /\ q \in Dirs /\ q # Hand /\ ch[q] # <<>>
      /\ LastOf(op.dir) = l /\ (op.dir.len = 0 <=> q = Top)
  BY DirectoryIs DEF Link, Making, At
<1>2. /\ At("link") /\ UNCHANGED <<content, used>> /\ fat' = [fat EXCEPT ![l] = op.new]
      /\ op'.pc \in {"length", "search"}
  BY <1>1 DEF Link, Types, OpType
<1>3. n \in 1..n /\ l \in Clusters /\ n \in Nat
  BY <1>1, ChainTypes
<1>4. ch[Hand] = <<op.new>> /\ op.new \in Clusters /\ fat[op.new] \notin Clusters
  BY <1>2 DEF Held, HandIs, Claimed, At
<1>. HIDE DEF q, n, l
<1>5. /\ \A p : SetAt(p)' = SetAt(p) /\ ~Hidden(p) /\ ~Hidden(p)'
      /\ \A p \in Places : Alike(p)
  BY <1>2 DEF SetAt, Hidden, At, Alike
<1>6. \A d \in Clusters \ {l} : fat'[d] = fat[d]
  BY <1>2, <1>3 DEF Types
<1>7. fat'[l] = op.new
  BY <1>2, <1>3 DEF Types
<1>8. Linked(ch)' /\ (q # Top => RootChain(ch)')
  <2>1. LinkChanged(ch[q][n]) /\ ~At("unmark") /\ n \in 1..Len(ch[q]) /\ n = Len(ch[q])
    BY <1>2, <1>3, <1>6 DEF LinkChanged, At, n, l
  <2>. QED
    BY <2>1, <1>1, LinkedStays
<1>9. ASSUME q # Top PROVE Struct(ch)'
  <2>1. \A p : Live(ch, p)' <=> Live(ch, p)
    BY <1>5 DEF Live
  <2>2. Records(ch)'
    BY <1>5, <2>1, RecordsStay DEF Struct, SameElsewhere
  <2>3. Marked(ch)' /\ HandEmpty(ch)' /\ Disjoint(ch)'
    BY <1>2 DEF Struct, Marked, HandEmpty, Disjoint, At
  <2>. QED
    BY <2>2, <2>3, <1>8, <1>9 DEF Struct
<1>10. ASSUME q = Top
       PROVE  /\ Attached(ch, Top) \in Chains /\ Struct(Attached(ch, Top))'
              /\ Attached(ch, Top)[Hand] = <<>> /\ SameElsewhere(ch, Attached(ch, Top), {Hand, Top})
              /\ SameClusters(ch, Attached(ch, Top)) /\ Attached(ch, Top)[Top] # <<>>
              /\ \A d : In(ch, Top, d) => In(Attached(ch, Top), Top, d)
  <2>. DEFINE w == Attached(ch, Top)
  <2>1. /\ w \in Chains /\ Disjoint(w) /\ w[Hand] = <<>> /\ SameElsewhere(ch, w, {Hand, Top})
        /\ SameClusters(ch, w) /\ Len(w[Top]) = n + 1 /\ \A i \in 1..n : w[Top][i] = ch[Top][i]
        /\ w[Top][n + 1] = op.new
        /\ \A d : In(w, Top, d) <=> In(ch, Top, d) \/ d = op.new
    <3>1. Top \in Dirs \ {Hand} /\ Disjoint(ch) /\ n = Len(ch[Top])
      BY <1>10, PlacesApart DEF Struct, n
    <3>. HIDE DEF w
    <3>2. /\ w \in Chains /\ Disjoint(w) /\ w[Hand] = <<>> /\ SameElsewhere(ch, w, {Hand, Top})
          /\ SameClusters(ch, w) /\ Len(w[Top]) = Len(ch[Top]) + 1
          /\ \A i \in 1..Len(ch[Top]) : w[Top][i] = ch[Top][i]
          /\ w[Top][Len(ch[Top]) + 1] = op.new
          /\ \A d : In(w, Top, d) <=> In(ch, Top, d) \/ d = op.new
      <4>1. PICK p \in Dirs \ {Hand}, c \in Clusters : p = Top /\ c = op.new
        BY <3>1, <1>4
      <4>2. ch[Hand] = <<c>> /\ Disjoint(ch) /\ w = Attached(ch, p)
        BY <3>1, <1>4, <4>1 DEF w
      <4>. QED
        BY ONLY ZenonT(40), <4>1, <4>2, AttachedIs, ch \in Chains
    <3>. QED
      BY <3>1, <3>2
  <2>. HIDE DEF w
  <2>2. \A d : Anywhere(w, d)' <=> Anywhere(ch, d)
    BY <2>1 DEF SameClusters, Anywhere, In
  <2>3. \A p : Live(w, p)' <=> Live(ch, p)
    BY <2>2, <1>5 DEF Live
  <2>4. Records(w)'
    BY <2>1, <2>3, <1>5, RecordsStay DEF Struct
  <2>5. Len(w[Hand]) = 0 /\ \A p \in Dirs \ {Hand, Top} : w[p] = ch[p]
    BY <2>1 DEF SameElsewhere
  <2>6. HandEmpty(w)'
    BY <2>5 DEF HandEmpty
  <2>7. Linked(w)'
    <3>1. ASSUME NEW p \in Dirs, NEW i \in 1..(Len(w[p]) - 1) PROVE fat'[w[p][i]] = w[p][i + 1]
      <4>1. i \in 1..(Len(w[p]) - 1)
        OBVIOUS
      <4>2. p # Hand
        BY <4>1, <2>5
      <4>3. CASE p # Top
        BY <4>2, <4>3, <2>5, <1>2, <1>8 DEF Linked, Cut, At
      <4>4. CASE p = Top /\ i # n
        <5>1. i \in 1..(n - 1) /\ i \in 1..n /\ i + 1 \in 1..n
          BY <4>1, <4>4, <2>1, <1>3
        <5>2. fat'[ch[Top][i]] = ch[Top][i + 1]
          BY <5>1, <1>2, <1>8, <1>10, PlacesApart DEF Linked, Cut, At, n
        <5>. QED
          BY <5>1, <5>2, <4>4, <2>1
      <4>5. CASE p = Top /\ i = n
        BY <4>5, <2>1, <1>3, <1>7, <1>10 DEF l
      <4>. QED
        BY <4>3, <4>4, <4>5
    <3>. QED
      BY <3>1 DEF Linked
  <2>8. Marked(w)'
    <3>1. ASSUME NEW p \in Dirs, NEW i \in 1..Len(w[p]) PROVE w[p][i] \in used'
      <4>1. Anywhere(ch, w[p][i])
        BY <2>1 DEF SameClusters, Anywhere, In
      <4>. QED
        BY <4>1, <1>2 DEF Struct, Marked, Anywhere, In, At
    <3>. QED
      BY <3>1 DEF Marked
  <2>9. RootChain(w)'
    <3>1. w[Top][1] = Root
      BY <2>1, <1>1, <1>3, <1>10 DEF Struct, RootChain, n
    <3>2. Len(w[Top]) # 0 /\ w[Top][Len(w[Top])] = op.new
      BY <2>1, <1>3
    <3>3. op.new # l
      <4>1. ch[Hand][1] = op.new /\ 1 \in 1..Len(ch[Hand])
        BY <1>4
      <4>. QED
        BY <4>1, <1>1, <1>3, PlacesApart DEF Struct, Disjoint, l, n
    <3>4. fat'[op.new] \notin Clusters
      BY <1>4, <1>6, <3>3
    <3>5. w[Top] # <<>>
      BY <3>2
    <3>. QED
      BY <3>1, <3>2, <3>4, <3>5 DEF RootChain
  <2>. QED
    BY <2>1, <2>4, <2>6, <2>7, <2>8, <2>9 DEF Struct, Disjoint, w, RootChain
<1>. QED
  BY <1>1, <1>7, <1>9, <1>10 DEF q, n, l

(* A slot that is written, and the others.                                 *)
Others(p) == \A q \in Places \ {p} : SetAt(q)' = SetAt(q)

LEMMA SlotWritten ==
    ASSUME Types, NEW p \in Places, NEW s \in SlotType, SetSlot(p, s)
    PROVE  content' \in [Clusters -> [Slots -> SlotType]] /\ SetAt(p)' = s /\ Others(p)
<1>1. p[1] \in Clusters /\ p[2] \in Slots /\ p = <<p[1], p[2]>>
  BY PlacesApart
<1>2. content \in [Clusters -> [Slots -> SlotType]]
  BY DEF Types
<1>3. content' = [content EXCEPT ![p[1]] = [content[p[1]] EXCEPT ![p[2]] = s]]
  BY DEF SetSlot
<1>4. [content[p[1]] EXCEPT ![p[2]] = s] \in [Slots -> SlotType]
  BY <1>1, <1>2
<1>5. /\ content' \in [Clusters -> [Slots -> SlotType]]
      /\ \A c \in Clusters \ {p[1]} : content'[c] = content[c]
      /\ content'[p[1]][p[2]] = s
      /\ \A k \in Slots \ {p[2]} : content'[p[1]][k] = content[p[1]][k]
  BY <1>1, <1>2, <1>3, <1>4
<1>6. Others(p)
  <2>. SUFFICES ASSUME NEW q \in Places \ {p} PROVE content'[q[1]][q[2]] = content[q[1]][q[2]]
    BY DEF Others, SetAt
  <2>1. q[1] \in Clusters /\ q[2] \in Slots /\ q = <<q[1], q[2]>>
    BY PlacesApart
  <2>2. q[1] # p[1] \/ q[2] # p[2]
    BY <1>1, <2>1
  <2>. QED
    BY <2>1, <2>2, <1>5
<1>. QED
  BY <1>5, <1>6 DEF SetAt

LEMMA HandStays ==
    ASSUME NEW ch \in Chains, HandEmpty(ch), NEW p \in Places, Others(p),
           ~In(ch, Hand, p[1]) \/ ~SetAt(p)'.used
    PROVE  HandEmpty(ch)'
<1>. SUFFICES ASSUME NEW i \in 1..Len(ch[Hand]), NEW s \in Slots PROVE ~content'[ch[Hand][i]][s].used
  BY DEF HandEmpty
<1>1. PICK q \in Places : q = <<ch[Hand][i], s>>
  BY ChainTypes, PlacesApart
<1>2. SetAt(q)' = content'[ch[Hand][i]][s] /\ SetAt(q) = content[ch[Hand][i]][s] /\ In(ch, Hand, q[1])
  BY <1>1 DEF SetAt, In
<1>3. ~SetAt(q).used
  BY <1>2 DEF HandEmpty
<1>4. CASE q # p
  BY <1>2, <1>3, <1>4 DEF Others
<1>5. CASE q = p
  BY <1>2, <1>5
<1>. QED
  BY <1>4, <1>5

(* A step that writes a slot and leaves FAT and bitmap alone.              *)
LEMMA LinksStay ==
    ASSUME NEW ch \in Chains, Struct(ch), fat' = fat, used' = used, op.pc \notin {"unmark", "mark"}
    PROVE  Linked(ch)' /\ Marked(ch)' /\ RootChain(ch)' /\ Disjoint(ch)'
BY DEF Struct, Linked, Marked, RootChain, Disjoint, Cut, At

(* What is attached is linked.                                             *)
LEMMA AttachedLinks ==
    ASSUME NEW ch \in Chains, Struct(ch), NEW p \in Dirs \ {Hand, Top}, NEW c \in Clusters, ch[Hand] = <<c>>,
           ch[p] # <<>> => fat[ch[p][Len(ch[p])]] = c, fat' = fat, used' = used,
           op.pc \notin {"unmark", "mark"}
    PROVE  LET w == Attached(ch, p)
           IN  /\ w \in Chains /\ w[Hand] = <<>> /\ SameElsewhere(ch, w, {Hand, p}) /\ SameClusters(ch, w)
               /\ Len(w[p]) = Len(ch[p]) + 1 /\ \A i \in 1..Len(ch[p]) : w[p][i] = ch[p][i]
               /\ w[p][Len(ch[p]) + 1] = c
               /\ \A d : In(w, p, d) <=> In(ch, p, d) \/ d = c
               /\ Linked(w)' /\ Marked(w)' /\ RootChain(w)' /\ Disjoint(w)' /\ HandEmpty(w)'
<1>. DEFINE w == Attached(ch, p)
<1>1. /\ w \in Chains /\ Disjoint(w) /\ w[Hand] = <<>> /\ SameElsewhere(ch, w, {Hand, p})
      /\ SameClusters(ch, w) /\ Len(w[p]) = Len(ch[p]) + 1
      /\ \A i \in 1..Len(ch[p]) : w[p][i] = ch[p][i]
      /\ w[p][Len(ch[p]) + 1] = c
      /\ \A d : In(w, p, d) <=> In(ch, p, d) \/ d = c
  <2>1. PICK r \in Dirs \ {Hand} : r = p
    OBVIOUS
  <2>2. Disjoint(ch) /\ w = Attached(ch, r)
    BY <2>1 DEF Struct
  <2>. HIDE DEF w
  <2>. QED
    BY ONLY ZenonT(40), <2>1, <2>2, AttachedIs, ch \in Chains, c \in Clusters, ch[Hand] = <<c>>
<1>. HIDE DEF w
<1>2. Len(w[Hand]) = 0 /\ \A q \in Dirs \ {Hand, p} : w[q] = ch[q]
  BY <1>1 DEF SameElsewhere
<1>3. HandEmpty(w)'
  BY <1>2 DEF HandEmpty
<1>4. Len(ch[p]) \in Nat /\ (ch[p] # <<>> <=> Len(ch[p]) # 0)
  BY ChainTypes
<1>5. Linked(w)'
  <2>1. ASSUME NEW q \in Dirs, NEW i \in 1..(Len(w[q]) - 1) PROVE fat'[w[q][i]] = w[q][i + 1]
    <3>1. i \in 1..(Len(w[q]) - 1)
      OBVIOUS
    <3>2. q # Hand
      BY <3>1, <1>2
    <3>3. CASE q # p
      BY <3>2, <3>3, <1>2 DEF Struct, Linked, Cut, At
    <3>4. CASE q = p /\ i # Len(ch[p])
      <4>1. i \in 1..(Len(ch[p]) - 1) /\ i \in 1..Len(ch[p]) /\ i + 1 \in 1..Len(ch[p])
        BY <3>1, <3>4, <1>1, <1>4
      <4>2. fat'[ch[p][i]] = ch[p][i + 1]
        BY <4>1 DEF Struct, Linked, Cut, At
      <4>. QED
        BY <4>1, <4>2, <3>4, <1>1
    <3>5. CASE q = p /\ i = Len(ch[p])
      <4>1. ch[p] # <<>> /\ i \in 1..Len(ch[p])
        BY <3>1, <3>5, <1>4
      <4>. QED
        BY <4>1, <3>5, <1>1
    <3>. QED
      BY <3>3, <3>4, <3>5
  <2>. QED
    BY <2>1 DEF Linked
<1>6. Marked(w)'
  <2>1. ASSUME NEW q \in Dirs, NEW i \in 1..Len(w[q]) PROVE w[q][i] \in used'
    <3>1. Anywhere(ch, w[q][i])
      BY <1>1 DEF SameClusters, Anywhere, In
    <3>. QED
      BY <3>1 DEF Struct, Marked, Anywhere, In, At
  <2>. QED
    BY <2>1 DEF Marked
<1>7. RootChain(w)'
  BY <1>2, PlacesApart DEF Struct, RootChain
<1>8. Disjoint(w)'
  BY <1>1 DEF Disjoint
<1>. QED
  BY <1>1, <1>3, <1>5, <1>6, <1>7, <1>8 DEF w

LEMMA RecordLengthStruct ==
    ASSUME Types, NEW ch \in Chains, Struct(ch), Held(ch), RecordLength,
           NEW q \in {Top} \cup Places, q = op.dir.at
    PROVE  LET w == Attached(ch, q)
           IN  /\ w \in Chains /\ Struct(w)' /\ w[Hand] = <<>> /\ SameClusters(ch, w)
               /\ SameElsewhere(ch, w, {Hand, q}) /\ w[q] # <<>>
               /\ \A d : In(ch, q, d) => In(w, q, d)
               /\ q \in Places /\ Others(q) /\ op.dir.len + 1 \in 0..ClusterCount
               /\ content' \in [Clusters -> [Slots -> SlotType]] /\ SetFits(SetAt(q)')
               /\ SetAt(q)' = [SetAt(q) EXCEPT !.len = op.dir.len + 1] /\ SetAt(q) \in SlotType
               /\ SetAt(q).first = op.dir.first
<1>. DEFINE n == Len(ch[q])
            w == Attached(ch, q)
<1>1. At("length") /\ content' = GrownRecord /\ UNCHANGED <<fat, used>> /\ op'.pc = "search"
  BY DEF RecordLength, Types, OpType
<1>2. /\ ch[q] # <<>> /\ op.dir = DirectoryAt(q)
      /\ op.dir.len = (IF q = Top THEN 0 ELSE n)
  BY <1>1, DirectoryIs DEF Making, At
<1>3. PICK c \in Clusters : c = op.new /\ q # Top /\ fat[ch[q][n]] = c /\ ch[Hand] = <<c>>
  BY <1>1 DEF Held, HandIs, Claimed, At
<1>4. q \in Places /\ q \in Dirs \ {Hand, Top} /\ op.dir.len = n /\ n \in Nat \ {0}
  BY <1>2, <1>3, PlacesApart, ChainTypes
<1>5. Live(ch, q) /\ SetAt(q).dir /\ SetAt(q).first = ch[q][1] /\ SetAt(q).len = n /\ ~In(ch, q, q[1])
  BY <1>2, <1>4 DEF Struct, Records, Recorded
<1>. HIDE DEF n
<1>6. /\ w \in Chains /\ w[Hand] = <<>> /\ SameElsewhere(ch, w, {Hand, q}) /\ SameClusters(ch, w)
      /\ Len(w[q]) = n + 1 /\ \A i \in 1..n : w[q][i] = ch[q][i]
      /\ \A d : In(w, q, d) <=> In(ch, q, d) \/ d = c
      /\ Linked(w)' /\ Marked(w)' /\ RootChain(w)' /\ Disjoint(w)' /\ HandEmpty(w)'
  <2>1. fat' = fat /\ used' = used /\ op.pc \notin {"unmark", "mark"}
    BY <1>1 DEF At
  <2>2. fat[ch[q][Len(ch[q])]] = c
    BY <1>3 DEF n
  <2>3. PICK r \in Dirs \ {Hand, Top} : r = q
    BY <1>4
  <2>4. w = Attached(ch, r) /\ ch[Hand] = <<c>> /\ fat[ch[r][Len(ch[r])]] = c
    BY <2>2, <2>3, <1>3
  <2>. HIDE DEF w
  <2>5. /\ w \in Chains /\ w[Hand] = <<>> /\ SameElsewhere(ch, w, {Hand, r}) /\ SameClusters(ch, w)
        /\ Len(w[r]) = Len(ch[r]) + 1 /\ \A i \in 1..Len(ch[r]) : w[r][i] = ch[r][i]
        /\ \A d : In(w, r, d) <=> In(ch, r, d) \/ d = c
    BY ONLY ZenonT(40), <2>1, <2>4, AttachedLinks, ch \in Chains, c \in Clusters, Struct(ch)
  <2>6. Linked(w)' /\ Marked(w)' /\ RootChain(w)' /\ Disjoint(w)' /\ HandEmpty(w)'
    BY ONLY <2>1, <2>4, AttachedLinks, ch \in Chains, c \in Clusters, Struct(ch)
  <2>. QED
    BY <2>3, <2>5, <2>6 DEF n
<1>. HIDE DEF w
<1>7. n + 1 \in 0..ClusterCount
  <2>1. Disjoint(w)
    BY <1>6 DEF Disjoint
  <2>2. Len(w[q]) <= ClusterCount
    BY <1>4, <1>6, <2>1, NotTwice
  <2>. QED
    BY <2>2, <1>4, <1>6, Parameters
<1>8. SetAt(q) \in SlotType /\ SetFits(SetAt(q)) /\ content[q[1]] \in [Slots -> SlotType]
  BY <1>4, SetTypes
<1>9. PICK s \in SlotType : s = [SetAt(q) EXCEPT !.len = n + 1]
  BY <1>7, <1>8 DEF SlotType
<1>10. /\ s.used = SetAt(q).used /\ s.dir = SetAt(q).dir /\ s.first = SetAt(q).first
       /\ s.len = n + 1
  BY <1>8, <1>9 DEF SlotType
<1>11. content' \in [Clusters -> [Slots -> SlotType]] /\ SetAt(q)' = s /\ Others(q)
  <2>1. SetSlot(q, s)
    BY <1>1, <1>4, <1>9 DEF GrownRecord, SetSlot, SetAt
  <2>. QED
    BY <1>4, <2>1, SlotWritten
<1>12. SetFits(s)
  BY <1>4, <1>8, <1>10 DEF SetFits
<1>13. \A d : Anywhere(w, d)' <=> Anywhere(ch, d)
  <2>1. \A d : Anywhere(w, d)' <=> Anywhere(w, d)
    BY DEF Anywhere, In
  <2>. QED
    BY <2>1, <1>6 DEF SameClusters
<1>14. \A p \in Places : SetAt(p)'.used <=> SetAt(p).used
  <2>. SUFFICES ASSUME NEW p \in Places PROVE SetAt(p)'.used <=> SetAt(p).used
    OBVIOUS
  <2>1. CASE p = q
    BY <2>1, <1>10, <1>11
  <2>2. CASE p # q
    BY <2>2, <1>11 DEF Others
  <2>. QED
    BY <2>1, <2>2
<1>15. \A p \in Places : Live(w, p)' <=> Live(ch, p)
  <2>1. \A p : ~Hidden(p) /\ ~Hidden(p)'
    BY <1>1 DEF Hidden, At
  <2>. QED
    BY <1>13, <1>14, <2>1 DEF Live
<1>16. ASSUME NEW p \in Places, p # q
       PROVE  /\ Live(w, p)' /\ SetAt(p)'.dir => Recorded(w, p)'
              /\ Live(w, p)' /\ ~SetAt(p)'.dir => SetAt(p)'.len = 0
              /\ w[p] # <<>> => Live(w, p)' /\ SetAt(p)'.dir
  <2>1. w[p] = ch[p] /\ SetAt(p)' = SetAt(p)
    BY <1>16, <1>6, <1>11, PlacesApart DEF SameElsewhere, Others
  <2>2. Recorded(w, p)' <=> Recorded(ch, p)
    BY <2>1 DEF Recorded, In
  <2>3. /\ Live(ch, p) /\ SetAt(p).dir => Recorded(ch, p)
        /\ Live(ch, p) /\ ~SetAt(p).dir => SetAt(p).len = 0
        /\ ch[p] # <<>> => Live(ch, p) /\ SetAt(p).dir
    BY DEF Struct, Records
  <2>. QED
    BY <2>1, <2>2, <2>3, <1>15
<1>17. Recorded(w, q)'
  <2>1. Len(w[q]) = SetAt(q)'.len /\ w[q][1] = SetAt(q)'.first /\ w[q] # <<>>
    <3>1. 1 \in 1..n /\ w[q][1] = ch[q][1]
      BY <1>4, <1>6
    <3>2. Len(w[q]) # 0
      BY <1>4, <1>6
    <3>. QED
      BY <3>1, <3>2, <1>5, <1>6, <1>10, <1>11
  <2>2. q[1] # c
    <3>1. ~In(ch, Hand, q[1])
      BY <1>4, <1>5, LiveApart
    <3>2. ch[Hand][1] = c /\ 1 \in 1..Len(ch[Hand])
      BY <1>3
    <3>. QED
      BY <3>1, <3>2 DEF In
  <2>3. ~In(w, q, q[1])
    BY <2>2, <1>5, <1>6
  <2>4. In(w, q, q[1])' <=> In(w, q, q[1])
    BY DEF In
  <2>. QED
    BY <2>1, <2>3, <2>4 DEF Recorded
<1>18. Records(w)'
  <2>1. Live(w, q)'
    BY <1>15, <1>4, <1>5
  <2>2. SetAt(q)'.dir
    BY <1>5, <1>10, <1>11
  <2>. QED
    BY <2>1, <2>2, <1>16, <1>17 DEF Records
<1>19. Struct(w)'
  BY <1>6, <1>18 DEF Struct
<1>20. op.dir.first = ch[q][1] /\ w[q] # <<>>
  <2>1. Len(w[q]) # 0
    BY <1>4, <1>6
  <2>. QED
    BY <2>1, <1>2, <1>4, <1>5 DEF DirectoryAt
<1>. QED
  BY <1>4, <1>5, <1>6, <1>7, <1>8, <1>9, <1>11, <1>12, <1>19, <1>20 DEF w

-----------------------------------------------------------------------------
(* The chains after the write of an entry set.                             *)

(* What the records say of one place, and the places they say it of still. *)
RecordFits(ch, p) ==
    /\ Live(ch, p) /\ SetAt(p).dir => Recorded(ch, p)
    /\ Live(ch, p) /\ ~SetAt(p).dir => SetAt(p).len = 0
    /\ ch[p] # <<>> => Live(ch, p) /\ SetAt(p).dir
SameSets(ch, w, E) ==
    \A q \in Places \ E : w[q] = ch[q] /\ SetAt(q)' = SetAt(q) /\ (Live(w, q)' <=> Live(ch, q))
HiddenStays(E) == \A q \in Places \ E : Hidden(q)' <=> Hidden(q)

LEMMA SlotRecords ==
    ASSUME NEW ch \in Chains, NEW w \in Chains, Records(ch), NEW E \in SUBSET Places,
           SameSets(ch, w, E), \A q \in E : RecordFits(w, q)'
    PROVE  Records(w)'
<1>. SUFFICES ASSUME NEW q \in Places, q \notin E
              PROVE  RecordFits(w, q)'
  BY DEF Records, RecordFits
<1>1. w[q] = ch[q] /\ SetAt(q)' = SetAt(q) /\ (Live(w, q)' <=> Live(ch, q))
  BY DEF SameSets
<1>2. Recorded(w, q)' <=> Recorded(ch, q)
  BY <1>1 DEF Recorded, In
<1>3. RecordFits(ch, q)
  BY DEF Records, RecordFits
<1>. QED
  BY <1>1, <1>2, <1>3 DEF RecordFits

LEMMA SetsStay ==
    ASSUME NEW ch \in Chains, NEW w \in Chains, SameClusters(ch, w), NEW p \in Places, Others(p),
           NEW E \in SUBSET Places, p \in E, SameElsewhere(ch, w, {Hand, Top} \cup E),
           HiddenStays(E)
    PROVE  SameSets(ch, w, E)
<1>. SUFFICES ASSUME NEW q \in Places, q \notin E
              PROVE  w[q] = ch[q] /\ SetAt(q)' = SetAt(q) /\ (Live(w, q)' <=> Live(ch, q))
  BY DEF SameSets
<1>1. w[q] = ch[q] /\ SetAt(q)' = SetAt(q) /\ (Hidden(q)' <=> Hidden(q))
  BY PlacesApart DEF SameElsewhere, Others, HiddenStays
<1>2. Anywhere(w, q[1])' <=> Anywhere(w, q[1])
  BY DEF Anywhere, In
<1>. QED
  BY <1>1, <1>2 DEF Live, SameClusters

(* What is shifted is linked as before.                                    *)
LEMMA ShiftedLinks ==
    ASSUME NEW ch \in Chains, Struct(ch), NEW p \in Dirs, NEW q \in Dirs, p # q, p # Top, q # Top,
           ch[q] = <<>>, fat' = fat, used' = used, op.pc \notin {"unmark", "mark"}
    PROVE  LET w == Shifted(ch, p, q)
           IN  /\ w \in Chains /\ w[p] = <<>> /\ w[q] = ch[p] /\ SameElsewhere(ch, w, {p, q})
               /\ SameClusters(ch, w)
               /\ Linked(w)' /\ Marked(w)' /\ RootChain(w)' /\ Disjoint(w)'
<1>. DEFINE w == Shifted(ch, p, q)
<1>1. /\ w \in Chains /\ Disjoint(w) /\ w[p] = <<>> /\ w[q] = ch[p] /\ SameElsewhere(ch, w, {p, q})
      /\ SameClusters(ch, w)
  BY ShiftedIs DEF Struct
<1>. HIDE DEF w
<1>2. Len(w[p]) = 0 /\ \A r \in Dirs \ {p, q} : w[r] = ch[r]
  BY <1>1 DEF SameElsewhere
<1>3. Linked(w)'
  <2>1. ASSUME NEW r \in Dirs, NEW i \in 1..(Len(w[r]) - 1) PROVE fat'[w[r][i]] = w[r][i + 1]
    <3>1. i \in 1..(Len(w[r]) - 1)
      OBVIOUS
    <3>2. r # p
      BY <3>1, <1>2
    <3>3. CASE r # q
      BY <3>2, <3>3, <1>2 DEF Struct, Linked, Cut, At
    <3>4. CASE r = q
      BY <3>1, <3>4, <1>1 DEF Struct, Linked, Cut, At
    <3>. QED
      BY <3>3, <3>4
  <2>. QED
    BY <2>1 DEF Linked
<1>4. Marked(w)'
  <2>1. ASSUME NEW r \in Dirs, NEW i \in 1..Len(w[r]) PROVE w[r][i] \in used'
    <3>1. Anywhere(ch, w[r][i])
      BY <1>1 DEF SameClusters, Anywhere, In
    <3>. QED
      BY <3>1 DEF Struct, Marked, Anywhere, In, At
  <2>. QED
    BY <2>1 DEF Marked
<1>5. RootChain(w)'
  BY <1>2, PlacesApart DEF Struct, RootChain
<1>6. Disjoint(w)'
  BY <1>1 DEF Disjoint
<1>. QED
  BY <1>1, <1>3, <1>4, <1>5, <1>6 DEF w

(* A place that is not in use has no chain.                                *)
LEMMA NoChain ==
    ASSUME NEW ch \in Chains, Struct(ch), NEW p \in Places, ~SetAt(p).used \/ Hidden(p)
    PROVE  ch[p] = <<>>
BY DEF Struct, Records, Live

(* A new set is written and its first cluster attached to it.              *)
LEMMA MakeStruct ==
    ASSUME Types, NEW ch \in Chains, Struct(ch), Held(ch), WriteSet, op.kind = "mkdir",
           NEW p \in Places, p = op.place, NEW s \in SlotType, s = op.set
    PROVE  LET w == Attached(ch, p)
           IN  /\ w \in Chains /\ Struct(w)' /\ w[Hand] = <<>> /\ w[p] # <<>> /\ SetAt(p)' = s
               /\ s.used /\ s.dir /\ s.first = op.new /\ s.len = 1
               /\ content' \in [Clusters -> [Slots -> SlotType]] /\ Others(p) /\ SetFits(s)
<1>. DEFINE w == Attached(ch, p)
<1>1. /\ At("write") /\ SetSlot(p, s) /\ UNCHANGED <<fat, used>>
      /\ op' = Idle \/ (op'.pc = "descend")
  BY ZenonT(40) DEF WriteSet, Onward, Idle
<1>2. content' \in [Clusters -> [Slots -> SlotType]] /\ SetAt(p)' = s /\ Others(p)
  BY <1>1, SlotWritten
<1>3. PICK c \in Clusters : c = op.new /\ ch[Hand] = <<c>>
  BY <1>1 DEF Held, HandIs, Claimed, At
<1>4. s.used /\ s.dir /\ s.first = c /\ s.len = 1 /\ SetFits(s)
  BY <1>1, <1>3 DEF Held, SetIs, SetFits, At
<1>5. PICK d \in {Top} \cup Places : d = op.dir.at /\ In(ch, d, p[1]) /\ ~SetAt(p).used
  <2>1. op.dir.at \in {Top} \cup Places
    BY <1>1, DirectoryIs DEF Making, At
  <2>. QED
    BY <1>1, <2>1 DEF Held, PlaceIs, Placed, At
<1>6. ch[p] = <<>> /\ p \in Dirs \ {Hand, Top} /\ d \in Dirs \ {Hand}
  BY <1>5, NoChain, PlacesApart
<1>7. /\ w \in Chains /\ w[Hand] = <<>> /\ SameElsewhere(ch, w, {Hand, p}) /\ SameClusters(ch, w)
      /\ Len(w[p]) = 1 /\ w[p][1] = c
      /\ \A e : In(w, p, e) <=> In(ch, p, e) \/ e = c
      /\ Linked(w)' /\ Marked(w)' /\ RootChain(w)' /\ Disjoint(w)' /\ HandEmpty(w)'
  <2>1. fat' = fat /\ used' = used /\ op.pc \notin {"unmark", "mark"}
    BY <1>1 DEF At
  <2>2. PICK r \in Dirs \ {Hand, Top} : r = p
    BY <1>6
  <2>3. w = Attached(ch, r) /\ ch[Hand] = <<c>> /\ ch[r] = <<>>
    BY <2>2, <1>3, <1>6
  <2>. HIDE DEF w
  <2>4. /\ w \in Chains /\ w[Hand] = <<>> /\ SameElsewhere(ch, w, {Hand, r}) /\ SameClusters(ch, w)
        /\ Len(w[r]) = Len(ch[r]) + 1
        /\ w[r][Len(ch[r]) + 1] = c
        /\ \A e : In(w, r, e) <=> In(ch, r, e) \/ e = c
    BY ONLY ZenonT(40), <2>1, <2>3, AttachedLinks, ch \in Chains, c \in Clusters, Struct(ch)
  <2>5. Linked(w)' /\ Marked(w)' /\ RootChain(w)' /\ Disjoint(w)' /\ HandEmpty(w)'
    BY ONLY <2>1, <2>3, AttachedLinks, ch \in Chains, c \in Clusters, Struct(ch)
  <2>6. Len(ch[r]) = 0
    BY <2>3
  <2>. QED
    BY <2>2, <2>4, <2>5, <2>6
<1>. HIDE DEF w
<1>8. SameSets(ch, w, {p})
  <2>1. HiddenStays({p})
    BY <1>1 DEF HiddenStays, Hidden, At, Idle
  <2>2. SameElsewhere(ch, w, {Hand, Top} \cup {p})
    BY <1>7 DEF SameElsewhere
  <2>. QED
    BY <1>2, <1>7, <2>1, <2>2, SetsStay
<1>9. RecordFits(w, p)'
  <2>1. Len(w[p]) = SetAt(p)'.len /\ w[p][1] = SetAt(p)'.first /\ w[p] # <<>>
    BY <1>2, <1>4, <1>7
  <2>2. p[1] # c
    <3>1. ch[Hand][1] = c /\ 1 \in 1..Len(ch[Hand])
      BY <1>3
    <3>. QED
      BY <3>1, <1>5, <1>6, PlacesApart DEF Struct, Disjoint, In
  <2>3. ~In(w, p, p[1])
    <3>1. ~In(ch, p, p[1])
      BY <1>6 DEF In
    <3>. QED
      BY <2>2, <3>1, <1>7
  <2>4. In(w, p, p[1])' <=> In(w, p, p[1])
    BY DEF In
  <2>5. Recorded(w, p)'
    BY <2>1, <2>3, <2>4 DEF Recorded
  <2>6. Live(w, p)'
    <3>1. Anywhere(w, p[1])
      BY <1>5, <1>6, <1>7 DEF SameClusters, Anywhere
    <3>2. Anywhere(w, p[1])' <=> Anywhere(w, p[1])
      BY DEF Anywhere, In
    <3>3. ~Hidden(p)'
      BY <1>1 DEF Hidden, At, Idle
    <3>4. SetAt(p)'.used
      BY <1>2, <1>4
    <3>. QED
      BY <3>1, <3>2, <3>3, <3>4 DEF Live
  <2>7. SetAt(p)'.dir
    BY <1>2, <1>4
  <2>. QED
    BY <2>5, <2>6, <2>7 DEF RecordFits
<1>10. Records(w)'
  BY <1>7, <1>8, <1>9, SlotRecords DEF Struct
<1>11. Struct(w)' /\ w[p] # <<>>
  BY <1>7, <1>10 DEF Struct
<1>. QED
  BY <1>2, <1>3, <1>4, <1>7, <1>11 DEF w

(* A new set is written that has no cluster, or that is not there yet.     *)
LEMMA WriteStruct ==
    ASSUME Types, NEW ch \in Chains, Struct(ch), Held(ch), WriteSet, op.kind # "mkdir",
           NEW p \in Places, p = op.place, NEW s \in SlotType, s = op.set
    PROVE  /\ Struct(ch)' /\ SetAt(p)' = s /\ ch[Hand] = <<>> /\ ~SetAt(p).used
           /\ content' \in [Clusters -> [Slots -> SlotType]] /\ Others(p)
           /\ op' = Idle \/ (op.kind = "rename" /\ op' = [op EXCEPT !.pc = "retireOld"])
           /\ op.kind = "create" => SetFits(s)
<1>1. /\ At("write") /\ SetSlot(p, s) /\ UNCHANGED <<fat, used>>
      /\ \/ op.kind = "create" /\ op' = Idle
         \/ op.kind = "rename" /\ op' = [op EXCEPT !.pc = "retireOld"]
  BY DEF WriteSet, Held, SetIs, Making, At
<1>2. content' \in [Clusters -> [Slots -> SlotType]] /\ SetAt(p)' = s /\ Others(p)
  BY <1>1, SlotWritten
<1>3. ch[Hand] = <<>>
  BY <1>1 DEF Held, HandIs, Claimed, Releasing, At
<1>4. ~SetAt(p).used
  BY <1>1 DEF Held, PlaceIs, Placed, At
<1>5. ch[p] = <<>>
  BY <1>4, NoChain
<1>6. op.kind = "create" => s.used /\ ~s.dir /\ s.len = 0
  BY <1>1 DEF Held, SetIs, Making, At
<1>7. op.kind = "rename" => Hidden(p)'
  BY <1>1 DEF Hidden, At, Types, OpType
<1>8. SameSets(ch, ch, {p})
  <2>1. HiddenStays({p})
    BY <1>1 DEF HiddenStays, Hidden, At, Idle, Types, OpType
  <2>2. SameElsewhere(ch, ch, {Hand, Top} \cup {p}) /\ SameClusters(ch, ch)
    BY DEF SameElsewhere, SameClusters
  <2>. QED
    BY <1>2, <2>1, <2>2, SetsStay
<1>9. RecordFits(ch, p)'
  <2>1. CASE op.kind = "rename"
    <3>1. ~Live(ch, p)'
      BY <1>7, <2>1 DEF Live
    <3>. QED
      BY <3>1, <1>5 DEF RecordFits
  <2>2. CASE op.kind = "create"
    BY <2>2, <1>2, <1>5, <1>6 DEF RecordFits
  <2>. QED
    BY <2>1, <2>2, <1>1
<1>10. Records(ch)'
  BY <1>8, <1>9, SlotRecords DEF Struct
<1>11. Linked(ch)' /\ Marked(ch)' /\ RootChain(ch)' /\ Disjoint(ch)'
  BY <1>1, LinksStay DEF At
<1>12. HandEmpty(ch)'
  <2>1. Len(ch[Hand]) = 0
    BY <1>3
  <2>. QED
    BY <2>1 DEF HandEmpty
<1>. QED
  BY <1>1, <1>2, <1>3, <1>4, <1>6, <1>10, <1>11, <1>12 DEF Struct, SetFits

(* A set is written under its new name, which needs as many entries.       *)
LEMMA EditPlain ==
    ASSUME NEW ch \in Chains, Held(ch), EditName
    PROVE  /\ At("edit") /\ SetSlot(op.old, Edited) /\ UNCHANGED <<fat, used>> /\ op' = Idle
           /\ Edited = [op.set EXCEPT !.name = op.name]
<1>1. At("edit") /\ ~Shrinks(op.set, op.name)
  BY DEF EditName, Held, SetIs
<1>. QED
  BY <1>1 DEF EditName, Edited

LEMMA EditStruct ==
    ASSUME Types, NEW ch \in Chains, Struct(ch), Held(ch), EditName,
           NEW p \in Places, p = op.old
    PROVE  /\ Struct(ch)' /\ content' \in [Clusters -> [Slots -> SlotType]] /\ Others(p)
           /\ SetFits(SetAt(p)') /\ ch[Hand] = <<>>
<1>1. /\ At("edit") /\ SetSlot(p, Edited) /\ UNCHANGED <<fat, used>> /\ op' = Idle
      /\ Edited = [op.set EXCEPT !.name = op.name]
  BY EditPlain
<1>2. op.set \in SlotType /\ op.name \in Names
  BY <1>1 DEF Types, OpType, Held, SetIs, At
<1>3. PICK s \in SlotType : s = Edited
  BY <1>1, <1>2 DEF SlotType, StoredNames
<1>4. s.used = op.set.used /\ s.dir = op.set.dir /\ s.first = op.set.first /\ s.len = op.set.len
  BY <1>1, <1>2, <1>3 DEF SlotType
<1>5. content' \in [Clusters -> [Slots -> SlotType]] /\ SetAt(p)' = s /\ Others(p)
  BY <1>1, <1>3, SlotWritten
<1>6. Live(ch, p) /\ Copied
  BY <1>1 DEF Held, OldIs, At
<1>7. ch[Hand] = <<>>
  BY <1>1 DEF Held, HandIs, Claimed, Releasing, At
<1>8. Alike(p) /\ s.used /\ s.dir = SetAt(p).dir /\ s.first = SetAt(p).first /\ s.len = SetAt(p).len
  BY <1>4, <1>5, <1>6 DEF Copied, Alike
<1>9. \A q : ~Hidden(q) /\ ~Hidden(q)'
  BY <1>1 DEF Hidden, At, Idle
<1>10. SameSets(ch, ch, {p})
  <2>1. HiddenStays({p})
    BY <1>9 DEF HiddenStays
  <2>2. SameElsewhere(ch, ch, {Hand, Top} \cup {p}) /\ SameClusters(ch, ch)
    BY DEF SameElsewhere, SameClusters
  <2>. QED
    BY <1>5, <2>1, <2>2, SetsStay
<1>11. RecordFits(ch, p)'
  <2>1. Live(ch, p)'
    <3>1. Anywhere(ch, p[1])' <=> Anywhere(ch, p[1])
      BY DEF Anywhere, In
    <3>. QED
      BY <3>1, <1>5, <1>6, <1>8, <1>9 DEF Live
  <2>2. Recorded(ch, p)' <=> Recorded(ch, p)
    BY <1>8 DEF Recorded, In, Alike
  <2>3. RecordFits(ch, p)
    BY DEF Struct, Records, RecordFits
  <2>. QED
    BY <2>1, <2>2, <2>3, <1>6, <1>8 DEF RecordFits, Alike
<1>12. Records(ch)'
  BY <1>10, <1>11, SlotRecords DEF Struct
<1>13. Linked(ch)' /\ Marked(ch)' /\ RootChain(ch)' /\ Disjoint(ch)'
  BY <1>1, LinksStay DEF At
<1>14. HandEmpty(ch)'
  <2>1. Len(ch[Hand]) = 0
    BY <1>7
  <2>. QED
    BY <2>1 DEF HandEmpty
<1>15. SetFits(s)
  <2>1. SetFits(SetAt(p))
    BY SetTypes
  <2>. QED
    BY <2>1, <1>6, <1>8 DEF SetFits, Live
<1>. QED
  BY <1>5, <1>7, <1>12, <1>13, <1>14, <1>15 DEF Struct

LEMMA NoSetType == NoSet \in SlotType /\ ~NoSet.used /\ ~NoSet.dir /\ SetFits(NoSet)
BY Parameters DEF NoSet, SlotType, Addresses, SetFits

(* A removed directory's clusters are in hand.                             *)
LEMMA RetireStruct ==
    ASSUME Types, NEW ch \in Chains, Struct(ch), Held(ch), Retire, At("retire"),
           NEW p \in Places, p = op.old
    PROVE  LET w == Shifted(ch, p, Hand)
           IN  /\ w \in Chains /\ Struct(w)' /\ w[Hand] = ch[p] /\ Others(p) /\ SetAt(p)' = NoSet
               /\ content' \in [Clusters -> [Slots -> SlotType]]
               /\ ch[p] # <<>> => Len(ch[p]) = op.set.len /\ ch[p][1] = op.set.first
               /\ ch[p] = <<>> => op.set.len = 0
<1>. DEFINE w == Shifted(ch, p, Hand)
<1>1. SetSlot(p, NoSet) /\ UNCHANGED <<fat, used>> /\ op'.pc \in {"idle", "free"}
  BY DEF Retire, Idle, Types, OpType
<1>2. content' \in [Clusters -> [Slots -> SlotType]] /\ SetAt(p)' = NoSet /\ Others(p)
  BY <1>1, SlotWritten, NoSetType
<1>3. ch[Hand] = <<>>
  BY DEF Held, HandIs, Claimed, Releasing, At
<1>4. Live(ch, p) /\ Copied
  BY DEF Held, OldIs, At
<1>5. p # Hand /\ p # Top /\ p \in Dirs /\ Hand \in Dirs /\ Hand # Top
  BY PlacesApart
<1>6. /\ w \in Chains /\ w[p] = <<>> /\ w[Hand] = ch[p] /\ SameElsewhere(ch, w, {p, Hand})
      /\ SameClusters(ch, w)
      /\ Linked(w)' /\ Marked(w)' /\ RootChain(w)' /\ Disjoint(w)'
  <2>1. PICK h \in Dirs, r \in Dirs : h = Hand /\ r = p /\ r # h /\ h # Top /\ r # Top
    BY <1>5
  <2>2. w = Shifted(ch, r, h) /\ ch[h] = <<>> /\ fat' = fat /\ used' = used
        /\ op.pc \notin {"unmark", "mark"}
    BY <2>1, <1>1, <1>3 DEF At
  <2>. HIDE DEF w
  <2>3. /\ w \in Chains /\ w[r] = <<>> /\ w[h] = ch[r] /\ SameElsewhere(ch, w, {r, h})
        /\ SameClusters(ch, w)
    BY ONLY <2>1, <2>2, ShiftedLinks, ch \in Chains, Struct(ch)
  <2>4. Linked(w)' /\ Marked(w)' /\ RootChain(w)' /\ Disjoint(w)'
    BY ONLY <2>1, <2>2, ShiftedLinks, ch \in Chains, Struct(ch)
  <2>. QED
    BY <2>1, <2>3, <2>4
<1>. HIDE DEF w
<1>7. SameSets(ch, w, {p})
  <2>1. HiddenStays({p})
    BY <1>1 DEF HiddenStays, Hidden, At
  <2>2. SameElsewhere(ch, w, {Hand, Top} \cup {p})
    BY <1>6 DEF SameElsewhere
  <2>. QED
    BY <1>2, <1>6, <2>1, <2>2, SetsStay
<1>8. RecordFits(w, p)'
  BY <1>2, <1>6, NoSetType DEF RecordFits, Live
<1>9. Records(w)'
  BY <1>6, <1>7, <1>8, SlotRecords DEF Struct
<1>10. HandEmpty(w)'
  <2>. SUFFICES ASSUME NEW i \in 1..Len(w[Hand]), NEW s \in Slots PROVE ~content'[w[Hand][i]][s].used
    BY DEF HandEmpty
  <2>1. i \in 1..Len(ch[p]) /\ w[Hand][i] = ch[p][i] /\ ch[p] # <<>>
    BY <1>6
  <2>2. op.set.dir
    BY <2>1, <1>4 DEF Struct, Records, Copied
  <2>3. ~content[ch[p][i]][s].used
    BY <2>1, <2>2 DEF Held, OldIs, At
  <2>4. PICK q \in Places : q = <<ch[p][i], s>>
    BY <2>1, <1>5, ChainTypes, PlacesApart
  <2>5. SetAt(q)' = content'[w[Hand][i]][s] /\ SetAt(q) = content[ch[p][i]][s]
    BY <2>1, <2>4 DEF SetAt
  <2>6. CASE q = p
    BY <2>5, <2>6, <1>2, NoSetType
  <2>7. CASE q # p
    BY <2>3, <2>5, <2>7, <1>2 DEF Others
  <2>. QED
    BY <2>6, <2>7
<1>11. /\ ch[p] # <<>> => Len(ch[p]) = op.set.len /\ ch[p][1] = op.set.first
       /\ ch[p] = <<>> => op.set.len = 0
  BY <1>4 DEF Struct, Records, Recorded, Copied
<1>. QED
  BY <1>2, <1>6, <1>9, <1>10, <1>11 DEF Struct, w

(* What a set had is the renamed one's, which is there from now on.        *)
LEMMA RenamedStruct ==
    ASSUME Types, NEW ch \in Chains, Struct(ch), Held(ch), Retire, At("retireOld"),
           NEW p \in Places, p = op.old, NEW q \in Places, q = op.place
    PROVE  LET w == Shifted(ch, p, q)
           IN  /\ w \in Chains /\ Struct(w)' /\ w[Hand] = <<>> /\ Others(p) /\ SetAt(p)' = NoSet
               /\ content' \in [Clusters -> [Slots -> SlotType]] /\ op' = Idle
<1>. DEFINE w == Shifted(ch, p, q)
<1>1. SetSlot(p, NoSet) /\ UNCHANGED <<fat, used>> /\ op' = Idle
  BY DEF Retire
<1>2. content' \in [Clusters -> [Slots -> SlotType]] /\ SetAt(p)' = NoSet /\ Others(p)
  BY <1>1, SlotWritten, NoSetType
<1>3. ch[Hand] = <<>>
  BY DEF Held, HandIs, Claimed, Releasing, At
<1>4. Live(ch, p) /\ Copied /\ Anywhere(ch, q[1]) /\ ~In(ch, p, q[1]) /\ SetAt(q) = op.set
  BY DEF Held, OldIs, At
<1>5. Hidden(q) /\ p # q /\ ch[q] = <<>>
  <2>1. Hidden(q)
    BY DEF Hidden
  <2>. QED
    BY <2>1, <1>4, NoChain DEF Live
<1>6. /\ w \in Chains /\ w[p] = <<>> /\ w[q] = ch[p] /\ SameElsewhere(ch, w, {p, q})
      /\ SameClusters(ch, w)
      /\ Linked(w)' /\ Marked(w)' /\ RootChain(w)' /\ Disjoint(w)'
  <2>1. PICK h \in Dirs, r \in Dirs : h = q /\ r = p /\ r # h /\ h # Top /\ r # Top
    BY <1>5, PlacesApart
  <2>2. w = Shifted(ch, r, h) /\ ch[h] = <<>> /\ fat' = fat /\ used' = used
        /\ op.pc \notin {"unmark", "mark"}
    BY <2>1, <1>1, <1>5 DEF At
  <2>. HIDE DEF w
  <2>3. /\ w \in Chains /\ w[r] = <<>> /\ w[h] = ch[r] /\ SameElsewhere(ch, w, {r, h})
        /\ SameClusters(ch, w)
    BY ONLY <2>1, <2>2, ShiftedLinks, ch \in Chains, Struct(ch)
  <2>4. Linked(w)' /\ Marked(w)' /\ RootChain(w)' /\ Disjoint(w)'
    BY ONLY <2>1, <2>2, ShiftedLinks, ch \in Chains, Struct(ch)
  <2>. QED
    BY <2>1, <2>3, <2>4
<1>. HIDE DEF w
<1>7. w[Hand] = <<>> /\ Len(w[Hand]) = 0
  BY <1>3, <1>6, PlacesApart DEF SameElsewhere
<1>8. \A r : ~Hidden(r)'
  BY <1>1 DEF Hidden, At, Idle
<1>9. SameSets(ch, w, {p, q})
  <2>1. HiddenStays({p, q})
    BY <1>8 DEF HiddenStays, Hidden
  <2>2. SameElsewhere(ch, w, {Hand, Top} \cup {p, q})
    BY <1>6 DEF SameElsewhere
  <2>. QED
    BY <1>2, <1>6, <2>1, <2>2, SetsStay
<1>10. RecordFits(w, p)'
  BY <1>2, <1>6, NoSetType DEF RecordFits, Live
<1>11. SetAt(q)' = SetAt(q)
  BY <1>2, <1>5 DEF Others
<1>12. SetAt(q).used /\ SetAt(q).dir = SetAt(p).dir /\ SetAt(q).first = SetAt(p).first
       /\ SetAt(q).len = SetAt(p).len
  BY <1>4 DEF Copied
<1>13. RecordFits(w, q)'
  <2>1. Live(w, q)'
    <3>1. Anywhere(w, q[1])
      BY <1>4, <1>6 DEF SameClusters
    <3>2. Anywhere(w, q[1])' <=> Anywhere(w, q[1])
      BY DEF Anywhere, In
    <3>. QED
      BY <3>1, <3>2, <1>8, <1>11, <1>12 DEF Live
  <2>2. CASE SetAt(p).dir
    <3>1. ch[p] # <<>> /\ ch[p][1] = SetAt(p).first /\ Len(ch[p]) = SetAt(p).len
      BY <2>2, <1>4 DEF Struct, Records, Recorded
    <3>2. In(w, q, q[1])' <=> In(ch, p, q[1])
      BY <1>6 DEF In
    <3>3. Recorded(w, q)'
      BY <3>1, <3>2, <1>4, <1>6, <1>11, <1>12 DEF Recorded
    <3>. QED
      BY <3>3, <2>1, <2>2, <1>11, <1>12 DEF RecordFits
  <2>3. CASE ~SetAt(p).dir
    <3>1. ch[p] = <<>> /\ SetAt(p).len = 0
      BY <2>3, <1>4 DEF Struct, Records
    <3>. QED
      BY <3>1, <2>1, <2>3, <1>6, <1>11, <1>12 DEF RecordFits
  <2>. QED
    BY <2>2, <2>3
<1>14. Records(w)'
  <2>1. \A r \in {p, q} : RecordFits(w, r)'
    BY <1>10, <1>13
  <2>. QED
    BY <1>6, <1>9, <2>1, SlotRecords DEF Struct
<1>15. HandEmpty(w)'
  BY <1>7 DEF HandEmpty
<1>. QED
  BY <1>1, <1>2, <1>6, <1>7, <1>14, <1>15 DEF Struct, w

-----------------------------------------------------------------------------
(* The chains while clusters are released.                                 *)

LEMMA FreeLinkStruct ==
    ASSUME Types, NEW ch \in Chains, Struct(ch), Held(ch), FreeLink
    PROVE  /\ Struct(ch)' /\ op'.pc = "unmark"
           /\ op.left # 1 => op'.next = ch[Hand][2]
           /\ op'.next \in Addresses \cup {EndOfChain} /\ fat' = [fat EXCEPT ![op.cl] = Free]
           /\ op.cl \in Clusters
<1>1. /\ At("free") /\ UNCHANGED <<content, used>> /\ fat' = [fat EXCEPT ![op.cl] = Free]
      /\ op' = [op EXCEPT !.pc = "unmark", !.next = IF op.left = 1 THEN 0 ELSE fat[op.cl]]
  BY DEF FreeLink
<1>2. op'.pc = "unmark" /\ op'.next = IF op.left = 1 THEN 0 ELSE fat[op.cl]
  BY <1>1 DEF Types, OpType
<1>3. op.left \in Nat \ {0} /\ Len(ch[Hand]) = op.left /\ ch[Hand][1] = op.cl
  BY <1>1 DEF Held, HandIs, Releasing, At
<1>4. 1 \in 1..Len(ch[Hand]) /\ Hand \in Dirs /\ Hand # Top /\ op.cl \in Clusters
  BY <1>3, PlacesApart, ChainTypes
<1>5. op.left # 1 => fat[op.cl] = ch[Hand][2]
  <2>1. op.left # 1 => 1 \in 1..(Len(ch[Hand]) - 1)
    BY <1>3
  <2>2. ~Cut(Hand, 1)
    BY <1>1 DEF Cut, At
  <2>. QED
    BY <1>3, <1>4, <2>1, <2>2 DEF Struct, Linked
<1>6. Linked(ch)' /\ RootChain(ch)'
  <2>0. PICK q \in Dirs : q = Hand
    BY <1>4
  <2>1. PICK n \in 1..Len(ch[q]) : q = Hand /\ n = 1
    BY <1>4, <2>0
  <2>2. Cut(q, n)' /\ ~At("unmark")
    BY <1>1, <1>2, <2>1 DEF Cut, At
  <2>3. LinkChanged(ch[q][n])
    BY <1>1, <1>3, <2>1 DEF LinkChanged, Types
  <2>. QED
    BY <1>4, <2>1, <2>2, <2>3, LinkedStays
<1>7. \A p : SetAt(p)' = SetAt(p) /\ ~Hidden(p) /\ ~Hidden(p)'
  BY <1>1, <1>2 DEF SetAt, Hidden, At
<1>8. \A p : Live(ch, p)' <=> Live(ch, p)
  BY <1>7 DEF Live
<1>9. Records(ch)'
  BY <1>7, <1>8, RecordsStay DEF Struct, Alike, SameElsewhere
<1>10. Marked(ch)' /\ HandEmpty(ch)' /\ Disjoint(ch)'
  BY <1>1 DEF Struct, Marked, HandEmpty, Disjoint, At
<1>11. op'.next \in Addresses \cup {EndOfChain}
  BY <1>2, <1>4 DEF Types, Addresses
<1>. QED
  BY <1>1, <1>2, <1>4, <1>5, <1>6, <1>9, <1>10, <1>11 DEF Struct

LEMMA UnmarkStruct ==
    ASSUME Types, NEW ch \in Chains, Struct(ch), Held(ch), Unmark
    PROVE  LET w == Dropped(ch)
           IN  /\ w \in Chains /\ Struct(w)' /\ Len(w[Hand]) = op.left - 1 /\ op.left \in Nat \ {0}
               /\ op.left # 1 => /\ w[Hand][1] = op.next /\ op.next \in Clusters
                                 /\ op' = [op EXCEPT !.pc = "free", !.cl = op.next, !.left = @ - 1]
               /\ op.left = 1 => op' = Idle
               /\ used' \subseteq Clusters /\ UNCHANGED <<content, fat>>
<1>. DEFINE w == Dropped(ch)
<1>1. /\ At("unmark") /\ UNCHANGED <<content, fat>> /\ used' = used \ {op.cl}
      /\ op' = AfterUnmark /\ op'.pc \in {"idle", "free"}
  BY DEF Unmark, AfterUnmark, Types, OpType, Idle
<1>2. /\ op.left \in Nat \ {0} /\ Len(ch[Hand]) = op.left /\ ch[Hand][1] = op.cl
      /\ op.left # 1 => op.next = ch[Hand][2]
  BY <1>1 DEF Held, HandIs, Releasing, At
<1>3. ch[Hand] # <<>> /\ \A i \in 1..Len(ch[Hand]) : ch[Hand][i] \in Clusters
  BY <1>2, PlacesApart, ChainTypes
<1>4. /\ w \in Chains /\ Disjoint(w) /\ Len(w[Hand]) = Len(ch[Hand]) - 1
      /\ \A i \in 1..(Len(ch[Hand]) - 1) : w[Hand][i] = ch[Hand][i + 1]
      /\ SameElsewhere(ch, w, {Hand})
      /\ \A c : Anywhere(ch, c) <=> Anywhere(w, c) \/ c = ch[Hand][1]
      /\ ~Anywhere(w, ch[Hand][1])
  BY <1>3, DroppedIs DEF Struct
<1>. HIDE DEF w
<1>5. \A p \in Dirs \ {Hand} : w[p] = ch[p]
  BY <1>4 DEF SameElsewhere
<1>6. \A p : SetAt(p)' = SetAt(p) /\ ~Hidden(p) /\ ~Hidden(p)'
  BY <1>1 DEF SetAt, Hidden, At
<1>7. \A p \in Places : Live(w, p)' <=> Live(ch, p)
  <2>1. \A p \in Places : Live(ch, p) => p[1] # ch[Hand][1]
    <3>. SUFFICES ASSUME NEW p \in Places, Live(ch, p) PROVE p[1] # ch[Hand][1]
      OBVIOUS
    <3>1. ~In(ch, Hand, p[1])
      BY LiveApart
    <3>2. 1 \in 1..Len(ch[Hand])
      BY <1>2
    <3>. QED
      BY <3>1, <3>2 DEF In
  <2>2. \A d : Anywhere(w, d)' <=> Anywhere(w, d)
    BY DEF Anywhere, In
  <2>. QED
    BY <1>4, <1>6, <2>1, <2>2 DEF Live
<1>8. Records(w)'
  BY <1>4, <1>6, <1>7, RecordsStay DEF Struct, Alike, SameElsewhere
<1>9. Linked(w)'
  <2>1. ASSUME NEW p \in Dirs, NEW i \in 1..(Len(w[p]) - 1) PROVE fat'[w[p][i]] = w[p][i + 1]
    <3>1. CASE p # Hand
      BY <3>1, <1>1, <1>5 DEF Struct, Linked, Cut
    <3>2. CASE p = Hand
      <4>1. /\ i \in 1..(Len(ch[Hand]) - 1) /\ i + 1 \in 1..(Len(ch[Hand]) - 1) /\ i + 1 # 1
            /\ i \in Nat
        <5>1. i \in 1..(op.left - 2)
          BY <3>2, <1>2, <1>4
        <5>. QED
          BY <5>1, <1>2
      <4>2. fat[ch[Hand][i + 1]] = ch[Hand][(i + 1) + 1]
        BY <4>1, PlacesApart DEF Struct, Linked, Cut
      <4>3. w[Hand][i] = ch[Hand][i + 1] /\ w[Hand][i + 1] = ch[Hand][(i + 1) + 1]
        BY <4>1, <1>4
      <4>. QED
        BY <4>2, <4>3, <3>2, <1>1
    <3>. QED
      BY <3>1, <3>2
  <2>. QED
    BY <2>1 DEF Linked
<1>10. Marked(w)'
  <2>1. ASSUME NEW p \in Dirs, NEW i \in 1..Len(w[p]) PROVE w[p][i] \in used'
    <3>1. Anywhere(w, w[p][i])
      BY DEF Anywhere, In
    <3>2. Anywhere(ch, w[p][i]) /\ w[p][i] # op.cl
      BY <3>1, <1>2, <1>4
    <3>3. w[p][i] \in used
      BY <3>2, <1>1 DEF Struct, Marked, Anywhere, In, At
    <3>. QED
      BY <3>2, <3>3, <1>1
  <2>. QED
    BY <2>1 DEF Marked
<1>11. RootChain(w)'
  BY <1>1, <1>5, PlacesApart DEF Struct, RootChain
<1>12. HandEmpty(w)'
  <2>1. ASSUME NEW i \in 1..Len(w[Hand]), NEW s \in Slots PROVE ~content[w[Hand][i]][s].used
    <3>1. i \in 1..(Len(ch[Hand]) - 1) /\ i + 1 \in 1..Len(ch[Hand])
      BY <1>2, <1>4
    <3>. QED
      BY <3>1, <1>4 DEF Struct, HandEmpty
  <2>. QED
    BY <2>1, <1>1 DEF HandEmpty
<1>13. op.left # 1 => op.next \in Clusters /\ w[Hand][1] = op.next
  <2>1. op.left # 1 => 2 \in 1..Len(ch[Hand]) /\ 1 \in 1..(Len(ch[Hand]) - 1)
    BY <1>2
  <2>. QED
    BY <2>1, <1>2, <1>3, <1>4
<1>14. used' \subseteq Clusters
  BY <1>1 DEF Types
<1>15. /\ op.left # 1 => op' = [op EXCEPT !.pc = "free", !.cl = op.next, !.left = @ - 1]
       /\ op.left = 1 => op' = Idle
  BY <1>1, <1>13 DEF AfterUnmark
<1>. QED
  BY <1>1, <1>2, <1>4, <1>8, <1>9, <1>10, <1>11, <1>12, <1>13, <1>14, <1>15 DEF Struct, Disjoint, w

-----------------------------------------------------------------------------
(* The types after a step.                                                 *)

LEMMA TypesUnwritten ==
    ASSUME Types, UNCHANGED device, op' \in OpType
    PROVE  Types'
BY DEF Types, device

LEMMA TypesWritten ==
    ASSUME Types, NEW p \in Places, Others(p), content' \in [Clusters -> [Slots -> SlotType]],
           SetFits(SetAt(p)'), fat' = fat, used' = used, op' \in OpType
    PROVE  Types'
<1>. SUFFICES ASSUME NEW c \in Clusters, NEW s \in Slots PROVE SetFits(content'[c][s])
  BY DEF Types, SetFits
<1>1. PICK q \in Places : q = <<c, s>>
  BY PlacesApart
<1>2. SetAt(q)' = content'[c][s] /\ SetAt(q) = content[c][s]
  BY <1>1 DEF SetAt
<1>3. CASE q = p
  BY <1>2, <1>3
<1>4. CASE q # p
  BY <1>2, <1>4 DEF Others, Types
<1>. QED
  BY <1>3, <1>4

LEMMA IdleType ==
    /\ Idle \in OpType /\ Idle.pc = "idle" /\ Idle.kind = "none" /\ Idle.path = <<>> /\ Idle.i = 0
    /\ Idle.name = None /\ Idle.dir = [first |-> Root, len |-> 0, at |-> Top] /\ Idle.set = NoSet
    /\ Idle.old = None /\ Idle.place = None /\ ~Idle.growing /\ Idle.new = 0 /\ Idle.cl = 0
    /\ Idle.next = 0 /\ Idle.left = 0
<1>1. [first |-> Root, len |-> 0, at |-> Top] \in DirType
  BY Parameters DEF DirType, Addresses
<1>2. 0 \in Addresses /\ 0 \in 0..ClusterCount /\ 0 \in Nat
  BY Parameters DEF Addresses
<1>. QED
  BY <1>1, <1>2, NoSetType DEF Idle, OpType

LEMMA SetType ==
    ASSUME NEW n \in StoredNames, NEW d \in BOOLEAN, NEW f \in Addresses, NEW l \in 0..ClusterCount
    PROVE  /\ Set(n, d, f, l) \in SlotType /\ Set(n, d, f, l).used /\ Set(n, d, f, l).dir = d
           /\ Set(n, d, f, l).first = f /\ Set(n, d, f, l).len = l
<1>. DEFINE wide == n \in Wide \/ n \in Names \X Wide
<1>1. wide \in BOOLEAN
  OBVIOUS
<1>2. Set(n, d, f, l) = [used |-> TRUE, surplus |-> FALSE, name |-> n, wide |-> wide, dir |-> d,
                         first |-> f, len |-> l]
  BY DEF Set
<1>. HIDE DEF wide
<1>. QED
  BY <1>1, <1>2 DEF SlotType

LEMMA IdleHeld ==
    ASSUME NEW w \in Chains, w[Hand] = <<>>, op' = Idle
    PROVE  Held(w)'
<1>1. op'.pc = "idle"
  BY IdleType
<1>2. ~Making' /\ ~Placed' /\ ~Claimed' /\ ~Releasing'
  BY <1>1 DEF Making, Placed, Claimed, Releasing, At
<1>3. HandIs(w)'
  BY <1>1, <1>2 DEF HandIs, At
<1>4. DirIs(w)' /\ PlaceIs(w)' /\ CallIs' /\ SetIs'
  BY <1>1, <1>2 DEF DirIs, PlaceIs, CallIs, SetIs, At
<1>5. OldIs(w)'
  BY <1>1, <1>2 DEF OldIs, At
<1>. QED
  BY <1>3, <1>4, <1>5 DEF Held

LEMMA InvHolds ==
    ASSUME Types', NEW w \in Chains, Struct(w)', Held(w)'
    PROVE  Inv'
BY DEF Inv

(* An operation that ends and writes nothing.                              *)
LEMMA Stopped ==
    ASSUME Types, NEW ch \in Chains, Struct(ch), UNCHANGED device, ~At("retireOld"), op' = Idle
    PROVE  Inv'
<1>1. op'.pc # "retireOld" /\ op' \in OpType
  BY IdleType
<1>2. PICK w \in Chains : w = Emptied(ch)
  BY <1>1, StructEmptied
<1>3. Struct(w)' /\ w[Hand] = <<>>
  <2>1. Struct(Emptied(ch))'
    BY <1>1, StructEmptied
  <2>2. Emptied(ch)[Hand] = <<>>
    BY EmptiedIs DEF Struct
  <2>. QED
    BY <1>2, <2>1, <2>2
<1>. QED
  BY <1>1, <1>3, TypesUnwritten, IdleHeld, InvHolds

-----------------------------------------------------------------------------
(* The calls.                                                              *)

(* A step that writes nothing and starts or goes on.                       *)
LEMMA GoesOn ==
    ASSUME Types, NEW ch \in Chains, Struct(ch), UNCHANGED device,
           op.pc \notin {"retireOld", "unmark", "mark"}, op'.pc # "retireOld", op' \in OpType
    PROVE  /\ Types' /\ Struct(ch)'
           /\ \A p : SetAt(p)' = SetAt(p)
           /\ \A p : Live(ch, p)' <=> Live(ch, p)
           /\ \A p : DirectoryAt(p)' = DirectoryAt(p)
           /\ \A p, c : In(ch, p, c)' <=> In(ch, p, c)
<1>1. Types' /\ Struct(ch)'
  BY TypesUnwritten, StructStays
<1>2. \A p : SetAt(p)' = SetAt(p) /\ ~Hidden(p) /\ ~Hidden(p)'
  BY DEF device, SetAt, Hidden, At
<1>3. \A p : Live(ch, p)' <=> Live(ch, p)
  BY <1>2 DEF Live
<1>4. \A p : DirectoryAt(p)' = DirectoryAt(p)
  BY <1>2 DEF DirectoryAt
<1>5. \A p, c : In(ch, p, c)' <=> In(ch, p, c)
  BY DEF In
<1>. QED
  BY <1>1, <1>2, <1>3, <1>4, <1>5

LEMMA IdleHand ==
    ASSUME NEW ch \in Chains, Held(ch), op.pc \in {"idle", "descend", "search", "claim", "edit",
                                                   "retire", "retireOld"}
    PROVE  ch[Hand] = <<>>
BY DEF Held, HandIs, Claimed, Releasing, At

LEMMA CreateDirAllInv ==
    ASSUME Types, NEW ch \in Chains, Struct(ch), Held(ch), NEW path \in Paths, CreateDirAll(path)
    PROVE  Inv'
<1>1. /\ At("idle") /\ UNCHANGED device
      /\ op' = [Idle EXCEPT !.pc = "descend", !.kind = "mkdir", !.path = path, !.i = 1]
  BY DEF CreateDirAll
<1>2. /\ op' \in OpType /\ op'.pc = "descend" /\ op'.kind = "mkdir" /\ op'.path = path /\ op'.i = 1
      /\ op'.dir = [first |-> Root, len |-> 0, at |-> Top]
  BY <1>1, IdleType DEF OpType
<1>3. Types' /\ Struct(ch)' /\ ch[Hand] = <<>>
  BY <1>1, <1>2, GoesOn, IdleHand DEF At
<1>4. ~Making' /\ ~Placed' /\ ~Claimed' /\ ~Releasing'
  BY <1>2 DEF Making, Placed, Claimed, Releasing, At
<1>5. HandIs(ch)'
  BY <1>2, <1>3, <1>4 DEF HandIs, At
<1>6. DirIs(ch)'
  BY <1>2 DEF DirIs, DirectoryAt, Struct, RootChain
<1>7. CallIs'
  BY <1>2, <1>4, PathTypes DEF CallIs, At
<1>8. PlaceIs(ch)' /\ SetIs' /\ OldIs(ch)'
  BY <1>2, <1>4 DEF PlaceIs, SetIs, OldIs, At
<1>. QED
  BY <1>3, <1>5, <1>6, <1>7, <1>8, InvHolds DEF Held

LEMMA CreateInv ==
    ASSUME Types, NEW ch \in Chains, Struct(ch), Held(ch), NEW path \in Paths, Create(path)
    PROVE  Inv'
<1>1. PICK x \in Reachable(ch) : x = Lookup(Parent(path))
  BY LookupLast DEF Create, At
<1>2. /\ At("idle") /\ UNCHANGED device /\ IsDirectory(x)
      /\ op' = [Idle EXCEPT !.pc = "search", !.kind = "create", !.path = path,
                            !.dir = DirectoryAt(x), !.set = Set(Last(path), FALSE, 0, 0)]
  BY <1>1 DEF Create
<1>3. x \in {Top} \cup Places /\ ch[x] # <<>>
  BY <1>1, <1>2, LiveDirectory
<1>4. DirectoryAt(x) \in DirType /\ DirectoryAt(x).at = x
  BY <1>3, ClustersAre
<1>5. PICK s \in SlotType : s = Set(Last(path), FALSE, 0, 0) /\ s.used /\ ~s.dir /\ s.len = 0
  <2>1. PICK n \in StoredNames : n = Last(path)
    BY PathTypes DEF StoredNames
  <2>2. 0 \in Addresses /\ 0 \in 0..ClusterCount
    BY Parameters DEF Addresses
  <2>. DEFINE wide == n \in Wide \/ n \in Names \X Wide
              r == [used |-> TRUE, surplus |-> FALSE, name |-> n, wide |-> wide, dir |-> FALSE,
                    first |-> 0, len |-> 0]
  <2>3. wide \in BOOLEAN
    OBVIOUS
  <2>4. r = Set(Last(path), FALSE, 0, 0)
    BY <2>1 DEF Set
  <2>. HIDE DEF wide
  <2>5. r \in SlotType /\ r.used /\ ~r.dir /\ r.len = 0
    BY <2>2, <2>3 DEF SlotType
  <2>. HIDE DEF r
  <2>. QED
    BY <2>4, <2>5
<1>6. /\ op' \in OpType /\ op'.pc = "search" /\ op'.kind = "create" /\ op'.dir = DirectoryAt(x)
      /\ op'.set = s
  BY <1>2, <1>4, <1>5, IdleType DEF OpType
<1>7. Types' /\ Struct(ch)' /\ ch[Hand] = <<>> /\ \A p : DirectoryAt(p)' = DirectoryAt(p)
  BY <1>2, <1>6, GoesOn, IdleHand DEF At
<1>8. Making' /\ ~Placed' /\ ~Claimed' /\ ~Releasing'
  BY <1>6 DEF Making, Placed, Claimed, Releasing, At
<1>9. HandIs(ch)'
  BY <1>6, <1>7, <1>8 DEF HandIs, At
<1>10. DirIs(ch)'
  BY <1>3, <1>4, <1>6, <1>7 DEF DirIs
<1>11. CallIs' /\ PlaceIs(ch)' /\ OldIs(ch)'
  BY <1>6, <1>8 DEF CallIs, PlaceIs, OldIs, At
<1>12. SetIs'
  BY <1>5, <1>6 DEF SetIs, At
<1>. QED
  BY <1>7, <1>9, <1>10, <1>11, <1>12, InvHolds DEF Held

LEMMA RemoveInv ==
    ASSUME Types, NEW ch \in Chains, Struct(ch), Held(ch), NEW path \in Paths, Remove(path)
    PROVE  Inv'
<1>1. PICK p \in Places : p = Lookup(path) /\ Live(ch, p)
  BY LookupLast DEF Remove, At, Reachable
<1>2. /\ At("idle") /\ UNCHANGED device /\ MayRemove(p)
      /\ op' = [Idle EXCEPT !.pc = "retire", !.kind = "remove", !.path = path, !.old = p,
                            !.set = SetAt(p)]
  BY <1>1 DEF Remove
<1>3. SetAt(p) \in SlotType
  BY SetTypes
<1>4. /\ op' \in OpType /\ op'.pc = "retire" /\ op'.old = p /\ op'.set = SetAt(p)
  BY <1>2, <1>3, IdleType DEF OpType
<1>5. /\ Types' /\ Struct(ch)' /\ ch[Hand] = <<>> /\ SetAt(p)' = SetAt(p)
      /\ Live(ch, p)' <=> Live(ch, p)
  BY <1>2, <1>4, GoesOn, IdleHand DEF At
<1>6. ~Making' /\ ~Placed' /\ ~Claimed' /\ ~Releasing'
  BY <1>4 DEF Making, Placed, Claimed, Releasing, At
<1>7. HandIs(ch)'
  BY <1>4, <1>5, <1>6 DEF HandIs, At
<1>8. DirIs(ch)' /\ CallIs' /\ PlaceIs(ch)' /\ SetIs'
  BY <1>4, <1>6 DEF DirIs, CallIs, PlaceIs, SetIs, At
<1>9. OldIs(ch)'
  <2>1. Live(ch, p)' /\ op'.old \in Places
    BY <1>1, <1>4, <1>5
  <2>2. Copied'
    <3>1. SetAt(p).used
      BY <1>1 DEF Live
    <3>2. SetAt(op.old)' = SetAt(p)
      BY <1>4, <1>5 DEF SetAt
    <3>. QED
      BY <3>1, <3>2, <1>4 DEF Copied
  <2>3. ASSUME SetAt(p).dir, NEW i \in 1..Len(ch[p]), NEW s \in Slots
        PROVE  ~content'[ch[p][i]][s].used
    <3>1. ch[p] # <<>> /\ ch[p][i] \in Clusters
      BY <1>1, <2>3, PlacesApart, ChainTypes DEF Struct, Records, Recorded
    <3>2. PICK q \in Places : q = <<ch[p][i], s>>
      BY <3>1, PlacesApart
    <3>3. Lies(ch, p, q)
      BY <3>2 DEF Lies, In
    <3>4. FirstEntry(DirectoryAt(p)) = None
      BY <1>2, <2>3 DEF MayRemove
    <3>5. ~SetAt(q).used
      BY <3>1, <3>3, <3>4, NoEntry
    <3>. QED
      BY <3>2, <3>5, <1>2 DEF SetAt, device
  <2>. QED
    BY <2>1, <2>2, <2>3, <1>4, <1>6 DEF OldIs, At
<1>. QED
  BY <1>5, <1>7, <1>8, <1>9, InvHolds DEF Held

LEMMA RenameInv ==
    ASSUME Types, NEW ch \in Chains, Struct(ch), Held(ch), NEW path \in Paths, NEW n \in Names,
           Rename(path, n), "renameShorter" \notin Ops
    PROVE  Inv'
<1>1. PICK p \in Places : p = Lookup(path) /\ Live(ch, p)
  BY LookupLast DEF Rename, At, Reachable
<1>2. PICK x \in {Top} \cup Places : x = Lookup(Parent(path)) /\ ch[x] # <<>> /\ In(ch, x, p[1])
  <2>1. PICK x \in Reachable(ch) : x = Lookup(Parent(path)) /\ p = Below(x, Last(path))
    BY <1>1, LookupLast DEF Rename, At
  <2>2. IsDirectory(x) /\ Lies(ch, x, p)
    BY <1>1, <2>1, BelowLive, PlacesApart DEF Rename, At
  <2>3. x \in {Top} \cup Places /\ ch[x] # <<>>
    BY <2>1, <2>2, LiveDirectory
  <2>. QED
    BY <2>1, <2>2, <2>3 DEF Lies
<1>3. PICK s \in SlotType : s = SetAt(p) /\ s.used
  BY <1>1, SetTypes DEF Live
<1>4. DirectoryAt(x) \in DirType /\ DirectoryAt(x).at = x
  BY <1>2, ClustersAre
<1>5. /\ At("idle") /\ UNCHANGED device
      /\ \/ op' = [Idle EXCEPT !.kind = "rename", !.path = path, !.name = n, !.old = p,
                               !.pc = "search", !.dir = DirectoryAt(x),
                               !.set = Set(Buffered(path, n), s.dir, s.first, s.len)]
         \/ op' = [Idle EXCEPT !.kind = "rename", !.path = path, !.name = n, !.old = p,
                               !.pc = "edit", !.set = s]
      /\ ~Shrinks(s, n)
  BY <1>1, <1>2, <1>3 DEF Rename
<1>6. PICK t \in SlotType : /\ t = Set(Buffered(path, n), s.dir, s.first, s.len)
                            /\ t.used /\ t.dir = s.dir /\ t.first = s.first /\ t.len = s.len
  <2>1. Buffered(path, n) \in StoredNames
    <3>1. CASE Len(path) = 1
      BY <3>1 DEF Buffered, StoredNames
    <3>2. CASE Len(path) # 1
      <4>1. Parent(path) \in Paths
        <5>1. Len(Parent(path)) = Len(path) - 1 /\ Len(path) \in 1..MaxDepth
          BY PathTypes
        <5>2. Len(Parent(path)) # 0
          BY <3>2, <5>1, Parameters
        <5>. QED
          BY <5>2, PathTypes
      <4>2. Last(Parent(path)) \in Names
        BY <4>1, PathTypes
      <4>. QED
        BY <4>2 DEF Buffered, StoredNames
    <3>. QED
      BY <3>1, <3>2
  <2>2. PICK m \in StoredNames : m = Buffered(path, n)
    BY <2>1
  <2>3. s.dir \in BOOLEAN /\ s.first \in Addresses /\ s.len \in 0..ClusterCount
    BY DEF SlotType
  <2>. QED
    BY <2>2, <2>3, SetType
<1>7. PICK r \in SlotType : /\ op'.set = r /\ r.used /\ r.dir = s.dir /\ r.first = s.first
                            /\ r.len = s.len /\ op' \in OpType /\ op'.kind = "rename"
                            /\ op'.old = p /\ op'.name = n
                            /\ \/ op'.pc = "edit" /\ r = s
                               \/ op'.pc = "search" /\ op'.dir = DirectoryAt(x)
  <2>1. CASE op' = [Idle EXCEPT !.kind = "rename", !.path = path, !.name = n, !.old = p,
                                !.pc = "search", !.dir = DirectoryAt(x), !.set = t]
    <3>1. op'.set = t /\ op' \in OpType /\ op'.kind = "rename" /\ op'.old = p /\ op'.name = n
          /\ op'.pc = "search" /\ op'.dir = DirectoryAt(x)
      BY <2>1, <1>4, IdleType DEF OpType
    <3>. QED
      BY <3>1, <1>6
  <2>2. CASE op' = [Idle EXCEPT !.kind = "rename", !.path = path, !.name = n, !.old = p,
                                !.pc = "edit", !.set = s]
    <3>1. op'.set = s /\ op' \in OpType /\ op'.kind = "rename" /\ op'.old = p /\ op'.name = n
          /\ op'.pc = "edit"
      BY <2>2, IdleType DEF OpType
    <3>. QED
      BY <3>1, <1>3
  <2>. QED
    BY <2>1, <2>2, <1>5, <1>6
<1>8. /\ Types' /\ Struct(ch)' /\ ch[Hand] = <<>> /\ SetAt(p)' = SetAt(p)
      /\ Live(ch, p)' /\ In(ch, x, p[1])' /\ DirectoryAt(x)' = DirectoryAt(x)
  BY <1>1, <1>2, <1>5, <1>7, GoesOn, IdleHand DEF At
<1>9. ~Placed' /\ ~Claimed' /\ ~Releasing' /\ (Making' => op'.pc = "search")
  BY <1>7 DEF Making, Placed, Claimed, Releasing, At
<1>10. HandIs(ch)'
  BY <1>7, <1>8, <1>9 DEF HandIs, At
<1>11. DirIs(ch)'
  BY <1>2, <1>4, <1>7, <1>8, <1>9 DEF DirIs, At
<1>12. PlaceIs(ch)' /\ CallIs' /\ SetIs'
  <2>1. op'.pc = "edit" => ~Shrinks(op.set, op.name)'
    <3>1. op'.pc = "edit" => op'.set = s /\ op'.name = n
      BY <1>7
    <3>. QED
      BY <1>5, <3>1 DEF Shrinks
  <2>. QED
    BY <1>7, <1>9, <2>1 DEF PlaceIs, CallIs, SetIs, At
<1>13. OldIs(ch)'
  <2>1. SetAt(op.old)' = s
    BY <1>3, <1>7, <1>8 DEF SetAt
  <2>2. Copied'
    BY <2>1, <1>7 DEF Copied
  <2>3. Making' => op'.dir.at = x
    BY <1>4, <1>7, <1>9
  <2>4. Live(ch, p)' /\ op'.old = p /\ In(ch, x, p[1])
    BY <1>2, <1>7, <1>8
  <2>5. Making' => In(ch, op.dir.at, op.old[1])'
    BY <2>3, <2>4 DEF In
  <2>6. Live(ch, op.old)'
    BY <2>4 DEF Live, SetAt, Hidden
  <2>. QED
    BY <2>2, <2>5, <2>6, <1>7 DEF OldIs, At
<1>. QED
  BY <1>8, <1>10, <1>11, <1>12, <1>13, InvHolds DEF Held

-----------------------------------------------------------------------------
(* The steps that write nothing.                                           *)

LEMMA EndedInv ==
    ASSUME Types, NEW ch \in Chains, Struct(ch), Held(ch), "retireOld" \notin FaultPoints,
           NotDirectory \/ CannotGrow \/ NoSpace \/ Interrupted
    PROVE  Inv'
<1>1. UNCHANGED device /\ op' = Idle /\ ~At("retireOld")
  BY DEF NotDirectory, CannotGrow, NoSpace, Interrupted, At
<1>. QED
  BY <1>1, Stopped

(* Where create_dir_all goes from a component that is there.               *)
LEMMA OnwardType ==
    ASSUME Types, NEW ch \in Chains, Held(ch), At("descend") \/ Making, op.kind = "mkdir",
           NEW d \in DirType, Onward(d)
    PROVE  /\ op' \in OpType
           /\ \/ op' = Idle
              \/ /\ op'.pc = "descend" /\ op'.kind = "mkdir" /\ op'.path = op.path /\ op'.i = op.i + 1
                 /\ op'.dir = d /\ op'.path \in Paths /\ op'.i \in 1..Len(op'.path)
<1>1. CASE op.i = Len(op.path)
  BY <1>1, IdleType DEF Onward
<1>2. CASE op.i # Len(op.path)
  <2>1. op.path \in Paths /\ op.i \in 1..Len(op.path)
    BY DEF Held, CallIs
  <2>2. Len(op.path) \in Nat
    BY <2>1, PathTypes
  <2>3. op.i + 1 \in Nat /\ op.i + 1 \in 1..Len(op.path)
    BY <1>2, <2>1, <2>2
  <2>4. op' = [Idle EXCEPT !.pc = "descend", !.kind = "mkdir", !.path = op.path, !.i = op.i + 1,
                           !.dir = d]
    BY <1>2 DEF Onward
  <2>5. /\ op' \in OpType /\ op'.pc = "descend" /\ op'.kind = "mkdir" /\ op'.path = op.path
        /\ op'.i = op.i + 1 /\ op'.dir = d
    BY <2>1, <2>3, <2>4, IdleType DEF OpType
  <2>. QED
    BY <2>1, <2>3, <2>5
<1>. QED
  BY <1>1, <1>2

(* What holds when it has gone there.                                      *)
LEMMA OnwardHeld ==
    ASSUME NEW w \in Chains, w[Hand] = <<>>, NEW p \in Places, w[p] # <<>>,
           op'.pc = "descend", op'.kind = "mkdir", op'.path \in Paths, op'.i \in 1..Len(op'.path),
           op'.dir = DirectoryAt(p)'
    PROVE  Held(w)'
<1>1. ~Making' /\ ~Placed' /\ ~Claimed' /\ ~Releasing'
  BY DEF Making, Placed, Claimed, Releasing, At
<1>2. HandIs(w)'
  BY <1>1 DEF HandIs, At
<1>3. op'.dir.at = p
  BY PlacesApart DEF DirectoryAt
<1>4. DirIs(w)'
  <2>1. op'.dir = DirectoryAt(op.dir.at)'
    BY <1>3 DEF DirectoryAt, SetAt
  <2>. QED
    BY <1>3, <2>1 DEF DirIs
<1>5. PlaceIs(w)' /\ CallIs' /\ SetIs' /\ OldIs(w)'
  BY <1>1 DEF PlaceIs, CallIs, SetIs, OldIs, At
<1>. QED
  BY <1>2, <1>4, <1>5 DEF Held

LEMMA DescendInv ==
    ASSUME Types, NEW ch \in Chains, Struct(ch), Held(ch), Descend
    PROVE  Inv'
<1>1. PICK q : q = Child
  OBVIOUS
<1>2. At("descend") /\ IsDirectory(q) /\ Onward(DirectoryAt(q)) /\ UNCHANGED device
  BY <1>1 DEF Descend
<1>3. PICK x \in {Top} \cup Places : x = op.dir.at /\ ch[x] # <<>> /\ op.dir = DirectoryAt(x)
  BY <1>2, DirectoryIs
<1>4. q # None
  BY <1>2, PlacesApart DEF IsDirectory
<1>5. Lies(ch, x, q) /\ SetAt(q).used
  <2>1. PICK n : n = op.path[op.i]
    OBVIOUS
  <2>2. q = FindChild(DirectoryAt(x), n)
    BY <1>1, <1>3, <2>1 DEF Child
  <2>. QED
    BY <1>3, <1>4, <2>2, ChildFound
<1>6. Live(ch, q) /\ q \in Places
  BY <1>2, <1>5, PlacesApart, LiesLive DEF Hidden, At
<1>7. ch[q] # <<>>
  BY <1>2, <1>6, LiveDirectory, PlacesApart DEF Reachable
<1>8. PICK d \in DirType : d = DirectoryAt(q)
  BY <1>6, <1>7, ClustersAre
<1>9. op.kind = "mkdir" /\ ch[Hand] = <<>>
  BY <1>2, IdleHand DEF Held, CallIs, At
<1>10. /\ op' \in OpType
       /\ \/ op' = Idle
          \/ /\ op'.pc = "descend" /\ op'.kind = "mkdir" /\ op'.dir = d
             /\ op'.path \in Paths /\ op'.i \in 1..Len(op'.path)
  BY <1>2, <1>8, <1>9, OnwardType
<1>11. /\ Types' /\ Struct(ch)'
       /\ DirectoryAt(q)' = DirectoryAt(q)
  BY <1>2, <1>10, GoesOn, IdleType DEF At
<1>12. Held(ch)'
  BY <1>6, <1>7, <1>8, <1>9, <1>10, <1>11, IdleHeld, OnwardHeld
<1>. QED
  BY <1>11, <1>12, InvHolds

LEMMA MissingInv ==
    ASSUME Types, NEW ch \in Chains, Struct(ch), Held(ch), Missing
    PROVE  Inv'
<1>1. At("descend") /\ UNCHANGED device /\ op' = [op EXCEPT !.pc = "search"]
  BY DEF Missing
<1>2. PICK x \in {Top} \cup Places : x = op.dir.at /\ ch[x] # <<>> /\ op.dir = DirectoryAt(x)
  BY <1>1, DirectoryIs
<1>3. /\ op.kind = "mkdir" /\ ch[Hand] = <<>> /\ op.path \in Paths /\ op.i \in 1..Len(op.path)
  BY <1>1, IdleHand DEF Held, CallIs, At
<1>4. /\ op' \in OpType /\ op'.pc = "search" /\ op'.dir = op.dir /\ op'.kind = op.kind
      /\ op'.path = op.path /\ op'.i = op.i
  BY <1>1 DEF Types, OpType
<1>5. Types' /\ Struct(ch)' /\ DirectoryAt(x)' = DirectoryAt(x)
  BY <1>1, <1>4, GoesOn DEF At
<1>6. Making' /\ ~Placed' /\ ~Claimed' /\ ~Releasing'
  BY <1>4 DEF Making, Placed, Claimed, Releasing, At
<1>7. HandIs(ch)'
  BY <1>3, <1>4, <1>6 DEF HandIs, At
<1>8. DirIs(ch)'
  <2>1. op'.dir = DirectoryAt(op.dir.at)'
    BY <1>2, <1>4, <1>5 DEF DirectoryAt, SetAt
  <2>. QED
    BY <1>2, <1>4, <2>1 DEF DirIs
<1>9. PlaceIs(ch)' /\ CallIs' /\ SetIs' /\ OldIs(ch)'
  BY <1>3, <1>4, <1>6 DEF PlaceIs, CallIs, SetIs, OldIs, At
<1>. QED
  BY <1>5, <1>7, <1>8, <1>9, InvHolds DEF Held

(* What the middle of an operation leaves as it is.                         *)
Same == /\ op'.kind = op.kind /\ op'.path = op.path /\ op'.i = op.i /\ op'.name = op.name
        /\ op'.old = op.old

LEMMA SearchInv ==
    ASSUME Types, NEW ch \in Chains, Struct(ch), Held(ch), Search
    PROVE  Inv'
<1>1. PICK q : q = FreeSlot(op.dir)
  OBVIOUS
<1>2. /\ At("search") /\ q # None /\ UNCHANGED device
      /\ op' = [op EXCEPT !.pc = AfterSearch, !.place = q]
  BY <1>1 DEF Search
<1>3. PICK x \in {Top} \cup Places : x = op.dir.at /\ ch[x] # <<>> /\ op.dir = DirectoryAt(x)
  BY <1>2, DirectoryIs DEF Making, At
<1>4. Lies(ch, x, q) /\ ~SetAt(q).used
  BY <1>1, <1>2, <1>3, FreeFound
<1>5. q \in Places /\ In(ch, x, q[1])
  BY <1>4 DEF Lies
<1>6. ch[Hand] = <<>>
  BY <1>2, IdleHand DEF At
<1>7. AfterSearch \in {"claim", "write"} /\ (AfterSearch = "claim" <=> op.kind = "mkdir")
  BY DEF AfterSearch
<1>8. /\ op' \in OpType /\ op'.pc = AfterSearch /\ op'.place = q /\ op'.dir = op.dir /\ op'.set = op.set
      /\ Same
  BY <1>2, <1>5, <1>7 DEF Types, OpType, Same
<1>9. /\ Types' /\ Struct(ch)' /\ DirectoryAt(x)' = DirectoryAt(x) /\ SetAt(q)' = SetAt(q)
      /\ \A p : SetAt(p)' = SetAt(p)
      /\ \A p : Live(ch, p)' <=> Live(ch, p)
  BY <1>2, <1>7, <1>8, GoesOn DEF At
<1>10. Making /\ Making' /\ ~Claimed' /\ ~Releasing'
  BY <1>2, <1>7, <1>8 DEF Making, Claimed, Releasing, At, Same
<1>11. HandIs(ch)'
  BY <1>6, <1>7, <1>8, <1>10 DEF HandIs, At
<1>12. DirIs(ch)'
  <2>1. op'.dir = DirectoryAt(op.dir.at)'
    BY <1>3, <1>8, <1>9 DEF DirectoryAt, SetAt
  <2>. QED
    BY <1>3, <1>8, <2>1 DEF DirIs
<1>13. PlaceIs(ch)'
  <2>1. ~SetAt(op.place)'.used
    BY <1>4, <1>8, <1>9 DEF SetAt
  <2>2. op'.dir.at = x /\ op'.place = q
    BY <1>3, <1>8
  <2>3. In(ch, op.dir.at, op.place[1])'
    BY <1>5, <2>2 DEF In
  <2>. QED
    BY <1>5, <2>1, <2>2, <2>3 DEF PlaceIs
<1>14. CallIs' /\ SetIs'
  BY <1>2, <1>7, <1>8, <1>10 DEF Held, CallIs, SetIs, Placed, At, Same
<1>15. OldIs(ch)'
  <2>1. ASSUME op.kind = "rename" PROVE op.old \in Places /\ Live(ch, op.old) /\ Copied
                                        /\ In(ch, op.dir.at, op.old[1])
    BY <2>1, <1>10 DEF Held, OldIs
  <2>2. ASSUME op.kind = "rename" PROVE op'.old \in Places /\ Live(ch, op.old)' /\ Copied'
                                        /\ In(ch, op.dir.at, op.old[1])'
    <3>1. SetAt(op.old)' = SetAt(op.old)
      BY <1>8, <1>9 DEF SetAt, Same
    <3>2. Live(ch, op.old)'
      BY <2>1, <2>2, <1>8, <1>9 DEF Same, Live, SetAt, Hidden
    <3>. QED
      BY <2>1, <2>2, <3>1, <3>2, <1>8 DEF Same, Copied, In
  <2>. QED
    BY <2>2, <1>7, <1>8 DEF OldIs, Same, At
<1>. QED
  BY <1>9, <1>11, <1>12, <1>13, <1>14, <1>15, InvHolds DEF Held

-----------------------------------------------------------------------------
(* The steps that make room.                                               *)

(* The set to be renamed is there still.                                   *)
OldStays(w, x, o) == Live(w, o)' /\ Alike(o) /\ In(w, x, o[1])

LEMMA OldIsThere ==
    ASSUME Types, NEW ch \in Chains, Held(ch), Making, op.kind = "rename"
    PROVE  /\ op.old \in Places /\ Live(ch, op.old) /\ Copied
           /\ In(ch, op.dir.at, op.old[1])
BY DEF Held, OldIs

LEMMA MakingHeld ==
    ASSUME Types, NEW ch \in Chains, Held(ch), Making, NEW w \in Chains,
           NEW x \in {Top} \cup Places, w[x] # <<>>, op.dir.at = x,
           NEW o, o = op.old, op.kind = "rename" => OldStays(w, x, o),
           Same, op'.set = op.set, op'.pc \in {"search", "claim", "mark", "terminate", "link", "length"},
           op'.dir = DirectoryAt(x)'
    PROVE  DirIs(w)' /\ OldIs(w)' /\ SetIs'
<1>1. Making' /\ ~At("write")' /\ ~At("edit")' /\ ~At("retire")' /\ ~At("retireOld")'
  BY DEF Making, At
<1>2. op'.dir.at = x
  BY PlacesApart DEF DirectoryAt
<1>3. DirIs(w)'
  <2>1. op'.dir = DirectoryAt(op.dir.at)'
    BY <1>2 DEF DirectoryAt, SetAt
  <2>. QED
    BY <1>2, <2>1 DEF DirIs
<1>4. SetIs'
  BY <1>1 DEF Held, SetIs, Same
<1>5. OldIs(w)'
  <2>1. ASSUME op.kind = "rename" PROVE op'.old \in Places /\ Live(w, op.old)' /\ Copied'
                                        /\ In(w, op.dir.at, op.old[1])'
    <3>1. o \in Places /\ Live(ch, o) /\ Copied
      BY <2>1, OldIsThere
    <3>2. Live(w, o)' /\ Alike(o) /\ In(w, x, o[1])
      BY <2>1 DEF OldStays
    <3>3. op'.old = o
      BY DEF Same
    <3>4. Live(w, op.old)'
      BY <3>2, <3>3 DEF Live, SetAt, Hidden
    <3>5. SetAt(op.old)' = SetAt(o)'
      BY <3>3 DEF SetAt
    <3>6. Copied'
      BY <3>1, <3>2, <3>5 DEF Copied, Alike
    <3>7. In(w, op.dir.at, op.old[1])'
      BY <3>2, <3>3, <1>2 DEF In
    <3>. QED
      BY <3>1, <3>3, <3>4, <3>6, <3>7
  <2>2. op'.kind = op.kind
    BY DEF Same
  <2>. QED
    BY <2>1, <2>2, <1>1 DEF OldIs, At
<1>. QED
  BY <1>3, <1>4, <1>5

LEMMA GrowInv ==
    ASSUME Types, NEW ch \in Chains, Struct(ch), Held(ch), Grow
    PROVE  Inv'
<1>1. At("search") /\ UNCHANGED device /\ op' = [op EXCEPT !.pc = "claim", !.growing = TRUE]
  BY DEF Grow
<1>2. Making
  BY <1>1 DEF Making, At
<1>3. PICK x \in {Top} \cup Places : x = op.dir.at /\ ch[x] # <<>> /\ op.dir = DirectoryAt(x)
  BY <1>2, DirectoryIs
<1>4. /\ op' \in OpType /\ op'.pc = "claim" /\ op'.growing /\ op'.dir = op.dir /\ op'.set = op.set
      /\ Same
  BY <1>1 DEF Types, OpType, Same
<1>5. /\ Types' /\ Struct(ch)' /\ DirectoryAt(x)' = DirectoryAt(x)
      /\ \A p : SetAt(p)' = SetAt(p)
      /\ \A p : Live(ch, p)' <=> Live(ch, p)
  BY <1>1, <1>4, GoesOn DEF At
<1>6. ch[Hand] = <<>>
  BY <1>1, IdleHand DEF At
<1>7. PICK o : o = op.old
  OBVIOUS
<1>8. op.kind = "rename" => OldStays(ch, x, o)
  BY <1>2, <1>3, <1>5, <1>7, OldIsThere DEF OldStays, Alike
<1>9. DirIs(ch)' /\ OldIs(ch)' /\ SetIs'
  BY <1>2, <1>3, <1>4, <1>5, <1>7, <1>8, MakingHeld
<1>10. ~Placed' /\ ~Claimed' /\ ~Releasing'
  BY <1>4 DEF Placed, Claimed, Releasing, At
<1>11. HandIs(ch)' /\ PlaceIs(ch)'
  BY <1>4, <1>6, <1>10 DEF HandIs, PlaceIs, At
<1>12. CallIs'
  BY <1>2, <1>4, <1>10 DEF Held, CallIs, At, Same
<1>. QED
  BY <1>5, <1>9, <1>11, <1>12, InvHolds DEF Held

(* What is placed stays where it is.                                       *)
LEMMA PlaceHeld ==
    ASSUME Types, NEW ch \in Chains, Held(ch), NEW w \in Chains, NEW x, x = op.dir.at, x = op'.dir.at,
           Placed' => Placed, op'.place = op.place, NEW q, q = op.place,
           Placed => In(w, x, q[1]) /\ SetAt(q)' = SetAt(q)
    PROVE  PlaceIs(w)'
<1>. SUFFICES ASSUME Placed'
              PROVE  op'.place \in Places /\ In(w, op.dir.at, op.place[1])' /\ ~SetAt(op.place)'.used
  BY DEF PlaceIs
<1>1. q \in Places /\ ~SetAt(q).used /\ In(w, x, q[1]) /\ SetAt(q)' = SetAt(q) /\ op'.place = q
  BY DEF Held, PlaceIs
<1>2. SetAt(op.place)' = SetAt(q)
  BY <1>1 DEF SetAt
<1>. QED
  BY <1>1, <1>2 DEF In

LEMMA ClaimInv ==
    ASSUME Types, NEW ch \in Chains, Struct(ch), Held(ch), Claim
    PROVE  Inv'
<1>1. PICK c \in Clusters : /\ op'.new = c /\ Taken(ch, c) \in Chains /\ Struct(Taken(ch, c))'
                            /\ ~Anywhere(ch, c) /\ Taken(ch, c)[Hand] = <<c>>
                            /\ SameElsewhere(ch, Taken(ch, c), {Hand})
                            /\ \A p \in Places : p[1] # c => SetAt(p)' = SetAt(p)
  BY ClaimStruct
<1>2. PICK w \in Chains : w = Taken(ch, c)
  BY <1>1
<1>3. /\ Struct(w)' /\ w[Hand] = <<c>> /\ SameElsewhere(ch, w, {Hand})
      /\ \A d : In(ch, Hand, d) => FALSE
  <2>1. ch[Hand] = <<>>
    BY IdleHand DEF Claim, At
  <2>. QED
    BY <1>1, <1>2, <2>1 DEF In
<1>4. \A p \in Dirs \ {Hand} : w[p] = ch[p]
  BY <1>3 DEF SameElsewhere
<1>5. PICK d \in FreeBits : content' = Zeroed(d) /\ op' = [op EXCEPT !.pc = "mark", !.new = d]
  BY DEF Claim
<1>6. /\ At("claim") /\ fat' = fat /\ used' = used /\ d \in Clusters
      /\ op' \in OpType /\ op'.pc = "mark" /\ op'.new = d /\ op'.dir = op.dir /\ op'.set = op.set
      /\ op'.place = op.place /\ op'.growing = op.growing /\ Same
  BY <1>5 DEF Claim, FreeBits, Types, OpType, Same, Addresses
<1>7. d = c
  BY <1>1, <1>6
<1>8. Types'
  <2>1. EmptyCluster \in [Slots -> SlotType] /\ \A s \in Slots : EmptyCluster[s] = NoSet
    BY NoSetType DEF EmptyCluster, Slots
  <2>2. /\ content' \in [Clusters -> [Slots -> SlotType]] /\ content'[d] = EmptyCluster
        /\ \A e \in Clusters \ {d} : content'[e] = content[e]
    BY <2>1, <1>5, <1>6 DEF Zeroed, Types
  <2>3. \A e \in Clusters : \A s \in Slots : SetFits(content'[e][s])
    BY <2>1, <2>2, NoSetType DEF Types
  <2>. QED
    BY <2>2, <2>3, <1>6 DEF Types, SetFits
<1>9. Making
  BY <1>6 DEF Making, At
<1>10. PICK x \in {Top} \cup Places : x = op.dir.at /\ ch[x] # <<>> /\ op.dir = DirectoryAt(x)
  BY <1>9, DirectoryIs
<1>11. x \in Dirs \ {Hand} /\ w[x] = ch[x]
  BY <1>4, <1>10, PlacesApart
<1>12. \A e : In(ch, x, e) => In(w, x, e) /\ e # c
  BY <1>1, <1>11 DEF In, Anywhere
<1>13. DirectoryAt(x)' = DirectoryAt(x)
  <2>1. CASE x = Top
    BY <2>1 DEF DirectoryAt
  <2>2. CASE x \in Places
    <3>1. x[1] # c
      BY <2>2, <1>1, <1>10 DEF Struct, Records, Live
    <3>. QED
      BY <2>2, <3>1, <1>1 DEF DirectoryAt
  <2>. QED
    BY <2>1, <2>2
<1>14. PICK o : o = op.old
  OBVIOUS
<1>15. op.kind = "rename" => OldStays(w, x, o)
  <2>1. SUFFICES ASSUME op.kind = "rename" PROVE OldStays(w, x, o)
    OBVIOUS
  <2>2. o \in Places /\ Live(ch, o) /\ In(ch, x, o[1])
    BY <2>1, <1>9, <1>10, <1>14, OldIsThere
  <2>3. In(w, x, o[1]) /\ SetAt(o)' = SetAt(o)
    BY <2>2, <1>1, <1>12
  <2>4. Live(w, o)'
    <3>1. Anywhere(w, o[1])'
      BY <2>3, <1>11 DEF Anywhere, In
    <3>2. ~Hidden(o)'
      BY <1>6 DEF Hidden, At
    <3>. QED
      BY <3>1, <3>2, <2>2, <2>3 DEF Live
  <2>. QED
    BY <2>3, <2>4 DEF OldStays, Alike
<1>16. DirIs(w)' /\ OldIs(w)' /\ SetIs'
  BY <1>6, <1>9, <1>10, <1>11, <1>13, <1>14, <1>15, MakingHeld
<1>17. Claimed' /\ ~Releasing' /\ (Placed' <=> Placed) /\ ~At("write")' /\ ~At("write")
  BY <1>6 DEF Claimed, Releasing, Placed, At
<1>18. HandIs(w)'
  BY <1>3, <1>6, <1>7, <1>17 DEF HandIs, At
<1>19. PlaceIs(w)'
  <2>1. PICK q : q = op.place
    OBVIOUS
  <2>2. Placed => In(w, x, q[1]) /\ SetAt(q)' = SetAt(q)
    BY <2>1, <1>1, <1>10, <1>12 DEF Held, PlaceIs
  <2>. QED
    BY <2>1, <2>2, <1>6, <1>10, <1>17, PlaceHeld
<1>20. CallIs'
  BY <1>6, <1>9, <1>17 DEF Held, CallIs, At, Same
<1>. QED
  BY <1>3, <1>8, <1>16, <1>18, <1>19, <1>20, InvHolds DEF Held

LEMMA MarkUsedInv ==
    ASSUME Types, NEW ch \in Chains, Struct(ch), Held(ch), MarkUsed
    PROVE  Inv'
<1>1. /\ At("mark") /\ UNCHANGED <<content, fat>> /\ used' = used \cup {op.new}
      /\ op' = [op EXCEPT !.pc = "terminate"]
  BY DEF MarkUsed
<1>2. Struct(ch)'
  BY MarkUsedStruct
<1>3. op.new \in Clusters /\ ch[Hand] = <<op.new>>
  BY <1>1 DEF Held, HandIs, Claimed, At
<1>4. /\ op' \in OpType /\ op'.pc = "terminate" /\ op'.new = op.new /\ op'.dir = op.dir
      /\ op'.set = op.set /\ op'.place = op.place /\ op'.growing = op.growing /\ Same
  BY <1>1 DEF Types, OpType, Same
<1>5. Types'
  BY <1>1, <1>3, <1>4 DEF Types, SetFits
<1>6. \A p : SetAt(p)' = SetAt(p) /\ ~Hidden(p) /\ ~Hidden(p)'
  BY <1>1, <1>4 DEF SetAt, Hidden, At
<1>7. \A p : Live(ch, p)' <=> Live(ch, p)
  BY <1>6 DEF Live
<1>8. Making
  BY <1>1 DEF Making, At
<1>9. PICK x \in {Top} \cup Places : x = op.dir.at /\ ch[x] # <<>> /\ op.dir = DirectoryAt(x)
  BY <1>8, DirectoryIs
<1>10. DirectoryAt(x)' = DirectoryAt(x)
  BY <1>6 DEF DirectoryAt
<1>11. PICK o : o = op.old
  OBVIOUS
<1>12. op.kind = "rename" => OldStays(ch, x, o)
  BY <1>6, <1>7, <1>8, <1>9, <1>11, OldIsThere DEF OldStays, Alike
<1>13. DirIs(ch)' /\ OldIs(ch)' /\ SetIs'
  BY <1>4, <1>8, <1>9, <1>10, <1>11, <1>12, MakingHeld
<1>14. Claimed' /\ ~Releasing' /\ (Placed' <=> Placed) /\ ~At("write")' /\ ~At("write")
  BY <1>1, <1>4 DEF Claimed, Releasing, Placed, At
<1>15. HandIs(ch)'
  BY <1>3, <1>4, <1>14 DEF HandIs, At
<1>16. PlaceIs(ch)'
  <2>1. PICK q : q = op.place
    OBVIOUS
  <2>2. Placed => In(ch, x, q[1]) /\ SetAt(q)' = SetAt(q)
    BY <2>1, <1>6, <1>9 DEF Held, PlaceIs
  <2>. QED
    BY <2>1, <2>2, <1>4, <1>9, <1>14, PlaceHeld
<1>17. CallIs'
  BY <1>4, <1>8, <1>14 DEF Held, CallIs, At, Same
<1>. QED
  BY <1>2, <1>5, <1>13, <1>15, <1>16, <1>17, InvHolds DEF Held

LEMMA TerminateInv ==
    ASSUME Types, NEW ch \in Chains, Struct(ch), Held(ch), Terminate
    PROVE  Inv'
<1>1. /\ At("terminate") /\ UNCHANGED <<content, used>> /\ fat' = [fat EXCEPT ![op.new] = EndOfChain]
      /\ op' = IF op.growing THEN [op EXCEPT !.pc = "link"]
               ELSE [op EXCEPT !.pc = "write", !.set = NewDirectory]
  BY DEF Terminate
<1>2. Struct(ch)' /\ fat'[op.new] = EndOfChain
  BY TerminateStruct
<1>3. op.new \in Clusters /\ ch[Hand] = <<op.new>>
  BY <1>1 DEF Held, HandIs, Claimed, At
<1>4. fat' \in [Clusters -> Addresses \cup {EndOfChain}]
  BY <1>1 DEF Types
<1>5. \A p : SetAt(p)' = SetAt(p) /\ ~Hidden(p)
  BY <1>1 DEF SetAt, Hidden, At
<1>6. Making
  BY <1>1 DEF Making, At
<1>7. PICK x \in {Top} \cup Places : x = op.dir.at /\ ch[x] # <<>> /\ op.dir = DirectoryAt(x)
  BY <1>6, DirectoryIs
<1>8. DirectoryAt(x)' = DirectoryAt(x)
  BY <1>5 DEF DirectoryAt
<1>9. CASE op.growing
  <2>1. /\ op' \in OpType /\ op'.pc = "link" /\ op'.new = op.new /\ op'.dir = op.dir
        /\ op'.set = op.set /\ op'.growing /\ Same
    BY <1>1, <1>9 DEF Types, OpType, Same
  <2>2. Types'
    BY <1>1, <1>4, <2>1 DEF Types, SetFits
  <2>3. PICK o : o = op.old
    OBVIOUS
  <2>4. \A p : Live(ch, p)' <=> Live(ch, p)
    BY <1>5, <2>1 DEF Live, Hidden, At
  <2>5. op.kind = "rename" => OldStays(ch, x, o)
    BY <1>5, <1>6, <1>7, <2>3, <2>4, OldIsThere DEF OldStays, Alike
  <2>6. DirIs(ch)' /\ OldIs(ch)' /\ SetIs'
    BY <1>6, <1>7, <1>8, <2>1, <2>3, <2>5, MakingHeld
  <2>7. Claimed' /\ ~Releasing' /\ ~Placed'
    BY <2>1 DEF Claimed, Releasing, Placed, At
  <2>8. HandIs(ch)'
    BY <1>2, <1>3, <2>1, <2>7, Parameters DEF HandIs, At
  <2>9. PlaceIs(ch)' /\ CallIs'
    BY <1>6, <2>1, <2>7 DEF Held, PlaceIs, CallIs, At, Same
  <2>. QED
    BY <1>2, <2>2, <2>6, <2>8, <2>9, InvHolds DEF Held
<1>10. CASE ~op.growing
  <2>1. op.kind = "mkdir" /\ Placed /\ op.path \in Paths /\ op.i \in 1..Len(op.path)
    BY <1>1, <1>6, <1>10 DEF Held, CallIs, Placed, At
  <2>2. PICK s : /\ s \in SlotType /\ s = NewDirectory /\ s.used /\ s.dir /\ s.first = op.new
                 /\ s.len = 1
    <3>. DEFINE n == op.path[op.i]
                wide == n \in Wide \/ n \in Names \X Wide
                r == [used |-> TRUE, surplus |-> FALSE, name |-> n, wide |-> wide, dir |-> TRUE,
                      first |-> op.new, len |-> 1]
    <3>1. n \in StoredNames
      BY <2>1, PathTypes DEF StoredNames
    <3>2. wide \in BOOLEAN
      OBVIOUS
    <3>3. r = NewDirectory
      BY DEF NewDirectory, Set
    <3>4. op.new \in Addresses /\ 1 \in 0..ClusterCount
      BY <1>3, Parameters DEF Addresses
    <3>. HIDE DEF n, wide
    <3>5. r \in SlotType /\ r.used /\ r.dir /\ r.first = op.new /\ r.len = 1
      BY <3>1, <3>2, <3>4 DEF SlotType
    <3>. HIDE DEF r
    <3>. QED
      BY <3>3, <3>5
  <2>3. op' = [op EXCEPT !.pc = "write", !.set = s]
    BY <1>1, <1>10, <2>2
  <2>4. /\ op' \in OpType /\ op'.pc = "write" /\ op'.new = op.new /\ op'.dir = op.dir
        /\ op'.set = s /\ op'.place = op.place /\ Same
    BY <2>2, <2>3 DEF Types, OpType, Same
  <2>5. Types'
    BY <1>1, <1>4, <2>4 DEF Types, SetFits
  <2>6. Claimed' /\ ~Releasing' /\ Placed' /\ op'.kind = "mkdir" /\ Making'
    BY <2>1, <2>4 DEF Claimed, Releasing, Placed, Making, At, Same
  <2>7. HandIs(ch)'
    BY <1>3, <2>4, <2>6 DEF HandIs, At
  <2>8. DirIs(ch)'
    <3>1. op'.dir = DirectoryAt(op.dir.at)'
      BY <1>7, <1>8, <2>4 DEF DirectoryAt, SetAt
    <3>. QED
      BY <1>7, <2>4, <3>1 DEF DirIs
  <2>9. PlaceIs(ch)'
    <3>1. PICK q : q = op.place
      OBVIOUS
    <3>2. Placed => In(ch, x, q[1]) /\ SetAt(q)' = SetAt(q)
      BY <3>1, <1>5, <1>7 DEF Held, PlaceIs
    <3>. QED
      BY <3>1, <3>2, <2>1, <2>4, <1>7, PlaceHeld
  <2>10. CallIs'
    BY <2>1, <2>4, <2>6 DEF CallIs, At, Same
  <2>11. SetIs'
    BY <2>2, <2>4, <2>6 DEF SetIs, At
  <2>12. OldIs(ch)'
    BY <2>4, <2>6 DEF OldIs, At
  <2>. QED
    BY <1>2, <2>5, <2>7, <2>8, <2>9, <2>10, <2>11, <2>12, InvHolds DEF Held
<1>. QED
  BY <1>9, <1>10

LEMMA LinkInv ==
    ASSUME Types, NEW ch \in Chains, Struct(ch), Held(ch), Link
    PROVE  Inv'
<1>1. Making /\ At("link")
  BY DEF Link, Making, At
<1>2. PICK x \in {Top} \cup Places :
          /\ x = op.dir.at /\ x \in Dirs /\ ch[x] # <<>> /\ op.dir = DirectoryAt(x)
          /\ LastOf(op.dir) = ch[x][Len(ch[x])] /\ (op.dir.len = 0 <=> x = Top)
  BY <1>1, DirectoryIs
<1>3. /\ UNCHANGED <<content, used>> /\ fat' = [fat EXCEPT ![LastOf(op.dir)] = op.new]
      /\ op' = IF op.dir.len # 0 THEN [op EXCEPT !.pc = "length"]
               ELSE [op EXCEPT !.pc = "search", !.growing = FALSE, !.new = 0]
  BY DEF Link
<1>4. op.new \in Clusters /\ ch[Hand] = <<op.new>> /\ op.growing
  BY <1>1 DEF Held, HandIs, Claimed, CallIs, At
<1>5. fat' \in [Clusters -> Addresses \cup {EndOfChain}]
  <2>1. LastOf(op.dir) \in Clusters
    BY ZenonT(40), <1>2, ChainTypes
  <2>. QED
    BY <2>1, <1>3, <1>4 DEF Types, Addresses
<1>6. \A p : SetAt(p)' = SetAt(p) /\ ~Hidden(p) /\ ~Hidden(p)'
  BY <1>1, <1>3 DEF SetAt, Hidden, At, Types, OpType
<1>7. DirectoryAt(x)' = DirectoryAt(x)
  BY <1>6 DEF DirectoryAt
<1>8. PICK o : o = op.old
  OBVIOUS
<1>9. CASE op.dir.len # 0
  <2>1. /\ op' \in OpType /\ op'.pc = "length" /\ op'.new = op.new /\ op'.dir = op.dir
        /\ op'.set = op.set /\ op'.growing = op.growing /\ Same
    BY <1>3, <1>9 DEF Types, OpType, Same
  <2>2. Types'
    BY <1>3, <1>5, <2>1 DEF Types, SetFits
  <2>3. Struct(ch)' /\ fat'[ch[x][Len(ch[x])]] = op.new
    BY <1>2, <1>9, LinkStruct
  <2>4. \A p : Live(ch, p)' <=> Live(ch, p)
    BY <1>6 DEF Live
  <2>5. op.kind = "rename" => OldStays(ch, x, o)
    BY <1>1, <1>2, <1>6, <1>8, <2>4, OldIsThere DEF OldStays, Alike
  <2>6. DirIs(ch)' /\ OldIs(ch)' /\ SetIs'
    BY <1>1, <1>2, <1>7, <1>8, <2>1, <2>5, MakingHeld
  <2>7. Claimed' /\ ~Releasing' /\ ~Placed'
    BY <2>1 DEF Claimed, Releasing, Placed, At
  <2>8. HandIs(ch)'
    <3>1. op'.dir.at # Top /\ fat'[ch[op'.dir.at][Len(ch[op'.dir.at])]] = op'.new
      BY <1>2, <1>9, <2>1, <2>3
    <3>. QED
      BY <1>4, <2>1, <2>7, <3>1 DEF HandIs, At
  <2>9. PlaceIs(ch)' /\ CallIs'
    BY <1>1, <1>4, <2>1, <2>7 DEF Held, PlaceIs, CallIs, At, Same
  <2>. QED
    BY <2>2, <2>3, <2>6, <2>8, <2>9, InvHolds DEF Held
<1>10. CASE op.dir.len = 0
  <2>1. x = Top /\ op' = [op EXCEPT !.pc = "search", !.growing = FALSE, !.new = 0]
    BY <1>2, <1>3, <1>10
  <2>2. /\ op' \in OpType /\ op'.pc = "search" /\ op'.dir = op.dir
        /\ op'.set = op.set /\ Same
    BY <2>1, Parameters DEF Types, OpType, Same, Addresses
  <2>3. Types'
    BY <1>3, <1>5, <2>2 DEF Types, SetFits
  <2>4. PICK w \in Chains : /\ w = Attached(ch, Top) /\ Struct(w)' /\ w[Hand] = <<>>
                            /\ SameClusters(ch, w) /\ w[Top] # <<>>
                            /\ \A d : In(ch, Top, d) => In(w, Top, d)
    BY <1>10, LinkStruct
  <2>5. \A p : Live(w, p)' <=> Live(ch, p)
    <3>1. \A d : Anywhere(w, d)' <=> Anywhere(w, d)
      BY DEF Anywhere, In
    <3>. QED
      BY <3>1, <2>4, <1>6 DEF Live, SameClusters
  <2>6. op.kind = "rename" => OldStays(w, x, o)
    BY <1>1, <1>2, <1>6, <1>8, <2>1, <2>4, <2>5, OldIsThere DEF OldStays, Alike
  <2>7. DirIs(w)' /\ OldIs(w)' /\ SetIs'
    BY <1>1, <1>2, <1>7, <1>8, <2>1, <2>2, <2>4, <2>6, MakingHeld
  <2>8. ~Claimed' /\ ~Releasing' /\ ~Placed'
    BY <2>2 DEF Claimed, Releasing, Placed, At
  <2>9. HandIs(w)' /\ PlaceIs(w)' /\ CallIs'
    BY <1>1, <2>2, <2>4, <2>8 DEF Held, HandIs, PlaceIs, CallIs, At, Same
  <2>. QED
    BY <2>3, <2>4, <2>7, <2>9, InvHolds DEF Held
<1>. QED
  BY <1>9, <1>10

LEMMA RecordLengthInv ==
    ASSUME Types, NEW ch \in Chains, Struct(ch), Held(ch), RecordLength
    PROVE  Inv'
<1>1. Making /\ At("length")
  BY DEF RecordLength, Making, At
<1>2. PICK x \in {Top} \cup Places : x = op.dir.at /\ ch[x] # <<>> /\ op.dir = DirectoryAt(x)
  BY <1>1, DirectoryIs
<1>3. PICK w \in Chains : w = Attached(ch, x)
  BY <1>2, RecordLengthStruct
<1>4. /\ Struct(w)' /\ w[Hand] = <<>> /\ SameClusters(ch, w) /\ w[x] # <<>>
      /\ \A d : In(ch, x, d) => In(w, x, d)
      /\ x \in Places /\ Others(x) /\ op.dir.len + 1 \in 0..ClusterCount
      /\ content' \in [Clusters -> [Slots -> SlotType]] /\ SetFits(SetAt(x)')
      /\ SetAt(x)' = [SetAt(x) EXCEPT !.len = op.dir.len + 1] /\ SetAt(x) \in SlotType
      /\ SetAt(x).first = op.dir.first
  BY <1>2, <1>3, RecordLengthStruct
<1>5. /\ UNCHANGED <<fat, used>>
      /\ op' = [op EXCEPT !.pc = "search", !.growing = FALSE, !.new = 0, !.dir.len = @ + 1]
  BY DEF RecordLength
<1>6. op \in OpType /\ op.dir \in DirType
  BY DEF Types, OpType
<1>7. PICK d \in DirType : d = [op.dir EXCEPT !.len = @ + 1] /\ d.first = op.dir.first
                           /\ d.len = op.dir.len + 1 /\ d.at = x
  <2>1. PICK l \in 0..ClusterCount : l = op.dir.len + 1
    BY <1>4
  <2>2. PICK e \in DirType : e = op.dir
    BY <1>6
  <2>. DEFINE r == [e EXCEPT !.len = l]
  <2>3. r \in DirType /\ r.first = e.first /\ r.len = l /\ r.at = e.at
    BY DEF DirType
  <2>4. r = [op.dir EXCEPT !.len = @ + 1]
    BY <2>1, <2>2
  <2>. HIDE DEF r
  <2>. QED
    BY <2>1, <2>2, <2>3, <2>4, <1>2
<1>8. op' = [op EXCEPT !.pc = "search", !.growing = FALSE, !.new = 0, !.dir = d]
  BY <1>5, <1>6, <1>7 DEF OpType
<1>9. op' \in OpType /\ op'.pc = "search" /\ op'.dir = d /\ op'.set = op.set /\ Same
  BY ZenonT(40), <1>6, <1>8, Parameters DEF OpType, Same, Addresses
<1>10. Types'
  BY <1>4, <1>5, <1>9, TypesWritten
<1>11. SetAt(x)'.first = d.first /\ SetAt(x)'.len = d.len
  BY <1>4, <1>7 DEF SlotType
<1>12. d = DirectoryAt(x)'
  <2>1. x # Top
    BY <1>4, PlacesApart
  <2>2. d = [first |-> d.first, len |-> d.len, at |-> d.at]
    BY DEF DirType
  <2>. QED
    BY <2>1, <2>2, <1>7, <1>11 DEF DirectoryAt
<1>13. PICK o : o = op.old
  OBVIOUS
<1>14. op.kind = "rename" => OldStays(w, x, o)
  <2>1. SUFFICES ASSUME op.kind = "rename" PROVE OldStays(w, x, o)
    OBVIOUS
  <2>2. o \in Places /\ Live(ch, o) /\ In(ch, x, o[1])
    BY <2>1, <1>1, <1>2, <1>13, OldIsThere
  <2>3. o # x
    BY <2>2, <1>2, <1>4 DEF Struct, Records, Recorded
  <2>4. SetAt(o)' = SetAt(o)
    BY <2>2, <2>3, <1>4 DEF Others
  <2>5. Live(w, o)'
    <3>1. Anywhere(w, o[1])' <=> Anywhere(w, o[1])
      BY DEF Anywhere, In
    <3>2. ~Hidden(o)'
      BY <1>9 DEF Hidden, At
    <3>. QED
      BY <3>1, <3>2, <2>2, <2>4, <1>4 DEF Live, SameClusters
  <2>. QED
    BY <2>2, <2>4, <2>5, <1>4 DEF OldStays, Alike
<1>15. DirIs(w)' /\ OldIs(w)' /\ SetIs'
  BY <1>1, <1>2, <1>4, <1>9, <1>12, <1>13, <1>14, MakingHeld
<1>16. ~Claimed' /\ ~Releasing' /\ ~Placed'
  BY <1>9 DEF Claimed, Releasing, Placed, At
<1>17. HandIs(w)' /\ PlaceIs(w)' /\ CallIs'
  BY <1>1, <1>4, <1>9, <1>16 DEF Held, HandIs, PlaceIs, CallIs, At, Same
<1>. QED
  BY <1>4, <1>10, <1>15, <1>17, InvHolds DEF Held

-----------------------------------------------------------------------------
(* The steps that write an entry set, and the release of clusters.         *)

LEMMA WriteSetInv ==
    ASSUME Types, NEW ch \in Chains, Struct(ch), Held(ch), WriteSet
    PROVE  Inv'
<1>1. Making /\ At("write") /\ Placed
  BY DEF WriteSet, Making, Placed, At
<1>2. PICK x \in {Top} \cup Places : x = op.dir.at /\ ch[x] # <<>> /\ op.dir = DirectoryAt(x)
  BY <1>1, DirectoryIs
<1>3. PICK p \in Places : p = op.place /\ In(ch, x, p[1]) /\ ~SetAt(p).used
  BY <1>1, <1>2 DEF Held, PlaceIs
<1>4. PICK s \in SlotType : s = op.set
  BY DEF Types, OpType
<1>5. SetSlot(p, s) /\ UNCHANGED <<fat, used>>
  BY <1>3, <1>4 DEF WriteSet
<1>6. op.kind \in {"mkdir", "create", "rename"}
  BY <1>1 DEF Held, SetIs
<1>7. CASE op.kind = "mkdir"
  <2>1. PICK w \in Chains : w = Attached(ch, p)
    BY <1>3, <1>4, <1>7, MakeStruct
  <2>2. /\ Struct(w)' /\ w[Hand] = <<>> /\ w[p] # <<>> /\ SetAt(p)' = s
        /\ s.used /\ s.dir /\ s.first = op.new /\ s.len = 1
        /\ content' \in [Clusters -> [Slots -> SlotType]] /\ Others(p) /\ SetFits(s)
    BY <1>3, <1>4, <1>7, <2>1, MakeStruct
  <2>3. PICK d \in DirType : d = [first |-> op.new, len |-> 1, at |-> op.place]
    <3>1. op.new \in Addresses /\ 1 \in 0..ClusterCount
      BY Parameters DEF Types, OpType
    <3>. QED
      BY <3>1, <1>3 DEF DirType
  <2>4. Onward(d)
    BY <1>7, <2>3 DEF WriteSet
  <2>5. /\ op' \in OpType
        /\ \/ op' = Idle
           \/ /\ op'.pc = "descend" /\ op'.kind = "mkdir" /\ op'.dir = d
              /\ op'.path \in Paths /\ op'.i \in 1..Len(op'.path)
    BY <1>1, <1>7, <2>4, OnwardType
  <2>6. Types'
    BY <1>5, <2>2, <2>5, TypesWritten
  <2>7. d = DirectoryAt(p)'
    BY <1>3, <2>2, <2>3, PlacesApart DEF DirectoryAt
  <2>8. Held(w)'
    BY <2>2, <2>5, <2>7, IdleHeld, OnwardHeld
  <2>. QED
    BY <2>2, <2>6, <2>8, InvHolds
<1>8. CASE op.kind # "mkdir"
  <2>1. /\ Struct(ch)' /\ SetAt(p)' = s /\ ch[Hand] = <<>>
        /\ content' \in [Clusters -> [Slots -> SlotType]] /\ Others(p)
        /\ op' = Idle \/ (op.kind = "rename" /\ op' = [op EXCEPT !.pc = "retireOld"])
        /\ op.kind = "create" => SetFits(s)
    BY <1>3, <1>4, <1>8, WriteStruct
  <2>2. op' \in OpType
    BY ZenonT(40), <2>1, IdleType DEF Types, OpType
  <2>3. CASE op.kind = "create"
    <3>1. op' = Idle
      BY <2>1, <2>3
    <3>2. Types'
      BY <1>5, <2>1, <2>2, <2>3, TypesWritten
    <3>. QED
      BY <2>1, <3>1, <3>2, IdleHeld, InvHolds
  <2>4. CASE op.kind = "rename"
    <3>1. PICK o \in Places : o = op.old /\ Live(ch, o) /\ In(ch, x, o[1])
      BY <1>1, <1>2, <2>4, OldIsThere
    <3>2. /\ s.used /\ s.dir = SetAt(o).dir /\ s.first = SetAt(o).first /\ s.len = SetAt(o).len
      BY <1>1, <1>4, <2>4, <3>1, OldIsThere DEF Copied
    <3>3. op' = [op EXCEPT !.pc = "retireOld"]
      <4>1. op' = Idle => FALSE
        BY <1>1, <2>4, IdleType DEF WriteSet, Types, OpType
      <4>. QED
        BY <4>1, <2>1
    <3>4. /\ op'.pc = "retireOld" /\ op'.old = o /\ op'.place = p /\ op'.set = s
          /\ op'.kind = "rename" /\ op'.dir = op.dir
      BY <3>1, <3>3, <1>3, <1>4, <2>4 DEF Types, OpType
    <3>5. SetFits(s)
      <4>1. SetFits(SetAt(o)) /\ SetAt(o).used
        BY <3>1, SetTypes DEF Live
      <4>. QED
        BY <4>1, <3>2 DEF SetFits
    <3>6. Types'
      BY <1>5, <2>1, <2>2, <3>5, TypesWritten
    <3>7. o # p /\ SetAt(o)' = SetAt(o)
      <4>1. o # p
        BY <1>3, <3>1 DEF Live
      <4>. QED
        BY <4>1, <2>1 DEF Others
    <3>8. Live(ch, o)'
      <4>1. Anywhere(ch, o[1])' <=> Anywhere(ch, o[1])
        BY DEF Anywhere, In
      <4>2. ~Hidden(o)'
        BY <3>4, <3>7 DEF Hidden
      <4>. QED
        BY <4>1, <4>2, <3>1, <3>7 DEF Live
    <3>9. ~In(ch, o, p[1])
      <4>1. SUFFICES ASSUME In(ch, o, p[1]) PROVE FALSE
        OBVIOUS
      <4>2. o = x
        <5>1. o \in Dirs /\ x \in Dirs
          BY PlacesApart
        <5>. QED
          BY <4>1, <5>1, <1>3 DEF Struct, Disjoint, In
      <4>3. ch[o] # <<>>
        BY <4>2, <1>2
      <4>. QED
        BY <4>2, <4>3, <3>1 DEF Struct, Records, Recorded
    <3>10. Anywhere(ch, p[1])
      BY <1>3, PlacesApart DEF Anywhere
    <3>11. ~Making' /\ ~Placed' /\ ~Claimed' /\ ~Releasing'
      BY <3>4 DEF Making, Placed, Claimed, Releasing, At
    <3>12. HandIs(ch)' /\ DirIs(ch)' /\ PlaceIs(ch)' /\ CallIs' /\ SetIs'
      BY <2>1, <3>4, <3>11 DEF HandIs, DirIs, PlaceIs, CallIs, SetIs, At
    <3>13. OldIs(ch)'
      <4>1. SetAt(op.old)' = SetAt(o) /\ SetAt(op.place)' = s
        BY <2>1, <3>4, <3>7 DEF SetAt
      <4>2. Copied'
        BY <4>1, <3>2, <3>4 DEF Copied
      <4>3. Live(ch, op.old)'
        BY <3>4, <3>8 DEF Live, SetAt, Hidden
      <4>4. Anywhere(ch, op.place[1])' /\ ~In(ch, op.old, op.place[1])'
        BY <3>4, <3>9, <3>10 DEF Anywhere, In
      <4>5. op'.dir.at \in {Top} \cup Places
        BY <1>2, <3>4
      <4>6. In(ch, op.dir.at, op.old[1])' /\ In(ch, op.dir.at, op.place[1])'
        BY <1>2, <1>3, <3>1, <3>4 DEF In
      <4>. QED
        BY <4>1, <4>2, <4>3, <4>4, <4>5, <4>6, <3>4, <3>11 DEF OldIs, At
    <3>. QED
      BY <2>1, <3>6, <3>12, <3>13, InvHolds DEF Held
  <2>. QED
    BY <2>3, <2>4, <1>6, <1>8
<1>. QED
  BY <1>7, <1>8

LEMMA EditNameInv ==
    ASSUME Types, NEW ch \in Chains, Struct(ch), Held(ch), EditName
    PROVE  Inv'
<1>1. PICK p \in Places : p = op.old
  BY DEF EditName, Held, OldIs, At
<1>2. /\ Struct(ch)' /\ content' \in [Clusters -> [Slots -> SlotType]] /\ Others(p)
      /\ SetFits(SetAt(p)') /\ ch[Hand] = <<>>
  BY <1>1, EditStruct
<1>3. op' = Idle /\ op' \in OpType /\ UNCHANGED <<fat, used>>
  BY IdleType, EditPlain
<1>4. Types'
  BY <1>2, <1>3, TypesWritten
<1>. QED
  BY <1>2, <1>3, <1>4, IdleHeld, InvHolds

LEMMA RetireInv ==
    ASSUME Types, NEW ch \in Chains, Struct(ch), Held(ch), Retire
    PROVE  Inv'
<1>1. PICK p \in Places : p = op.old
  BY DEF Retire, Held, OldIs, At
<1>2. UNCHANGED <<fat, used>>
  BY DEF Retire
<1>3. CASE At("retireOld")
  <2>1. PICK q \in Places : q = op.place
    BY <1>3 DEF Held, OldIs, At
  <2>2. PICK w \in Chains : w = Shifted(ch, p, q)
    BY <1>1, <1>3, <2>1, RenamedStruct
  <2>3. /\ Struct(w)' /\ w[Hand] = <<>> /\ Others(p) /\ SetAt(p)' = NoSet
        /\ content' \in [Clusters -> [Slots -> SlotType]] /\ op' = Idle
    BY <1>1, <1>3, <2>1, <2>2, RenamedStruct
  <2>4. Types'
    <3>1. SetFits(SetAt(p)') /\ op' \in OpType
      BY <2>3, NoSetType, IdleType
    <3>. QED
      BY <3>1, <1>2, <2>3, TypesWritten
  <2>. QED
    BY <2>3, <2>4, IdleHeld, InvHolds
<1>4. CASE At("retire")
  <2>1. PICK w \in Chains : w = Shifted(ch, p, Hand)
    BY <1>1, <1>4, RetireStruct
  <2>2. /\ Struct(w)' /\ w[Hand] = ch[p] /\ Others(p) /\ SetAt(p)' = NoSet
        /\ content' \in [Clusters -> [Slots -> SlotType]]
        /\ ch[p] # <<>> => Len(ch[p]) = op.set.len /\ ch[p][1] = op.set.first
        /\ ch[p] = <<>> => op.set.len = 0
    BY <1>1, <1>4, <2>1, RetireStruct
  <2>3. SetFits(SetAt(p)')
    BY <2>2, NoSetType
  <2>4. CASE op.set.len = 0
    <3>1. op' = Idle /\ op' \in OpType
      BY <1>4, <2>4, IdleType DEF Retire, Released
    <3>2. ch[p] = <<>>
      BY <2>2, <2>4, PlacesApart, ChainTypes
    <3>3. Types'
      BY <1>2, <2>2, <2>3, <3>1, TypesWritten
    <3>. QED
      BY <2>2, <3>1, <3>2, <3>3, IdleHeld, InvHolds
  <2>5. CASE op.set.len # 0
    <3>1. op' = [op EXCEPT !.pc = "free", !.cl = op.set.first, !.left = op.set.len]
      BY <1>4, <2>5 DEF Retire, Released, At
    <3>2. op.set.first \in Addresses /\ op.set.len \in 0..ClusterCount
      BY DEF Types, OpType, SlotType
    <3>3. /\ op' \in OpType /\ op'.pc = "free" /\ op'.cl = op.set.first /\ op'.left = op.set.len
      BY <3>1, <3>2 DEF Types, OpType
    <3>4. Types'
      BY <1>2, <2>2, <2>3, <3>3, TypesWritten
    <3>5. ~Making' /\ ~Placed' /\ ~Claimed' /\ Releasing' /\ ~At("unmark")'
      BY <3>3 DEF Making, Placed, Claimed, Releasing, At
    <3>6. HandIs(w)'
      <4>1. op'.left \in Nat \ {0} /\ Len(w[Hand]) = op'.left /\ w[Hand][1] = op'.cl
        BY <2>2, <2>5, <3>2, <3>3, Parameters
      <4>. QED
        BY <4>1, <3>3, <3>5 DEF HandIs, At
    <3>7. DirIs(w)' /\ PlaceIs(w)' /\ CallIs' /\ SetIs' /\ OldIs(w)'
      BY <3>3, <3>5 DEF DirIs, PlaceIs, CallIs, SetIs, OldIs, At
    <3>. QED
      BY <2>2, <3>4, <3>6, <3>7, InvHolds DEF Held
  <2>. QED
    BY <2>4, <2>5
<1>. QED
  BY <1>3, <1>4 DEF Retire

LEMMA FreeLinkInv ==
    ASSUME Types, NEW ch \in Chains, Struct(ch), Held(ch), FreeLink
    PROVE  Inv'
<1>1. /\ Struct(ch)' /\ op'.pc = "unmark"
      /\ op.left # 1 => op'.next = ch[Hand][2]
      /\ op'.next \in Addresses \cup {EndOfChain} /\ fat' = [fat EXCEPT ![op.cl] = Free]
      /\ op.cl \in Clusters
  BY FreeLinkStruct
<1>2. /\ At("free") /\ UNCHANGED <<content, used>>
      /\ op' = [op EXCEPT !.pc = "unmark", !.next = IF op.left = 1 THEN 0 ELSE fat[op.cl]]
  BY DEF FreeLink
<1>3. /\ op' \in OpType /\ op'.cl = op.cl /\ op'.left = op.left
  <2>1. PICK n : n = (IF op.left = 1 THEN 0 ELSE fat[op.cl])
    OBVIOUS
  <2>2. op'.next = n
    BY <1>2, <2>1 DEF Types, OpType
  <2>3. n \in Addresses \cup {EndOfChain}
    BY <1>1, <2>2
  <2>4. op' = [op EXCEPT !.pc = "unmark", !.next = n]
    BY <1>2, <2>1
  <2>. QED
    BY <2>3, <2>4 DEF Types, OpType
<1>4. Types'
  <2>1. fat' \in [Clusters -> Addresses \cup {EndOfChain}]
    BY <1>1, Parameters DEF Types, Addresses
  <2>. QED
    BY <2>1, <1>2, <1>3 DEF Types, SetFits
<1>5. op.left \in Nat \ {0} /\ Len(ch[Hand]) = op.left /\ ch[Hand][1] = op.cl
  BY <1>2 DEF Held, HandIs, Releasing, At
<1>6. ~Making' /\ ~Placed' /\ ~Claimed' /\ Releasing'
  BY <1>1 DEF Making, Placed, Claimed, Releasing, At
<1>7. HandIs(ch)'
  BY <1>1, <1>3, <1>5, <1>6 DEF HandIs, At
<1>8. DirIs(ch)' /\ PlaceIs(ch)' /\ CallIs' /\ SetIs' /\ OldIs(ch)'
  BY <1>1, <1>6 DEF DirIs, PlaceIs, CallIs, SetIs, OldIs, At
<1>. QED
  BY <1>1, <1>4, <1>7, <1>8, InvHolds DEF Held

LEMMA UnmarkInv ==
    ASSUME Types, NEW ch \in Chains, Struct(ch), Held(ch), Unmark
    PROVE  Inv'
<1>1. PICK w \in Chains : w = Dropped(ch)
  BY UnmarkStruct
<1>2. /\ Struct(w)' /\ Len(w[Hand]) = op.left - 1 /\ op.left \in Nat \ {0}
      /\ op.left # 1 => /\ w[Hand][1] = op.next /\ op.next \in Clusters
                        /\ op' = [op EXCEPT !.pc = "free", !.cl = op.next, !.left = @ - 1]
      /\ op.left = 1 => op' = Idle
      /\ used' \subseteq Clusters /\ UNCHANGED <<content, fat>>
  BY <1>1, UnmarkStruct
<1>3. CASE op.left = 1
  <2>1. op' = Idle /\ op' \in OpType
    BY <1>2, <1>3, IdleType
  <2>2. w[Hand] = <<>>
    BY <1>2, <1>3, PlacesApart, ChainTypes
  <2>3. Types'
    BY <1>2, <2>1 DEF Types, SetFits
  <2>. QED
    BY <1>2, <2>1, <2>2, <2>3, IdleHeld, InvHolds
<1>4. CASE op.left # 1
  <2>1. PICK l \in 0..ClusterCount : l = op.left - 1 /\ l # 0 /\ l \in Nat
    BY <1>2, <1>4, Parameters DEF Types, OpType
  <2>2. op' = [op EXCEPT !.pc = "free", !.cl = op.next, !.left = l]
    BY <1>2, <1>4, <2>1
  <2>3. op.next \in Addresses /\ op.next \in Clusters
    BY <1>2, <1>4 DEF Addresses
  <2>4. op' \in OpType /\ op'.pc = "free" /\ op'.cl = op.next /\ op'.left = l
    BY <2>2, <2>3 DEF Types, OpType
  <2>5. Types'
    BY <1>2, <2>4 DEF Types, SetFits
  <2>6. ~Making' /\ ~Placed' /\ ~Claimed' /\ Releasing' /\ ~At("unmark")'
    BY <2>4 DEF Making, Placed, Claimed, Releasing, At
  <2>7. HandIs(w)'
    BY <1>2, <1>4, <2>1, <2>4, <2>6 DEF HandIs, At
  <2>8. DirIs(w)' /\ PlaceIs(w)' /\ CallIs' /\ SetIs' /\ OldIs(w)'
    BY <2>4, <2>6 DEF DirIs, PlaceIs, CallIs, SetIs, OldIs, At
  <2>. QED
    BY <1>2, <2>5, <2>7, <2>8, InvHolds DEF Held
<1>. QED
  BY <1>3, <1>4

-----------------------------------------------------------------------------
(* The invariant holds.                                                    *)

LEMMA InitInv == ASSUME Init PROVE Inv
<1>. DEFINE ch == [p \in Dirs |-> IF p = Top THEN <<Root>> ELSE <<>>]
<1>1. Root \in Clusters /\ Top \in Dirs /\ Hand \in Dirs /\ Top # Hand /\ Places \subseteq Dirs
      /\ Top \notin Places
  BY Parameters, PlacesApart
<1>2. ch \in Chains
  <2>1. <<Root>> \in Seq(Clusters) /\ <<>> \in Seq(Clusters)
    BY <1>1
  <2>. QED
    BY <2>1 DEF Chains
<1>3. ch[Top] = <<Root>> /\ \A p \in Dirs \ {Top} : ch[p] = <<>>
  BY <1>1
<1>. HIDE DEF ch
<1>4. Len(ch[Top]) = 1 /\ ch[Top][1] = Root /\ \A p \in Dirs \ {Top} : Len(ch[p]) = 0
  BY <1>3
<1>5. \A p \in Dirs : \A i \in 1..Len(ch[p]) : p = Top /\ i = 1
  <2>. SUFFICES ASSUME NEW p \in Dirs, NEW i \in 1..Len(ch[p]) PROVE p = Top /\ i = 1
    OBVIOUS
  <2>1. i \in 1..Len(ch[p])
    OBVIOUS
  <2>2. p = Top
    <3>1. SUFFICES ASSUME p # Top PROVE FALSE
      OBVIOUS
    <3>2. i \in 1..0
      BY <2>1, <3>1, <1>4
    <3>. QED
      BY <3>2
  <2>3. i \in 1..1
    BY <2>1, <2>2, <1>4
  <2>. QED
    BY <2>2, <2>3
<1>6. /\ EmptyCluster \in [Slots -> SlotType] /\ \A s \in Slots : EmptyCluster[s] = NoSet
      /\ Stale \in SlotType /\ SetFits(Stale)
  <2>1. Stale \in SlotType /\ ~Stale.dir
    BY NoSetType DEF Stale, SlotType
  <2>. QED
    BY <2>1, NoSetType DEF EmptyCluster, Slots, SetFits
<1>7. /\ content \in [Clusters -> [Slots -> SlotType]] /\ content[Root] = EmptyCluster
      /\ \A c \in Clusters : \A s \in Slots : SetFits(content[c][s])
      /\ fat \in [Clusters -> Addresses \cup {EndOfChain}] /\ fat[Root] = EndOfChain
      /\ used = {Root}
  <2>1. /\ content = [c \in Clusters |-> IF c = Root THEN EmptyCluster ELSE [s \in Slots |-> Stale]]
        /\ fat = [c \in Clusters |-> IF c = Root THEN EndOfChain ELSE Free] /\ used = {Root}
    BY DEF Init, Slots
  <2>2. [s \in Slots |-> Stale] \in [Slots -> SlotType] /\ \A s \in Slots : [t \in Slots |-> Stale][s] = Stale
    BY <1>6
  <2>3. content \in [Clusters -> [Slots -> SlotType]] /\ content[Root] = EmptyCluster
    BY <2>1, <2>2, <1>1, <1>6
  <2>4. ASSUME NEW c \in Clusters, NEW s \in Slots PROVE SetFits(content[c][s])
    BY <2>1, <2>2, <1>6, NoSetType
  <2>5. fat \in [Clusters -> Addresses \cup {EndOfChain}] /\ fat[Root] = EndOfChain
    BY <2>1, <1>1, Parameters DEF Addresses
  <2>. QED
    BY <2>1, <2>3, <2>4, <2>5
<1>8. op = Idle
  BY DEF Init
<1>9. Types
  BY <1>1, <1>7, <1>8, IdleType DEF Types
<1>10. \A p \in Places : ~Live(ch, p)
  <2>. SUFFICES ASSUME NEW p \in Places, Live(ch, p) PROVE FALSE
    OBVIOUS
  <2>1. p[1] = Root
    BY <1>4, <1>5 DEF Live, Anywhere, In
  <2>2. p[2] \in Slots
    BY PlacesApart
  <2>. QED
    BY <2>1, <2>2, <1>6, <1>7, NoSetType DEF Live, SetAt
<1>11. Struct(ch)
  <2>1. Disjoint(ch)
    BY <1>5 DEF Disjoint
  <2>2. Linked(ch)
    <3>1. ASSUME NEW p \in Dirs, NEW i \in 1..(Len(ch[p]) - 1) PROVE FALSE
      <4>1. Len(ch[p]) \in {0, 1} /\ i \in 1..(Len(ch[p]) - 1)
        BY <1>4
      <4>2. CASE Len(ch[p]) = 0
        <5>1. Len(ch[p]) - 1 = -1
          BY <4>2
        <5>2. i \in 1..(-1)
          BY <4>1, <5>1
        <5>. QED
          BY <5>2
      <4>3. CASE Len(ch[p]) = 1
        <5>1. Len(ch[p]) - 1 = 0
          BY <4>3
        <5>2. i \in 1..0
          BY <4>1, <5>1
        <5>. QED
          BY <5>2
      <4>. QED
        BY <4>1, <4>2, <4>3
    <3>. QED
      BY <3>1 DEF Linked
  <2>3. Marked(ch)
    BY <1>4, <1>5, <1>7 DEF Marked
  <2>4. RootChain(ch)
    BY <1>3, <1>4, <1>7, Parameters DEF RootChain
  <2>5. Records(ch)
    BY <1>1, <1>3, <1>10 DEF Records
  <2>6. HandEmpty(ch)
    BY <1>1, <1>5 DEF HandEmpty
  <2>. QED
    BY <2>1, <2>2, <2>3, <2>4, <2>5, <2>6 DEF Struct
<1>12. Held(ch)
  <2>1. op.pc = "idle"
    BY <1>8, IdleType
  <2>2. ~Making /\ ~Placed /\ ~Claimed /\ ~Releasing
    BY <2>1 DEF Making, Placed, Claimed, Releasing, At
  <2>3. HandIs(ch)
    BY <2>1, <2>2, <1>1, <1>3 DEF HandIs, At
  <2>4. DirIs(ch) /\ PlaceIs(ch) /\ CallIs /\ SetIs /\ OldIs(ch)
    BY <2>1, <2>2 DEF DirIs, PlaceIs, CallIs, SetIs, OldIs, At
  <2>. QED
    BY <2>3, <2>4 DEF Held
<1>. QED
  BY <1>2, <1>9, <1>11, <1>12 DEF Inv

LEMMA StutterInv == ASSUME Inv, UNCHANGED vars PROVE Inv'
<1>1. PICK ch \in Chains : Struct(ch) /\ Held(ch)
  BY DEF Inv
<1>2. content' = content /\ fat' = fat /\ used' = used /\ op' = op
  BY DEF vars
<1>3. Types'
  BY <1>2 DEF Inv, Types, SetFits
<1>4. \A p : SetAt(p)' = SetAt(p) /\ (Hidden(p)' <=> Hidden(p))
  BY <1>2 DEF SetAt, Hidden, At
<1>5. \A p : Live(ch, p)' <=> Live(ch, p)
  BY <1>4 DEF Live, Anywhere, In
<1>6. Struct(ch)'
  <2>1. Disjoint(ch)' /\ Linked(ch)' /\ Marked(ch)' /\ RootChain(ch)' /\ HandEmpty(ch)'
    BY <1>1, <1>2 DEF Struct, Disjoint, Linked, Marked, RootChain, HandEmpty, Cut, At
  <2>2. Records(ch)'
    BY <1>1, <1>4, <1>5, RecordsStay DEF Struct, Alike, SameElsewhere
  <2>. QED
    BY <2>1, <2>2 DEF Struct
<1>7. Held(ch)'
  <2>1. HandIs(ch)' /\ CallIs' /\ SetIs'
    BY <1>1, <1>2 DEF Held, HandIs, CallIs, SetIs, Claimed, Releasing, Making, Placed, At
  <2>2. DirIs(ch)' /\ PlaceIs(ch)'
    BY <1>1, <1>2 DEF Held, DirIs, PlaceIs, Making, Placed, DirectoryAt, SetAt, In, At
  <2>3. OldIs(ch)'
    <3>1. PICK o : o = op.old
      OBVIOUS
    <3>2. op'.old = o /\ (Live(ch, op.old)' <=> Live(ch, o)) /\ SetAt(op.old)' = SetAt(o)
      BY <1>2, <1>5, <3>1 DEF Live, SetAt, Hidden
    <3>3. Copied' <=> Copied
      BY <1>2, <3>1, <3>2 DEF Copied
    <3>. QED
      BY <1>1, <1>2, <3>1, <3>2, <3>3 DEF Held, OldIs, Making, In, Anywhere, SetAt, At
  <2>. QED
    BY <2>1, <2>2, <2>3 DEF Held
<1>. QED
  BY <1>3, <1>6, <1>7, InvHolds

LEMMA StepInv ==
    ASSUME Inv, [Next]_vars, "retireOld" \notin FaultPoints, "renameShorter" \notin Ops
    PROVE  Inv'
<1>1. PICK ch \in Chains : Types /\ Struct(ch) /\ Held(ch)
  BY DEF Inv
<1>2. CASE UNCHANGED vars
  BY <1>2, StutterInv
<1>3. ASSUME NEW path \in Paths, CreateDirAll(path) PROVE Inv'
  BY <1>1, <1>3, CreateDirAllInv
<1>4. ASSUME NEW path \in Paths, Create(path) PROVE Inv'
  BY <1>1, <1>4, CreateInv
<1>5. ASSUME NEW path \in Paths, Remove(path) PROVE Inv'
  BY <1>1, <1>5, RemoveInv
<1>6. ASSUME NEW path \in Paths, NEW n \in Names, Rename(path, n) PROVE Inv'
  BY <1>1, <1>6, RenameInv
<1>7. CASE Descend
  BY <1>1, <1>7, DescendInv
<1>8. CASE NotDirectory \/ CannotGrow \/ NoSpace \/ Interrupted
  BY <1>1, <1>8, EndedInv
<1>9. CASE Missing
  BY <1>1, <1>9, MissingInv
<1>10. CASE Search
  BY <1>1, <1>10, SearchInv
<1>11. CASE Grow
  BY <1>1, <1>11, GrowInv
<1>12. CASE Claim
  BY <1>1, <1>12, ClaimInv
<1>13. CASE MarkUsed
  BY <1>1, <1>13, MarkUsedInv
<1>14. CASE Terminate
  BY <1>1, <1>14, TerminateInv
<1>15. CASE Link
  BY <1>1, <1>15, LinkInv
<1>16. CASE RecordLength
  BY <1>1, <1>16, RecordLengthInv
<1>17. CASE WriteSet
  BY <1>1, <1>17, WriteSetInv
<1>18. CASE EditName
  BY <1>1, <1>18, EditNameInv
<1>19. CASE Retire
  BY <1>1, <1>19, RetireInv
<1>20. CASE FreeLink
  BY <1>1, <1>20, FreeLinkInv
<1>21. CASE Unmark
  BY <1>1, <1>21, UnmarkInv
<1>. QED
  BY <1>2, <1>3, <1>4, <1>5, <1>6, <1>7, <1>8, <1>9, <1>10, <1>11, <1>12, <1>13, <1>14, <1>15,
     <1>16, <1>17, <1>18, <1>19, <1>20, <1>21 DEF Next, Step

LEMMA Invariance ==
    ASSUME "retireOld" \notin FaultPoints, "renameShorter" \notin Ops
    PROVE  Spec => []Inv
<1>1. Init => Inv
  BY InitInv
<1>2. Inv /\ [Next]_vars => Inv'
  BY StepInv
<1>. QED
  BY <1>1, <1>2, PTL DEF Spec

-----------------------------------------------------------------------------
(* What the invariant says of the paths that are listed.                   *)

LEMMA InvTypeOK == ASSUME Inv PROVE TypeOK
<1>1. PICK ch \in Chains : Types /\ Struct(ch) /\ Held(ch)
  BY DEF Inv
<1>2. \A c \in Clusters : \A s \in 1..SlotsPerCluster : SlotOK(content[c][s])
  <2>. SUFFICES ASSUME NEW c \in Clusters, NEW s \in Slots PROVE SlotOK(content[c][s])
    BY DEF Slots
  <2>1. content[c][s] \in SlotType /\ SetFits(content[c][s])
    BY <1>1 DEF Types
  <2>. QED
    BY <2>1 DEF SlotOK, SlotType, SetFits, Addresses
<1>3. fat \in [Clusters -> Clusters \cup {Free, EndOfChain}] /\ used \subseteq Clusters
  <2>1. Addresses \cup {EndOfChain} = Clusters \cup {Free, EndOfChain}
    BY Parameters DEF Addresses
  <2>. QED
    BY <1>1, <2>1 DEF Types
<1>4. op.pc \in {"mark", "terminate", "link", "length"} => op.new \in Clusters
  BY <1>1 DEF Held, HandIs, Claimed
<1>5. op.pc \in {"free", "unmark"} => op.cl \in Clusters /\ op.left # 0
  <2>1. ASSUME op.pc \in {"free", "unmark"} PROVE op.cl \in Clusters /\ op.left # 0
    <3>1. op.left \in Nat \ {0} /\ Len(ch[Hand]) = op.left /\ ch[Hand][1] = op.cl
      BY <1>1, <2>1 DEF Held, HandIs, Releasing
    <3>2. 1 \in 1..Len(ch[Hand])
      BY <3>1
    <3>. QED
      BY <3>1, <3>2, PlacesApart, ChainTypes
  <2>. QED
    BY <2>1
<1>6. At("write") => op.place # None
  BY <1>1, PlacesApart DEF Held, PlaceIs, Placed
<1>7. At("descend") => op.i \in 1..Len(op.path)
  BY <1>1 DEF Held, CallIs
<1>. QED
  BY <1>2, <1>3, <1>4, <1>5, <1>6, <1>7 DEF TypeOK

(* What is in a directory is there.                                        *)
LEMMA EntriesLive ==
    ASSUME Types, NEW ch \in Chains, Struct(ch), NEW x \in {Top} \cup Places, ch[x] # <<>>
    PROVE  \A q \in Entries(DirectoryAt(x)) :
              q \in Places /\ Live(ch, q) /\ SetAt(q).name \in StoredNames \cup {None}
<1>. SUFFICES ASSUME NEW q \in Entries(DirectoryAt(x))
              PROVE  q \in Places /\ Live(ch, q) /\ SetAt(q).name \in StoredNames \cup {None}
  OBVIOUS
<1>1. ClustersOf(DirectoryAt(x)) = ch[x] /\ x \in Dirs
  BY ClustersAre, PlacesApart
<1>2. q \in ClusterSet(DirectoryAt(x)) \X Slots /\ SetAt(q).used /\ ~Hidden(q)
  BY DEF Entries, Slots
<1>3. PICK i \in 1..Len(ch[x]) : q[1] = ch[x][i]
  BY <1>1, <1>2, ChainTypes DEF ClusterSet
<1>4. q \in Places /\ Anywhere(ch, q[1])
  BY <1>1, <1>2, <1>3, ChainTypes DEF Places, Anywhere, In
<1>5. SetAt(q) \in SlotType
  BY <1>4, SetTypes
<1>. QED
  BY <1>2, <1>4, <1>5 DEF Live, SlotType

(* The levels of a listing: what a path of k names leads to.               *)
AnyName == StoredNames \cup {None}
Kids(path, d) == {<<Append(path, SetAt(p).name), p>> : p \in Entries(d)}
More(L) == UNION {Kids(y[1], DirectoryAt(y[2])) : y \in {x \in L : SetAt(x[2]).dir}}
OfLength(ch, k) == {y \in Seq(AnyName) \X Places : Live(ch, y[2]) /\ Len(y[1]) = k}

LEMMA KidsLive ==
    ASSUME Types, NEW ch \in Chains, Struct(ch), NEW k \in Nat, NEW path \in Seq(AnyName), Len(path) = k,
           NEW x \in {Top} \cup Places, ch[x] # <<>>
    PROVE  Kids(path, DirectoryAt(x)) \subseteq OfLength(ch, k + 1)
<1>. SUFFICES ASSUME NEW q \in Entries(DirectoryAt(x))
              PROVE  <<Append(path, SetAt(q).name), q>> \in OfLength(ch, k + 1)
  BY DEF Kids
<1>1. q \in Places /\ Live(ch, q) /\ SetAt(q).name \in AnyName
  BY EntriesLive DEF AnyName
<1>2. \A n \in AnyName : Append(path, n) \in Seq(AnyName) /\ Len(Append(path, n)) = k + 1
  OBVIOUS
<1>. QED
  BY <1>1, <1>2 DEF OfLength

LEMMA Levels ==
    ASSUME Types, NEW ch \in Chains, Struct(ch), MaxDepth # 0
    PROVE  \E g : /\ \A k \in 1..MaxDepth : g[k] \subseteq OfLength(ch, k)
                  /\ g[1] = Kids(<<>>, DirectoryAt(Top))
                  /\ \A k \in 2..MaxDepth : g[k] = More(g[k - 1])
                  /\ Listed = UNION {g[k] : k \in 1..MaxDepth}
<1>. DEFINE first == Kids(<<>>, DirectoryAt(Top))
            Unfold(d) == [k \in 1..MaxDepth |-> IF k = 1 THEN first ELSE More(d[k - 1])]
            n == MaxDepth - 1
            S == UNION {SUBSET OfLength(ch, k) : k \in Nat}
<1>1. first \subseteq OfLength(ch, 1) /\ first \in S
  <2>1. <<>> \in Seq(AnyName) /\ Len(<<>>) = 0 /\ ch[Top] # <<>>
    BY DEF Struct, RootChain
  <2>2. first \subseteq OfLength(ch, 0 + 1)
    BY <2>1, KidsLive
  <2>. QED
    BY <2>2
<1>2. ASSUME NEW k \in Nat, NEW L \in SUBSET OfLength(ch, k)
      PROVE  More(L) \subseteq OfLength(ch, k + 1) /\ More(L) \in S
  <2>1. ASSUME NEW y \in L, SetAt(y[2]).dir
        PROVE  Kids(y[1], DirectoryAt(y[2])) \subseteq OfLength(ch, k + 1)
    <3>1. y[1] \in Seq(AnyName) /\ Len(y[1]) = k /\ y[2] \in Places /\ Live(ch, y[2])
      BY DEF OfLength
    <3>2. ch[y[2]] # <<>>
      BY <2>1, <3>1 DEF Struct, Records, Recorded
    <3>. QED
      BY <3>1, <3>2, KidsLive
  <2>2. More(L) \subseteq OfLength(ch, k + 1)
    BY <2>1 DEF More
  <2>. QED
    BY <2>2
<1>. DEFINE level == CHOOSE f : f = Unfold(f)
<1>4. Listed = UNION {level[k] : k \in 1..MaxDepth}
  BY DEF Listed, Kids, More
<1>5. n \in Nat /\ MaxDepth \in Nat \ {0}
  BY Parameters
<1>3. \A L \in S : More(L) \in S
  BY <1>2
<1>. HIDE DEF S, first
<1>. DEFINE grow == [L \in S |-> More(L)]
            step == [i \in 1..n |-> grow]
<1>6. grow \in [S -> S] /\ \A L \in S : grow[L] = More(L)
  BY <1>3
<1>. HIDE DEF grow
<1>7. step \in [1..n -> [S -> S]]
  BY <1>6
<1>8. PICK c : Iterates(c, n, S, first, step)
  <2>. HIDE DEF step, n
  <2>. QED
    BY <1>1, <1>5, <1>7, Iteration
<1>9. c \in [0..n -> S] /\ c[0] = first /\ \A i \in 1..n : c[i] = More(c[i - 1])
  <2>1. c \in [0..n -> S] /\ c[0] = first /\ \A i \in 1..n : c[i] = grow[c[i - 1]]
    BY <1>8 DEF Iterates
  <2>2. \A i \in 1..n : c[i - 1] \in S
    BY <1>5, <2>1
  <2>. QED
    BY <2>1, <2>2, <1>6
<1>. DEFINE d == [k \in 1..MaxDepth |-> c[k - 1]]
<1>10. \A k \in 1..MaxDepth : k - 1 \in 0..n /\ (k # 1 => k - 1 \in 1..n /\ k - 1 \in 1..MaxDepth)
  BY <1>5
<1>11. d = Unfold(d)
  <2>1. ASSUME NEW k \in 1..MaxDepth PROVE d[k] = Unfold(d)[k]
    <3>1. CASE k = 1
      BY <3>1, <1>9
    <3>2. CASE k # 1
      <4>1. k - 1 \in 1..MaxDepth /\ c[k - 1] = More(c[k - 1 - 1])
        BY <3>2, <1>9, <1>10
      <4>. QED
        BY <3>2, <4>1
    <3>. QED
      BY <3>1, <3>2
  <2>. QED
    BY <2>1
<1>12. PICK g : g = level /\ g = Unfold(g)
  <2>. HIDE DEF d, Unfold
  <2>. QED
    BY <1>11
<1>. HIDE DEF level
<1>13. g[1] = first /\ \A k \in 2..MaxDepth : g[k] = More(g[k - 1])
  <2>1. \A k \in 1..MaxDepth : g[k] = Unfold(g)[k]
    BY <1>12
  <2>2. 1 \in 1..MaxDepth /\ \A k \in 2..MaxDepth : k \in 1..MaxDepth /\ k # 1
    BY <1>5
  <2>. QED
    BY <2>1, <2>2
<1>. DEFINE T == {k \in 0..n : g[k + 1] \subseteq OfLength(ch, k + 1)}
<1>14. 0 \in T
  BY <1>1, <1>5, <1>13
<1>15. ASSUME NEW i \in 1..n, i - 1 \in T PROVE i \in T
  <2>1. i + 1 \in 2..MaxDepth /\ i + 1 - 1 = i /\ i - 1 + 1 = i /\ i \in 0..n /\ i \in Nat
    BY <1>5
  <2>2. g[i + 1] = More(g[i]) /\ g[i] \subseteq OfLength(ch, i)
    <3>1. g[i + 1] = More(g[i + 1 - 1]) /\ g[i - 1 + 1] \subseteq OfLength(ch, i - 1 + 1)
      BY <2>1, <1>13, <1>15
    <3>. QED
      BY <2>1, <3>1
  <2>3. g[i + 1] \subseteq OfLength(ch, i + 1)
    BY <2>1, <2>2, <1>2
  <2>. QED
    BY <2>1, <2>3
<1>. HIDE DEF T
<1>16. \A i \in 0..n : i \in T
  BY <1>5, <1>14, <1>15, IntervalInduction
<1>17. \A k \in 1..MaxDepth : g[k] \subseteq OfLength(ch, k)
  <2>1. \A k \in 1..MaxDepth : k - 1 \in T /\ k - 1 + 1 = k
    BY <1>10, <1>16
  <2>. QED
    BY <2>1 DEF T
<1>18. Listed = UNION {g[k] : k \in 1..MaxDepth}
  BY ONLY <1>4, <1>12
<1>. QED
  BY ONLY <1>13, <1>17, <1>18 DEF first

(* Every listed path leads to a set that is there.                         *)
LEMMA ListedLive ==
    ASSUME Types, NEW ch \in Chains, Struct(ch), NEW e \in Listed
    PROVE  e[2] \in Places /\ Live(ch, e[2])
<1>1. MaxDepth # 0
  <2>1. ASSUME MaxDepth = 0 PROVE Listed = {}
    BY <2>1 DEF Listed
  <2>. QED
    BY <2>1
<1>2. PICK g : /\ \A k \in 1..MaxDepth : g[k] \subseteq OfLength(ch, k)
               /\ Listed = UNION {g[k] : k \in 1..MaxDepth}
  BY <1>1, Levels
<1>. QED
  BY <1>2 DEF OfLength

(* A directory's clusters are those of its chain.                          *)
LEMMA OwnedIs ==
    ASSUME Types, NEW ch \in Chains, Struct(ch), NEW p \in PlacesListed
    PROVE  /\ p \in {Top} \cup Places /\ p \in Dirs /\ p # Hand
           /\ \A c \in Owned(p) : In(ch, p, c)
           /\ IsDirectory(p) => Owned(p) = {ch[p][i] : i \in 1..Len(ch[p])}
           /\ IsDirectory(p) /\ p # Top => ch[p] # <<>> /\ Len(ch[p]) = SetAt(p).len
<1>1. p \in Reachable(ch) /\ p \in {Top} \cup Places
  <2>1. p = Top \/ \E e \in Listed : p = e[2]
    BY DEF PlacesListed
  <2>. QED
    BY <2>1, ListedLive DEF Reachable
<1>2. p \in Dirs /\ p # Hand
  BY <1>1, PlacesApart
<1>3. ASSUME IsDirectory(p)
      PROVE  /\ ch[p] # <<>> /\ (p # Top => SetAt(p).dir /\ Live(ch, p))
             /\ Owned(p) = {ch[p][i] : i \in 1..Len(ch[p])}
  <2>1. ch[p] # <<>> /\ (p # Top => SetAt(p).dir /\ Live(ch, p))
    BY <1>1, <1>3, LiveDirectory
  <2>2. ClustersOf(DirectoryAt(p)) = ch[p]
    BY <1>1, <2>1, ClustersAre
  <2>3. DOMAIN ch[p] = 1..Len(ch[p])
    BY <1>2, ChainTypes
  <2>. QED
    BY <1>3, <2>1, <2>2, <2>3 DEF Owned, ClusterSet
<1>4. \A c \in Owned(p) : In(ch, p, c)
  <2>1. CASE IsDirectory(p)
    BY <2>1, <1>3 DEF In
  <2>2. CASE ~IsDirectory(p)
    BY <2>2 DEF Owned
  <2>. QED
    BY <2>1, <2>2
<1>5. IsDirectory(p) /\ p # Top => ch[p] # <<>> /\ Len(ch[p]) = SetAt(p).len
  BY <1>1, <1>3 DEF Struct, Records, Recorded
<1>. QED
  BY <1>1, <1>2, <1>3, <1>4, <1>5

(* What an operation has in hand is the chain of no directory.             *)
LEMMA InHandIs ==
    ASSUME Types, NEW ch \in Chains, Struct(ch), Held(ch)
    PROVE  \A c \in InHand : In(ch, Hand, c)
<1>1. Hand \in Dirs /\ ch[Hand] \in Seq(Clusters) /\ Len(ch[Hand]) \in Nat
  BY PlacesApart, ChainTypes
<1>2. CASE Claimed
  <2>1. ch[Hand] = <<op.new>>
    BY <1>2 DEF Held, HandIs
  <2>2. Len(ch[Hand]) = 1 /\ ch[Hand][1] = op.new
    BY <2>1
  <2>3. InHand = {op.new}
    BY <1>2 DEF InHand, Claimed, At
  <2>. QED
    BY <2>2, <2>3 DEF In
<1>3. CASE Releasing
  <2>1. /\ op.left \in Nat \ {0} /\ Len(ch[Hand]) = op.left /\ ch[Hand][1] = op.cl
        /\ At("unmark") /\ op.left # 1 => op.next = ch[Hand][2]
    BY <1>3 DEF Held, HandIs
  <2>2. Len(ch[Hand]) <= ClusterCount /\ ch[Hand] # <<>>
    BY <1>1, <2>1, NotTwice DEF Struct
  <2>3. CASE At("free")
    <3>1. \A i \in 1..(Len(ch[Hand]) - 1) : fat[ch[Hand][i]] = ch[Hand][i + 1]
      BY <1>1, <2>3 DEF Struct, Linked, Cut, At
    <3>2. \A i \in 1..op.left : Chain(op.cl)[i] = ch[Hand][i]
      <4>1. PICK s \in Seq(Clusters) : s = ch[Hand]
        BY <1>1
      <4>2. s # <<>> /\ Len(s) <= ClusterCount /\ \A i \in 1..(Len(s) - 1) : fat[s[i]] = s[i + 1]
        BY <2>2, <3>1, <4>1
      <4>3. \A i \in 1..Len(s) : Chain(s[1])[i] = s[i]
        BY <4>2, ChainLeads
      <4>. QED
        BY <2>1, <4>1, <4>3
    <3>3. InHand = FirstOf(op.cl, op.left)
      BY <2>3 DEF InHand, At
    <3>. QED
      BY <2>1, <3>2, <3>3 DEF FirstOf, In
  <2>4. CASE At("unmark")
    <3>1. InHand = {op.cl} \cup (IF op.left = 1 THEN {} ELSE FirstOf(op.next, op.left - 1))
      BY <2>4 DEF InHand, At
    <3>2. 1 \in 1..Len(ch[Hand]) /\ In(ch, Hand, op.cl)
      BY <2>1 DEF In
    <3>3. ASSUME op.left # 1, NEW c \in FirstOf(op.next, op.left - 1) PROVE In(ch, Hand, c)
      <4>. DEFINE t == Tail(ch[Hand])
      <4>1. t \in Seq(Clusters) /\ Len(t) = op.left - 1 /\ \A i \in 1..Len(t) : t[i] = ch[Hand][i + 1]
        BY <1>1, <2>1, <2>2
      <4>. HIDE DEF t
      <4>2. t # <<>> /\ Len(t) <= ClusterCount /\ t[1] = op.next
        <5>1. Len(t) # 0 /\ 1 \in 1..Len(t)
          BY <2>1, <3>3, <4>1
        <5>2. Len(t) <= ClusterCount
          BY <2>1, <2>2, <4>1, Parameters
        <5>. QED
          BY <2>1, <2>4, <3>3, <4>1, <5>1, <5>2
      <4>3. \A i \in 1..(Len(t) - 1) : fat[t[i]] = t[i + 1]
        <5>. SUFFICES ASSUME NEW i \in 1..(Len(t) - 1) PROVE fat[t[i]] = t[i + 1]
          OBVIOUS
        <5>1. /\ i \in 1..Len(t) /\ i + 1 \in 1..Len(t) /\ i + 1 \in 1..(Len(ch[Hand]) - 1)
              /\ i + 1 # 1
          BY <2>1, <4>1
        <5>2. fat[ch[Hand][i + 1]] = ch[Hand][(i + 1) + 1]
          BY <1>1, <5>1 DEF Struct, Linked, Cut
        <5>. QED
          BY <5>1, <5>2, <4>1
      <4>4. \A i \in 1..Len(t) : Chain(op.next)[i] = t[i]
        BY <4>1, <4>2, <4>3, ChainLeads
      <4>5. PICK i \in 1..(op.left - 1) : c = Chain(op.next)[i]
        BY <3>3 DEF FirstOf
      <4>6. c = ch[Hand][i + 1] /\ i + 1 \in 1..Len(ch[Hand])
        BY <2>1, <4>1, <4>4, <4>5
      <4>. QED
        BY <4>6 DEF In
    <3>. QED
      BY <3>1, <3>2, <3>3
  <2>. QED
    BY <2>3, <2>4, <1>3 DEF Releasing, At
<1>4. CASE ~Claimed /\ ~Releasing
  BY <1>4 DEF InHand, Claimed, Releasing, At
<1>. QED
  BY <1>2, <1>3, <1>4

LEMMA InvOwnClusters == ASSUME Inv PROVE OwnClusters
<1>1. PICK ch \in Chains : Types /\ Struct(ch) /\ Held(ch)
  BY DEF Inv
<1>2. \A p \in PlacesListed : /\ p \in Dirs /\ p # Hand
                              /\ \A c \in Owned(p) : In(ch, p, c)
  BY <1>1, OwnedIs
<1>3. Reached \subseteq used
  BY <1>1, <1>2 DEF Reached, Struct, Marked, In
<1>4. \A p, q \in Dirs : \A c : In(ch, p, c) /\ In(ch, q, c) => p = q
  BY <1>1 DEF Struct, Disjoint, In
<1>5. InHand \cap Reached = {}
  <2>1. ASSUME NEW c \in InHand, NEW p \in PlacesListed, c \in Owned(p) PROVE FALSE
    <3>1. In(ch, Hand, c)
      BY <1>1, InHandIs
    <3>. QED
      BY <2>1, <3>1, <1>2, <1>4, PlacesApart
  <2>. QED
    BY <2>1 DEF Reached
<1>6. ASSUME NEW p \in PlacesListed, IsDirectory(p) /\ p # Top
      PROVE  Cardinality(Owned(p)) = SetAt(p).len
  <2>1. Owned(p) = {ch[p][i] : i \in 1..Len(ch[p])} /\ Len(ch[p]) = SetAt(p).len /\ p \in Dirs
    BY <1>1, <1>6, OwnedIs
  <2>. QED
    BY <1>1, <2>1, NotTwice DEF Struct
<1>7. \A p, q \in PlacesListed : p # q => Owned(p) \cap Owned(q) = {}
  BY <1>2, <1>4
<1>. QED
  BY <1>3, <1>5, <1>6, <1>7 DEF OwnClusters

-----------------------------------------------------------------------------
(* Each variable holds what the program keeps there, for every size of the *)
(* heap: the locals of create_dir_all, remove and rename (src/fs/          *)
(* operations.rs) are what their next step takes them for, and a           *)
(* directory's record has a cluster and a length.                          *)
THEOREM TypeCorrect ==
    ASSUME "retireOld" \notin FaultPoints, "renameShorter" \notin Ops
    PROVE  Spec => []TypeOK
<1>1. Inv => TypeOK
  BY InvTypeOK
<1>. QED
  BY <1>1, Invariance, PTL

(* No cluster is lost to another directory: whatever is made, grown,       *)
(* renamed and removed, and wherever an operation is interrupted but       *)
(* between the two writes of a rename (write_entry_set and                 *)
(* retire_entry_set, src/directory/slots.rs), the directories that callers *)
(* can list share no cluster, have all that their records say, and none    *)
(* that an operation still has in hand.                                    *)
THEOREM ClustersOwned ==
    ASSUME "retireOld" \notin FaultPoints, "renameShorter" \notin Ops
    PROVE  Spec => []OwnClusters
<1>1. Inv => OwnClusters
  BY InvOwnClusters
<1>. QED
  BY <1>1, Invariance, PTL

-----------------------------------------------------------------------------
(* What a listing shows, as a set of paths with the places they lead to:   *)
(* it spans a relation, which says what lies in which directory, and names.*)

Homes == {Top} \cup Places
Leads(L, path, x) == (path = <<>> /\ x = Top) \/ <<path, x>> \in L
Up(L, R, name, e, path, x) ==
    /\ Leads(L, path, x) /\ <<x, e[2]>> \in R /\ Len(path) < MaxDepth
    /\ e[1] = Append(path, name[e[2]]) /\ name[e[2]] \in AnyName
Spanned(L, R, name) ==
    /\ L \subseteq Seq(AnyName) \X Places
    /\ \A path \in Seq(AnyName), x \in Homes, q \in Places :
           Leads(L, path, x) /\ <<x, q>> \in R /\ Len(path) < MaxDepth =>
               <<Append(path, name[q]), q>> \in L
    /\ \A e \in L : \E path \in Seq(AnyName), x \in Homes : Up(L, R, name, e, path, x)

LEMMA UpLength ==
    ASSUME NEW L, NEW R, NEW a, NEW e, NEW path \in Seq(AnyName), NEW x, Up(L, R, a, e, path, x)
    PROVE  /\ Leads(L, path, x) /\ <<x, e[2]>> \in R /\ Len(path) < MaxDepth /\ Len(path) \in Nat
           /\ e[1] = Append(path, a[e[2]]) /\ e[1] \in Seq(AnyName) /\ Len(e[1]) = Len(path) + 1
           /\ Len(e[1]) \in 1..MaxDepth
<1>1. \A n \in AnyName : Append(path, n) \in Seq(AnyName) /\ Len(Append(path, n)) = Len(path) + 1
  OBVIOUS
<1>. QED
  BY <1>1, Parameters DEF Up

LEMMA SpannedUp ==
    ASSUME NEW L, NEW R, NEW a, Spanned(L, R, a), NEW e \in L
    PROVE  /\ e[1] \in Seq(AnyName) /\ e[2] \in Places /\ e = <<e[1], e[2]>> /\ Len(e[1]) \in 1..MaxDepth
           /\ \E path \in Seq(AnyName), x \in Homes : Up(L, R, a, e, path, x)
<1>1. PICK path \in Seq(AnyName), x \in Homes : Up(L, R, a, e, path, x)
  BY DEF Spanned
<1>2. Len(e[1]) \in 1..MaxDepth
  BY <1>1, UpLength
<1>3. e[1] \in Seq(AnyName) /\ e[2] \in Places /\ e = <<e[1], e[2]>>
  BY DEF Spanned
<1>. QED
  BY <1>1, <1>2, <1>3

LEMMA LeadsUp ==
    ASSUME NEW L, NEW R, NEW a, Spanned(L, R, a), NEW path, NEW x, Leads(L, path, x)
    PROVE  /\ path \in Seq(AnyName) /\ x \in Homes /\ Len(path) \in 0..MaxDepth
           /\ x = Top => path = <<>> /\ Len(path) = 0
           /\ x # Top => <<path, x>> \in L /\ x \in Places
<1>1. CASE path = <<>> /\ x = Top
  <2>1. <<>> \in Seq(AnyName) /\ Len(<<>>) = 0
    OBVIOUS
  <2>. QED
    BY <1>1, <2>1, Parameters DEF Homes
<1>2. CASE <<path, x>> \in L
  BY <1>2, SpannedUp, PlacesApart, Parameters DEF Homes
<1>. QED
  BY <1>1, <1>2 DEF Leads

LEMMA TopLeads ==
    ASSUME NEW L, NEW R, NEW a, Spanned(L, R, a), NEW path, NEW x, x = Top, Leads(L, path, x)
    PROVE  path = <<>>
<1>1. <<path, x>> \notin L
  <2>. SUFFICES ASSUME <<path, x>> \in L PROVE FALSE
    OBVIOUS
  <2>1. <<path, x>>[2] \in Places
    BY SpannedUp
  <2>. QED
    BY <2>1, PlacesApart
<1>. QED
  BY <1>1 DEF Leads

(* A relation within another spans a part of what that spans.              *)
LEMMA SpannedWithin ==
    ASSUME NEW L, NEW R, NEW a, Spanned(L, R, a), NEW M, NEW Q, NEW b, Spanned(M, Q, b),
           \A x \in Homes, q \in Places : <<x, q>> \in R => <<x, q>> \in Q /\ b[q] = a[q]
    PROVE  L \subseteq M
<1>. DEFINE T == {k \in 0..MaxDepth : \A e \in L : Len(e[1]) = k => e \in M}
<1>1. 0 \in T
  BY SpannedUp, Parameters
<1>2. ASSUME NEW k \in 1..MaxDepth, k - 1 \in T PROVE k \in T
  <2>. SUFFICES ASSUME NEW e \in L, Len(e[1]) = k PROVE e \in M
    BY Parameters
  <2>0. PICK path \in Seq(AnyName), x \in Homes : Up(L, R, a, e, path, x)
    BY SpannedUp
  <2>1. /\ Leads(L, path, x) /\ <<x, e[2]>> \in R /\ Len(path) < MaxDepth /\ Len(path) \in Nat
        /\ e[1] = Append(path, a[e[2]]) /\ Len(e[1]) = Len(path) + 1
    BY <2>0, UpLength
  <2>2. e[2] \in Places /\ e = <<e[1], e[2]>> /\ Len(path) = k - 1
    BY <2>1, SpannedUp, Parameters
  <2>3. Leads(M, path, x)
    BY <1>2, <2>1, <2>2 DEF Leads
  <2>4. <<x, e[2]>> \in Q /\ b[e[2]] = a[e[2]]
    BY <2>1, <2>2
  <2>5. <<Append(path, b[e[2]]), e[2]>> \in M
    BY <2>1, <2>2, <2>3, <2>4 DEF Spanned
  <2>. QED
    BY <2>1, <2>2, <2>4, <2>5
<1>. HIDE DEF T
<1>3. \A k \in 0..MaxDepth : k \in T
  BY <1>1, <1>2, IntervalInduction, Parameters
<1>4. \A e \in L : Len(e[1]) \in 0..MaxDepth
  BY SpannedUp, Parameters
<1>. QED
  BY <1>3, <1>4 DEF T

LEMMA SpannedSame ==
    ASSUME NEW L, NEW R, NEW a, Spanned(L, R, a), NEW M, NEW Q, NEW b, Spanned(M, Q, b),
           \A x \in Homes, q \in Places : <<x, q>> \in R <=> <<x, q>> \in Q,
           \A x \in Homes, q \in Places : <<x, q>> \in R => b[q] = a[q]
    PROVE  L = M
<1>1. L \subseteq M
  BY SpannedWithin
<1>2. M \subseteq L
  BY SpannedWithin
<1>. QED
  BY <1>1, <1>2

(* Nothing lies in two directories, so one path leads to a place.          *)
Apart(R) == \A x, y \in Homes, q \in Places : <<x, q>> \in R /\ <<y, q>> \in R => x = y

LEMMA OnePath ==
    ASSUME NEW L, NEW R, NEW a, Spanned(L, R, a), Apart(R),
           NEW path, NEW other, NEW x, Leads(L, path, x), Leads(L, other, x)
    PROVE  path = other
<1>. DEFINE T == {k \in 0..MaxDepth : \A e, f \in L : Len(e[1]) = k /\ e[2] = f[2] => e[1] = f[1]}
<1>1. 0 \in T
  BY SpannedUp, Parameters
<1>2. ASSUME NEW k \in 1..MaxDepth, k - 1 \in T PROVE k \in T
  <2>. SUFFICES ASSUME NEW e \in L, NEW f \in L, Len(e[1]) = k, e[2] = f[2] PROVE e[1] = f[1]
    BY Parameters
  <2>1. PICK p \in Seq(AnyName), y \in Homes : Up(L, R, a, e, p, y)
    BY SpannedUp
  <2>2. PICK q \in Seq(AnyName), z \in Homes : Up(L, R, a, f, q, z)
    BY SpannedUp
  <2>6. /\ Leads(L, p, y) /\ <<y, e[2]>> \in R /\ Len(p) = k - 1 /\ e[1] = Append(p, a[e[2]])
    BY <2>1, UpLength
  <2>7. Leads(L, q, z) /\ <<z, f[2]>> \in R /\ f[1] = Append(q, a[f[2]])
    BY <2>2, UpLength
  <2>3. y = z
    BY <2>6, <2>7, SpannedUp DEF Apart
  <2>4. CASE y = Top
    <3>1. p = <<>>
      BY <2>4, <2>6, TopLeads
    <3>2. q = <<>>
      BY <2>3, <2>4, <2>7, TopLeads
    <3>. QED
      BY <2>6, <2>7, <3>1, <3>2
  <2>5. CASE y # Top
    <3>1. <<p, y>> \in L /\ <<q, y>> \in L
      BY <2>3, <2>5, <2>6, <2>7 DEF Leads
    <3>2. <<p, y>>[1] = <<q, y>>[1]
      BY <1>2, <2>6, <3>1
    <3>. QED
      BY <2>6, <2>7, <3>2
  <2>. QED
    BY <2>4, <2>5
<1>. HIDE DEF T
<1>3. \A k \in 0..MaxDepth : k \in T
  BY <1>1, <1>2, IntervalInduction, Parameters
<1>4. CASE x = Top
  <2>1. path = <<>>
    BY <1>4, TopLeads
  <2>2. other = <<>>
    BY <1>4, TopLeads
  <2>. QED
    BY <2>1, <2>2
<1>5. CASE x # Top
  <2>1. <<path, x>> \in L /\ <<other, x>> \in L /\ Len(path) \in 0..MaxDepth
    BY <1>5, LeadsUp
  <2>2. <<path, x>>[1] = <<other, x>>[1]
    BY <1>3, <2>1 DEF T
  <2>. QED
    BY <2>2
<1>. QED
  BY <1>4, <1>5

(* A name more: what leads to a new place.                                 *)
LEMMA SpannedAdded ==
    ASSUME NEW L, NEW R, NEW a, Spanned(L, R, a), NEW M, NEW Q, NEW b, Spanned(M, Q, b), Apart(R),
           NEW home \in Homes, NEW p \in Places, NEW path \in Seq(AnyName),
           Leads(L, path, home), Len(path) < MaxDepth, home # p,
           \A x \in Homes, q \in Places : <<x, q>> \in Q <=> <<x, q>> \in R \/ (x = home /\ q = p),
           \A x \in Homes : <<x, p>> \notin R, \A q \in Places : <<p, q>> \notin R,
           \A x \in Homes, q \in Places : <<x, q>> \in R => b[q] = a[q]
    PROVE  M = L \cup {<<Append(path, b[p]), p>>}
<1>1. L \subseteq M
  BY SpannedWithin
<1>2. <<Append(path, b[p]), p>> \in M
  <2>1. Leads(M, path, home)
    BY <1>1 DEF Leads
  <2>. QED
    BY <2>1 DEF Spanned
<1>. DEFINE T == {k \in 0..MaxDepth : \A e \in M : Len(e[1]) = k /\ e[2] # p => e \in L}
<1>3. 0 \in T
  BY SpannedUp, Parameters
<1>4. ASSUME NEW k \in 1..MaxDepth, k - 1 \in T PROVE k \in T
  <2>. SUFFICES ASSUME NEW e \in M, Len(e[1]) = k, e[2] # p PROVE e \in L
    BY Parameters
  <2>1. PICK o \in Seq(AnyName), x \in Homes : Up(M, Q, b, e, o, x)
    BY SpannedUp
  <2>2. /\ Leads(M, o, x) /\ <<x, e[2]>> \in Q /\ Len(o) < MaxDepth /\ Len(o) = k - 1
        /\ e[1] = Append(o, b[e[2]])
    BY <2>1, UpLength
  <2>3. e[2] \in Places /\ e = <<e[1], e[2]>>
    BY SpannedUp
  <2>4. <<x, e[2]>> \in R /\ x # p /\ b[e[2]] = a[e[2]]
    BY <2>2, <2>3
  <2>5. Leads(L, o, x)
    BY <1>4, <2>2, <2>4 DEF Leads
  <2>6. <<Append(o, a[e[2]]), e[2]>> \in L
    BY <2>2, <2>3, <2>4, <2>5 DEF Spanned
  <2>. QED
    BY <2>2, <2>3, <2>4, <2>6
<1>. HIDE DEF T
<1>5. \A k \in 0..MaxDepth : k \in T
  BY <1>3, <1>4, IntervalInduction, Parameters
<1>6. ASSUME NEW e \in M, e[2] # p PROVE e \in L
  <2>1. Len(e[1]) \in 0..MaxDepth
    BY SpannedUp, Parameters
  <2>. QED
    BY <1>5, <1>6, <2>1 DEF T
<1>7. ASSUME NEW e \in M, e[2] = p PROVE e = <<Append(path, b[p]), p>>
  <2>1. PICK o \in Seq(AnyName), x \in Homes : Up(M, Q, b, e, o, x)
    BY SpannedUp
  <2>2. Leads(M, o, x) /\ <<x, p>> \in Q /\ e[1] = Append(o, b[p])
    BY <1>7, <2>1, UpLength
  <2>3. x = home
    BY <2>2
  <2>4. Leads(L, o, home)
    <3>1. <<o, home>> \in M => <<o, home>> \in L
      BY <1>6
    <3>. QED
      BY <2>2, <2>3, <3>1 DEF Leads
  <2>5. o = path
    BY <2>4, OnePath
  <2>. QED
    BY <1>7, <2>2, <2>5, SpannedUp
<1>. QED
  BY <1>1, <1>2, <1>6, <1>7

(* A name less: nothing lay there.                                         *)
LEMMA SpannedGone ==
    ASSUME NEW L, NEW R, NEW a, Spanned(L, R, a), NEW M, NEW Q, NEW b, Spanned(M, Q, b),
           NEW p \in Places,
           \A x \in Homes, q \in Places : <<x, q>> \in Q <=> <<x, q>> \in R /\ q # p,
           \A q \in Places : <<p, q>> \notin R,
           \A x \in Homes, q \in Places : <<x, q>> \in Q => b[q] = a[q]
    PROVE  M = {e \in L : e[2] # p}
<1>1. M \subseteq L
  BY SpannedWithin
<1>2. ASSUME NEW e \in M PROVE e[2] # p
  <2>1. PICK o \in Seq(AnyName), x \in Homes : Up(M, Q, b, e, o, x)
    BY SpannedUp
  <2>. QED
    BY <2>1, SpannedUp DEF Up
<1>. DEFINE T == {k \in 0..MaxDepth : \A e \in L : Len(e[1]) = k /\ e[2] # p => e \in M}
<1>3. 0 \in T
  BY SpannedUp, Parameters
<1>4. ASSUME NEW k \in 1..MaxDepth, k - 1 \in T PROVE k \in T
  <2>. SUFFICES ASSUME NEW e \in L, Len(e[1]) = k, e[2] # p PROVE e \in M
    BY Parameters
  <2>1. PICK o \in Seq(AnyName), x \in Homes : Up(L, R, a, e, o, x)
    BY SpannedUp
  <2>2. /\ Leads(L, o, x) /\ <<x, e[2]>> \in R /\ Len(o) < MaxDepth /\ Len(o) = k - 1
        /\ e[1] = Append(o, a[e[2]])
    BY <2>1, UpLength
  <2>3. e[2] \in Places /\ e = <<e[1], e[2]>>
    BY SpannedUp
  <2>4. <<x, e[2]>> \in Q /\ x # p /\ b[e[2]] = a[e[2]]
    BY <2>2, <2>3
  <2>5. Leads(M, o, x)
    BY <1>4, <2>2, <2>4 DEF Leads
  <2>6. <<Append(o, b[e[2]]), e[2]>> \in M
    BY <2>2, <2>3, <2>4, <2>5 DEF Spanned
  <2>. QED
    BY <2>2, <2>3, <2>4, <2>6
<1>. HIDE DEF T
<1>5. \A k \in 0..MaxDepth : k \in T
  BY <1>3, <1>4, IntervalInduction, Parameters
<1>6. ASSUME NEW e \in L, e[2] # p PROVE e \in M
  <2>1. Len(e[1]) \in 0..MaxDepth
    BY SpannedUp, Parameters
  <2>. QED
    BY <1>5, <1>6, <2>1 DEF T
<1>. QED
  BY <1>1, <1>2, <1>6

(* A subtree under another name.                                           *)
Begins(p, q) == Len(q) >= Len(p) /\ \A k \in 1..Len(p) : q[k] = p[k]
Renamed(old, n, path) ==
    [k \in 1..Len(path) |-> IF k = Len(old) /\ Begins(old, path) THEN n ELSE path[k]]

LEMMA PathEnds ==
    ASSUME NEW path \in Seq(AnyName), NEW m \in AnyName
    PROVE  /\ Append(path, m) \in Seq(AnyName) /\ Len(Append(path, m)) = Len(path) + 1 /\ Len(path) \in Nat
           /\ Append(path, m)[Len(path) + 1] = m /\ \A k \in 1..Len(path) : Append(path, m)[k] = path[k]
           /\ Parent(Append(path, m)) = path /\ Last(Append(path, m)) = m
<1>1. /\ Append(path, m) \in Seq(AnyName) /\ Len(Append(path, m)) = Len(path) + 1 /\ Len(path) \in Nat
      /\ Append(path, m)[Len(path) + 1] = m /\ \A k \in 1..Len(path) : Append(path, m)[k] = path[k]
  OBVIOUS
<1>. DEFINE s == Append(path, m)
<1>. HIDE DEF s
<1>2. \A n \in Nat : n + 1 - 1 = n
  OBVIOUS
<1>3. SubSeq(s, 1, Len(s) - 1) = path
  <2>1. s \in Seq(AnyName) /\ Len(s) = Len(path) + 1 /\ \A k \in 1..Len(path) : s[k] = path[k]
    BY <1>1 DEF s
  <2>. DEFINE t == SubSeq(s, 1, Len(path))
  <2>2. t \in Seq(AnyName) /\ Len(t) = Len(path) /\ \A k \in 1..Len(path) : t[k] = s[k]
    BY <1>1, <2>1
  <2>. HIDE DEF t
  <2>3. t = path
    BY <2>1, <2>2
  <2>. QED
    BY <1>1, <2>1, <2>3 DEF t
<1>. QED
  BY <1>1, <1>3 DEF s, Parent, Last

LEMMA SamePath ==
    ASSUME NEW p \in Seq(AnyName), NEW q \in Seq(AnyName), Len(p) = Len(q), \A k \in 1..Len(p) : p[k] = q[k]
    PROVE  p = q
OBVIOUS

LEMMA RenamedIs ==
    ASSUME NEW old \in Seq(AnyName), NEW n \in AnyName, NEW path \in Seq(AnyName)
    PROVE  /\ Renamed(old, n, path) \in Seq(AnyName) /\ Len(Renamed(old, n, path)) = Len(path)
           /\ \A k \in 1..Len(path) : Renamed(old, n, path)[k] =
                  IF k = Len(old) /\ Begins(old, path) THEN n ELSE path[k]
BY DEF Renamed

LEMMA RenamedEach ==
    ASSUME NEW old \in Seq(AnyName), NEW n \in AnyName, NEW path \in Seq(AnyName)
    PROVE  \E u \in Seq(AnyName) : /\ u = Renamed(old, n, path) /\ Len(u) = Len(path)
                                   /\ \A k \in 1..Len(path) : u[k] =
                                         IF k = Len(old) /\ Begins(old, path) THEN n ELSE path[k]
<1>1. PICK u \in Seq(AnyName) : u = Renamed(old, n, path)
  BY RenamedIs
<1>2. Len(u) = Len(path) /\ \A k \in 1..Len(path) : u[k] =
          IF k = Len(old) /\ Begins(old, path) THEN n ELSE path[k]
  BY <1>1, RenamedIs
<1>. QED
  BY <1>1, <1>2, Zenon

LEMMA RenamedEnds ==
    ASSUME NEW old \in Seq(AnyName), NEW n \in AnyName, NEW path \in Seq(AnyName), NEW m \in AnyName
    PROVE  /\ Append(path, m) = old =>
                  Renamed(old, n, path) = path /\ Renamed(old, n, old) = Append(path, n)
           /\ Append(path, m) # old =>
                  Renamed(old, n, Append(path, m)) = Append(Renamed(old, n, path), m)
<1>1. PICK s \in Seq(AnyName) : /\ s = Append(path, m) /\ Len(s) = Len(path) + 1 /\ Len(path) \in Nat
                                /\ s[Len(path) + 1] = m /\ \A k \in 1..Len(path) : s[k] = path[k]
  BY PathEnds
<1>2. PICK t \in Seq(AnyName) : /\ t = Append(path, n) /\ Len(t) = Len(path) + 1
                                /\ t[Len(path) + 1] = n /\ \A k \in 1..Len(path) : t[k] = path[k]
  BY ZenonT(40), PathEnds
<1>3. PICK r \in Seq(AnyName) : /\ r = Renamed(old, n, path) /\ Len(r) = Len(path)
                                /\ \A k \in 1..Len(path) : r[k] =
                                     IF k = Len(old) /\ Begins(old, path) THEN n ELSE path[k]
  BY ZenonT(40), RenamedEach
<1>4. PICK v \in Seq(AnyName) : /\ v = Renamed(old, n, s) /\ Len(v) = Len(s)
                                /\ \A k \in 1..Len(s) : v[k] =
                                     IF k = Len(old) /\ Begins(old, s) THEN n ELSE s[k]
  BY ZenonT(40), RenamedEach
<1>8. /\ Append(r, m) \in Seq(AnyName) /\ Len(Append(r, m)) = Len(r) + 1
      /\ Append(r, m)[Len(r) + 1] = m /\ \A k \in 1..Len(r) : Append(r, m)[k] = r[k]
  BY ONLY PathEnds, r \in Seq(AnyName), m \in AnyName
<1>7. PICK u \in Seq(AnyName) : /\ u = Append(r, m) /\ Len(u) = Len(r) + 1
                                /\ u[Len(r) + 1] = m /\ \A k \in 1..Len(r) : u[k] = r[k]
  BY <1>8, Zenon
<1>5. CASE s = old
  <2>1. Len(old) = Len(path) + 1 /\ Begins(old, s) /\ ~Begins(old, path)
    BY <1>1, <1>5 DEF Begins
  <2>2. r = path
    BY <1>3, <2>1, SamePath
  <2>3. \A k \in 1..Len(s) : v[k] = t[k]
    BY <1>1, <1>2, <1>4, <2>1
  <2>4. v = t
    BY <1>1, <1>2, <1>4, <2>3, SamePath
  <2>. QED
    BY <1>1, <1>2, <1>3, <1>4, <1>5, <2>2, <2>4
<1>6. CASE s # old
  <2>2. Begins(old, s) <=> Begins(old, path)
    <3>1. CASE Len(old) = Len(s)
      <4>1. ~Begins(old, s)
        BY <1>6, <3>1, SamePath DEF Begins
      <4>. QED
        BY <1>1, <3>1, <4>1 DEF Begins
    <3>2. CASE Len(old) # Len(s)
      <4>1. Len(s) >= Len(old) <=> Len(path) >= Len(old)
        BY <1>1, <3>2
      <4>. QED
        BY <1>1, <4>1 DEF Begins
    <3>. QED
      BY <3>1, <3>2
  <2>3. Len(old) = Len(s) => ~Begins(old, s)
    BY <1>6, SamePath DEF Begins
  <2>4. \A k \in 1..Len(s) : v[k] = u[k]
    <3>. SUFFICES ASSUME NEW k \in 1..Len(s) PROVE v[k] = u[k]
      OBVIOUS
    <3>1. CASE k = Len(s)
      BY <1>1, <1>3, <1>4, <1>7, <2>3, <3>1
    <3>2. CASE k # Len(s)
      <4>1. k \in 1..Len(path)
        BY <1>1, <3>2
      <4>. QED
        BY <1>1, <1>3, <1>4, <1>7, <2>2, <4>1
    <3>. QED
      BY <3>1, <3>2
  <2>5. v = u
    BY <1>1, <1>3, <1>4, <1>7, <2>4, SamePath
  <2>. QED
    BY <1>1, <1>3, <1>4, <1>6, <1>7, <2>5
<1>. QED
  BY <1>5, <1>6

Unique(L) == \A e, f \in L : e[1] = f[1] => e[2] = f[2]
Changed(p, q, x) == IF x = p THEN q ELSE x
Moved(old, n, p, q, L) == {<<Renamed(old, n, e[1]), Changed(p, q, e[2])>> : e \in L}

LEMMA RenamedTop ==
    ASSUME NEW old, NEW n PROVE Renamed(old, n, <<>>) = <<>>
BY DEF Renamed

LEMMA SpannedMoved ==
    ASSUME NEW L, NEW R, NEW a, Spanned(L, R, a), NEW M, NEW Q, NEW b, Spanned(M, Q, b), Apart(R),
           NEW p \in Places, NEW q \in Places, NEW old, <<old, p>> \in L, Unique(L), NEW n \in AnyName,
           \A x \in Homes, z \in Places : <<x, z>> \in R => <<Changed(p, q, x), Changed(p, q, z)>> \in Q,
           \A x \in Homes, z \in Places : <<x, z>> \in Q =>
               /\ <<Changed(q, p, x), Changed(q, p, z)>> \in R
               /\ x = Changed(p, q, Changed(q, p, x)) /\ z = Changed(p, q, Changed(q, p, z)),
           b[q] = n, \A x \in Homes, z \in Places : <<x, z>> \in R /\ z # p => b[z] = a[z]
    PROVE  M = Moved(old, n, p, q, L)
<1>0. old \in Seq(AnyName) /\ p # Top /\ q # Top
  BY SpannedUp, PlacesApart
<1>1. ASSUME NEW path \in Seq(AnyName), NEW x \in Homes, NEW z \in Places,
             Leads(L, path, x), <<x, z>> \in R, Len(path) < MaxDepth
      PROVE  /\ <<Append(path, a[z]), z>> \in L
             /\ Renamed(old, n, Append(path, a[z])) = Append(Renamed(old, n, path), b[Changed(p, q, z)])
  <2>1. <<Append(path, a[z]), z>> \in L
    BY <1>1 DEF Spanned
  <2>2. PICK o \in Seq(AnyName), y \in Homes : Up(L, R, a, <<Append(path, a[z]), z>>, o, y)
    BY <2>1, SpannedUp
  <2>3. a[z] \in AnyName
    BY <2>2 DEF Up
  <2>6. PICK m \in AnyName : m = a[z]
    BY <2>3
  <2>7. /\ Append(path, m) = old =>
               Renamed(old, n, path) = path /\ Renamed(old, n, old) = Append(path, n)
        /\ Append(path, m) # old =>
               Renamed(old, n, Append(path, m)) = Append(Renamed(old, n, path), m)
    BY ONLY <1>0, RenamedEnds, n \in AnyName, path \in Seq(AnyName), m \in AnyName
  <2>4. CASE z = p
    <3>2. b[Changed(p, q, z)] = n
      BY <2>4 DEF Changed
    <3>1. Append(path, a[z]) = old
      BY <2>1, <2>4, OnePath DEF Leads
    <3>. QED
      BY <2>1, <2>6, <2>7, <3>1, <3>2
  <2>5. CASE z # p
    <3>1. Append(path, a[z]) # old
      <4>1. <<old, p>>[1] = old /\ <<old, p>>[2] = p
        OBVIOUS
      <4>. QED
        BY <2>1, <2>5, <4>1 DEF Unique
    <3>2. b[z] = a[z]
      BY <1>1, <2>5
    <3>. QED
      BY <2>1, <2>5, <2>6, <2>7, <3>1, <3>2 DEF Changed
  <2>. QED
    BY <2>1, <2>4, <2>5
<1>2. \A path \in Seq(AnyName) : Renamed(old, n, path) \in Seq(AnyName) /\ Len(Renamed(old, n, path)) = Len(path)
  BY <1>0, RenamedIs
<1>3. Changed(p, q, Top) = Top /\ Changed(q, p, Top) = Top
  BY <1>0 DEF Changed
<1>. DEFINE T == {k \in 0..MaxDepth : \A e \in L : Len(e[1]) = k => <<Renamed(old, n, e[1]), Changed(p, q, e[2])>> \in M}
<1>4. 0 \in T
  BY SpannedUp, Parameters
<1>5. ASSUME NEW k \in 1..MaxDepth, k - 1 \in T PROVE k \in T
  <2>. SUFFICES ASSUME NEW e \in L, Len(e[1]) = k PROVE <<Renamed(old, n, e[1]), Changed(p, q, e[2])>> \in M
    BY Parameters
  <2>1. PICK o \in Seq(AnyName), x \in Homes : Up(L, R, a, e, o, x)
    BY SpannedUp
  <2>2. /\ Leads(L, o, x) /\ <<x, e[2]>> \in R /\ Len(o) < MaxDepth /\ Len(o) = k - 1
        /\ e[1] = Append(o, a[e[2]])
    BY <2>1, UpLength
  <2>3. e[2] \in Places /\ Changed(p, q, e[2]) \in Places /\ Changed(p, q, x) \in Homes
    BY SpannedUp DEF Changed, Homes
  <2>4. Leads(M, Renamed(old, n, o), Changed(p, q, x))
    <3>1. CASE o = <<>> /\ x = Top
      BY <3>1, <1>3, RenamedTop DEF Leads
    <3>2. CASE <<o, x>> \in L
      BY <3>2, <1>5, <2>2 DEF Leads
    <3>. QED
      BY <2>2, <3>1, <3>2 DEF Leads
  <2>5. <<Changed(p, q, x), Changed(p, q, e[2])>> \in Q
    BY <2>2, <2>3
  <2>6. <<Append(Renamed(old, n, o), b[Changed(p, q, e[2])]), Changed(p, q, e[2])>> \in M
    BY <1>2, <2>2, <2>3, <2>4, <2>5 DEF Spanned
  <2>. QED
    BY <1>1, <2>2, <2>3, <2>6
<1>. HIDE DEF T
<1>6. \A k \in 0..MaxDepth : k \in T
  BY <1>4, <1>5, IntervalInduction, Parameters
<1>7. \A e \in L : <<Renamed(old, n, e[1]), Changed(p, q, e[2])>> \in M
  <2>1. \A e \in L : Len(e[1]) \in 0..MaxDepth
    BY SpannedUp, Parameters
  <2>. QED
    BY <1>6, <2>1 DEF T
<1>. DEFINE U == {k \in 0..MaxDepth : \A e \in M : Len(e[1]) = k =>
                     \E f \in L : f[2] = Changed(q, p, e[2]) /\ e[1] = Renamed(old, n, f[1])}
<1>8. 0 \in U
  BY SpannedUp, Parameters
<1>9. ASSUME NEW k \in 1..MaxDepth, k - 1 \in U PROVE k \in U
  <2>. SUFFICES ASSUME NEW e \in M, Len(e[1]) = k
                PROVE \E f \in L : f[2] = Changed(q, p, e[2]) /\ e[1] = Renamed(old, n, f[1])
    BY Parameters
  <2>1. PICK o \in Seq(AnyName), x \in Homes : Up(M, Q, b, e, o, x)
    BY SpannedUp
  <2>2. /\ Leads(M, o, x) /\ <<x, e[2]>> \in Q /\ Len(o) < MaxDepth /\ Len(o) = k - 1
        /\ e[1] = Append(o, b[e[2]])
    BY <2>1, UpLength
  <2>3. e[2] \in Places /\ Changed(q, p, e[2]) \in Places /\ Changed(q, p, x) \in Homes
    BY SpannedUp DEF Changed, Homes
  <2>4. \E h \in Seq(AnyName) : Leads(L, h, Changed(q, p, x)) /\ o = Renamed(old, n, h)
    <3>1. CASE o = <<>> /\ x = Top
      BY <3>1, <1>3, RenamedTop DEF Leads
    <3>2. CASE <<o, x>> \in M
      <4>1. PICK f \in L : f[2] = Changed(q, p, x) /\ o = Renamed(old, n, f[1])
        BY <3>2, <1>9, <2>2
      <4>2. f[1] \in Seq(AnyName) /\ f = <<f[1], f[2]>>
        BY SpannedUp
      <4>. QED
        BY ZenonT(40), <4>1, <4>2 DEF Leads
    <3>. QED
      BY <2>2, <3>1, <3>2 DEF Leads
  <2>5. PICK h \in Seq(AnyName) : Leads(L, h, Changed(q, p, x)) /\ o = Renamed(old, n, h)
    BY <2>4
  <2>6. /\ <<Changed(q, p, x), Changed(q, p, e[2])>> \in R
        /\ e[2] = Changed(p, q, Changed(q, p, e[2]))
    BY <2>2, <2>3
  <2>7. Len(h) < MaxDepth
    BY <1>2, <2>2, <2>5
  <2>8. PICK z \in Places : z = Changed(q, p, e[2])
    BY <2>3
  <2>9. /\ <<Append(h, a[z]), z>> \in L
        /\ Renamed(old, n, Append(h, a[z])) = Append(Renamed(old, n, h), b[Changed(p, q, z)])
    BY <1>1, <2>3, <2>5, <2>6, <2>7, <2>8
  <2>. QED
    BY <2>2, <2>5, <2>6, <2>8, <2>9
<1>. HIDE DEF U
<1>10. \A k \in 0..MaxDepth : k \in U
  BY <1>8, <1>9, IntervalInduction, Parameters
<1>11. ASSUME NEW e \in M PROVE \E f \in L : e = <<Renamed(old, n, f[1]), Changed(p, q, f[2])>>
  <2>1. Len(e[1]) \in 0..MaxDepth /\ e[2] \in Places /\ e = <<e[1], e[2]>>
    BY SpannedUp, Parameters
  <2>2. PICK f \in L : f[2] = Changed(q, p, e[2]) /\ e[1] = Renamed(old, n, f[1])
    BY <1>10, <2>1 DEF U
  <2>3. e[2] = Changed(p, q, Changed(q, p, e[2]))
    <3>1. PICK o \in Seq(AnyName), x \in Homes : Up(M, Q, b, e, o, x)
      BY SpannedUp
    <3>. QED
      BY <2>1, <3>1 DEF Up
  <2>. QED
    BY <2>1, <2>2, <2>3
<1>. QED
  BY <1>7, <1>11 DEF Moved

(* What a caller lists is what lies in the directories.                    *)
Enters(ch, x, q) == Lies(ch, x, q) /\ SetAt(q).used /\ ~Hidden(q)
Inside(ch) == {h \in Homes \X Places : Enters(ch, h[1], h[2])}
NameOf == [q \in Places |-> SetAt(q).name]

LEMMA EntriesAre ==
    ASSUME Types, NEW ch \in Chains, Struct(ch), NEW x \in Homes, ch[x] # <<>>, NEW q
    PROVE  q \in Entries(DirectoryAt(x)) <=> Enters(ch, x, q)
<1>1. ClustersOf(DirectoryAt(x)) = ch[x]
  BY ClustersAre DEF Homes
<1>2. x \in Dirs /\ DOMAIN ch[x] = 1..Len(ch[x]) /\ \A i \in 1..Len(ch[x]) : ch[x][i] \in Clusters
  BY PlacesApart, ChainTypes DEF Homes
<1>3. \A c : c \in ClusterSet(DirectoryAt(x)) <=> c \in Clusters /\ In(ch, x, c)
  BY <1>1, <1>2 DEF ClusterSet, In
<1>4. q \in ClusterSet(DirectoryAt(x)) \X (1..SlotsPerCluster) <=> q \in Places /\ In(ch, x, q[1])
  BY <1>3 DEF Places, Slots
<1>. QED
  BY <1>4 DEF Entries, Enters, Lies

LEMMA InsideIs ==
    ASSUME NEW ch \in Chains, NEW x \in Homes, NEW q \in Places
    PROVE  /\ <<x, q>> \in Inside(ch) <=> Enters(ch, x, q)
           /\ Enters(ch, x, q) => ch[x] # <<>>
<1>1. In(ch, x, q[1]) => ch[x] # <<>>
  BY PlacesApart, ChainTypes DEF In, Homes
<1>. QED
  BY <1>1 DEF Inside, Enters, Lies

LEMMA HomeDirectory ==
    ASSUME NEW ch \in Chains, Struct(ch), NEW x \in Places, ch[x] # <<>>
    PROVE  Live(ch, x) /\ SetAt(x).used /\ SetAt(x).dir
BY DEF Struct, Records, Live

LEMMA ListedIs ==
    ASSUME Types, NEW ch \in Chains, Struct(ch), NEW R, R = Inside(ch), NEW a, a = NameOf
    PROVE  Spanned(Listed, R, a)
<1>1. CASE MaxDepth = 0
  <2>1. Listed = {}
    BY <1>1 DEF Listed
  <2>2. \A path \in Seq(AnyName) : ~(Len(path) < MaxDepth)
    BY <1>1
  <2>. QED
    BY <2>1, <2>2 DEF Spanned
<1>2. CASE MaxDepth # 0
  <2>1. PICK g : /\ \A k \in 1..MaxDepth : g[k] \subseteq OfLength(ch, k)
                 /\ g[1] = Kids(<<>>, DirectoryAt(Top))
                 /\ \A k \in 2..MaxDepth : g[k] = More(g[k - 1])
                 /\ Listed = UNION {g[k] : k \in 1..MaxDepth}
    BY <1>2, Levels
  <2>2. PICK L : L = Listed
    OBVIOUS
  <2>3. MaxDepth \in Nat \ {0} /\ 1 \in 1..MaxDepth /\ ch[Top] # <<>> /\ Top \in Homes
    BY <1>2, Parameters DEF Struct, RootChain, Homes
  <2>4. L \subseteq Seq(AnyName) \X Places
    BY <2>1, <2>2 DEF OfLength
  <2>5. ASSUME NEW path \in Seq(AnyName), NEW x \in Homes, NEW q \in Places,
               Leads(L, path, x), <<x, q>> \in R, Len(path) < MaxDepth
        PROVE  <<Append(path, a[q]), q>> \in L
    <3>1. Enters(ch, x, q) /\ ch[x] # <<>> /\ a[q] = SetAt(q).name
      BY <2>5, InsideIs DEF NameOf
    <3>2. q \in Entries(DirectoryAt(x))
      BY <3>1, EntriesAre
    <3>3. <<Append(path, a[q]), q>> \in Kids(path, DirectoryAt(x))
      BY <3>1, <3>2 DEF Kids
    <3>4. CASE path = <<>> /\ x = Top
      BY <2>1, <2>2, <2>3, <3>3, <3>4
    <3>5. CASE <<path, x>> \in L
      <4>1. PICK k \in 1..MaxDepth : <<path, x>> \in g[k]
        BY <2>1, <2>2, <3>5
      <4>2. x \in Places /\ k = Len(path)
        BY <2>1, <4>1 DEF OfLength
      <4>3. k + 1 \in 2..MaxDepth /\ k + 1 - 1 = k
        BY <2>3, <2>5, <4>2
      <4>4. g[k + 1] = More(g[k]) /\ k + 1 \in 1..MaxDepth
        <5>1. g[k + 1] = More(g[k + 1 - 1])
          BY <2>1, <4>3
        <5>. QED
          BY <4>3, <5>1
      <4>5. SetAt(x).dir
        BY <3>1, <4>2, HomeDirectory
      <4>6. Kids(path, DirectoryAt(x)) \subseteq More(g[k])
        BY <4>1, <4>5 DEF More
      <4>. QED
        BY <2>1, <2>2, <3>3, <4>4, <4>6
    <3>. QED
      BY <2>5, <3>4, <3>5 DEF Leads
  <2>6. ASSUME NEW y, NEW p \in Seq(AnyName), NEW x \in Homes, Leads(L, p, x), ch[x] # <<>>,
               Len(p) < MaxDepth, y \in Kids(p, DirectoryAt(x))
        PROVE  Up(L, R, a, y, p, x)
    <3>1. PICK q \in Entries(DirectoryAt(x)) : y = <<Append(p, SetAt(q).name), q>>
      BY <2>6 DEF Kids
    <3>2. Enters(ch, x, q) /\ q \in Places
      BY <2>6, <3>1, EntriesAre DEF Enters, Lies
    <3>3. <<x, q>> \in R /\ a[q] = SetAt(q).name
      BY <3>2, InsideIs DEF NameOf
    <3>4. SetAt(q).name \in AnyName
      <4>1. SetAt(q) \in SlotType
        BY <3>2, SetTypes
      <4>. QED
        BY <4>1 DEF SlotType, AnyName
    <3>. QED
      BY <2>6, <3>1, <3>3, <3>4 DEF Up
  <2>7. ASSUME NEW e \in L PROVE \E path \in Seq(AnyName), x \in Homes : Up(L, R, a, e, path, x)
    <3>1. PICK k \in 1..MaxDepth : e \in g[k]
      BY <2>1, <2>2
    <3>2. CASE k = 1
      <4>1. <<>> \in Seq(AnyName) /\ Len(<<>>) < MaxDepth /\ Leads(L, <<>>, Top)
        BY <2>3 DEF Leads
      <4>2. Up(L, R, a, e, <<>>, Top)
        BY <2>1, <2>3, <2>6, <3>1, <3>2, <4>1
      <4>. QED
        BY <2>3, <4>1, <4>2
    <3>3. CASE k # 1
      <4>1. k \in 2..MaxDepth /\ k - 1 \in 1..MaxDepth
        BY <2>3, <3>3
      <4>2. PICK y \in g[k - 1] : SetAt(y[2]).dir /\ e \in Kids(y[1], DirectoryAt(y[2]))
        BY <2>1, <3>1, <4>1 DEF More
      <4>3. y \in L /\ y[1] \in Seq(AnyName) /\ y[2] \in Places /\ Live(ch, y[2]) /\ Len(y[1]) = k - 1
        BY <2>1, <2>2, <4>1 DEF OfLength
      <4>4. ch[y[2]] # <<>> /\ y[2] \in Homes /\ y = <<y[1], y[2]>>
        BY <2>4, <4>2, <4>3 DEF Struct, Records, Recorded, Homes
      <4>5. Leads(L, y[1], y[2]) /\ Len(y[1]) < MaxDepth
        BY <2>3, <4>3, <4>4 DEF Leads
      <4>6. Up(L, R, a, e, y[1], y[2])
        BY <2>6, <4>2, <4>3, <4>4, <4>5
      <4>. QED
        BY <4>3, <4>4, <4>6
    <3>. QED
      BY <3>2, <3>3
  <2>. QED
    BY ONLY <2>2, <2>4, <2>5, <2>7 DEF Spanned
<1>. QED
  BY <1>1, <1>2

LEMMA InsideApart ==
    ASSUME NEW ch \in Chains, Struct(ch), NEW R, R = Inside(ch)
    PROVE  Apart(R)
<1>. SUFFICES ASSUME NEW x \in Homes, NEW y \in Homes, NEW q \in Places, <<x, q>> \in R, <<y, q>> \in R
              PROVE  x = y
  BY DEF Apart
<1>1. In(ch, x, q[1]) /\ In(ch, y, q[1])
  BY InsideIs DEF Enters, Lies
<1>2. x \in Dirs /\ y \in Dirs
  BY PlacesApart DEF Homes
<1>. QED
  BY <1>1, <1>2 DEF In, Struct, Disjoint

AllSpanned == \A ch \in Chains : Types /\ Struct(ch) => Spanned(Listed, Inside(ch), NameOf)
LEMMA ListedSpanned == AllSpanned
BY ListedIs DEF AllSpanned
-----------------------------------------------------------------------------
(* A step, and what is listed before and after it.                         *)
Both(ch, w) == Types /\ Types' /\ ch \in Chains /\ w \in Chains /\ Struct(ch) /\ Struct(w)'
NamesStay(ch) == \A x \in Homes, q \in Places : Enters(ch, x, q) => SetAt(q)'.name = SetAt(q).name

LEMMA TwoListings ==
    ASSUME NEW ch, NEW w, Both(ch, w)
    PROVE  \E R, a, Q, b : /\ Spanned(Listed, R, a) /\ Spanned(Listed', Q, b) /\ Apart(R)
                           /\ \A x \in Homes, q \in Places : <<x, q>> \in R <=> Enters(ch, x, q)
                           /\ \A x \in Homes, q \in Places : <<x, q>> \in Q <=> Enters(w, x, q)'
                           /\ \A q \in Places : a[q] = SetAt(q).name /\ b[q] = SetAt(q)'.name
<1>1. ch \in Chains /\ w \in Chains /\ Struct(ch) /\ Types
  BY DEF Both
<1>2. Spanned(Listed, Inside(ch), NameOf) /\ Apart(Inside(ch))
  BY <1>1, ListedIs, InsideApart
<1>3. Spanned(Listed', Inside(w)', NameOf')
  <2>1. AllSpanned'
    BY ListedSpanned, PTL
  <2>. QED
    BY <2>1 DEF Both, AllSpanned
<1>4. PICK R : R = Inside(ch)
  OBVIOUS
<1>5. PICK Q : Q = Inside(w)'
  OBVIOUS
<1>6. PICK a : a = NameOf
  OBVIOUS
<1>7. PICK b : b = NameOf'
  OBVIOUS
<1>8. \A x \in Homes, q \in Places : <<x, q>> \in R <=> Enters(ch, x, q)
  BY <1>4 DEF Inside
<1>9. \A x \in Homes, q \in Places : <<x, q>> \in Q <=> Enters(w, x, q)'
  BY <1>5 DEF Inside
<1>10. \A q \in Places : a[q] = SetAt(q).name /\ b[q] = SetAt(q)'.name
  BY <1>6, <1>7 DEF NameOf
<1>. QED
  BY <1>2, <1>3, <1>4, <1>5, <1>6, <1>7, <1>8, <1>9, <1>10

LEMMA ListedStill ==
    ASSUME NEW ch, NEW w, Both(ch, w), NamesStay(ch),
           \A x \in Homes, q \in Places : Enters(w, x, q)' <=> Enters(ch, x, q)
    PROVE  Listed' = Listed
<1>1. PICK R, a, Q, b : /\ Spanned(Listed, R, a) /\ Spanned(Listed', Q, b) /\ Apart(R)
                        /\ \A x \in Homes, q \in Places : <<x, q>> \in R <=> Enters(ch, x, q)
                        /\ \A x \in Homes, q \in Places : <<x, q>> \in Q <=> Enters(w, x, q)'
                        /\ \A q \in Places : a[q] = SetAt(q).name /\ b[q] = SetAt(q)'.name
  BY TwoListings
<1>2. \A x \in Homes, q \in Places : <<x, q>> \in R <=> <<x, q>> \in Q
  BY <1>1
<1>3. \A x \in Homes, q \in Places : <<x, q>> \in R => b[q] = a[q]
  BY <1>1 DEF NamesStay
<1>4. PICK L : L = Listed
  OBVIOUS
<1>5. PICK M : M = Listed'
  OBVIOUS
<1>6. L = M
  BY ONLY <1>1, <1>2, <1>3, <1>4, <1>5, SpannedSame
<1>. QED
  BY <1>4, <1>5, <1>6

LEMMA ListedMore ==
    ASSUME NEW ch, NEW w, Both(ch, w), NamesStay(ch),
           NEW p \in Places, NEW home \in Homes, NEW path \in Seq(AnyName),
           Leads(Listed, path, home), Len(path) < MaxDepth, home # p,
           \A x \in Homes, q \in Places : Enters(w, x, q)' <=> Enters(ch, x, q) \/ (x = home /\ q = p),
           \A x \in Homes : ~Enters(ch, x, p), \A q \in Places : ~Enters(ch, p, q)
    PROVE  Listed' = Listed \cup {<<Append(path, SetAt(p)'.name), p>>}
<1>1. PICK R, a, Q, b : /\ Spanned(Listed, R, a) /\ Spanned(Listed', Q, b) /\ Apart(R)
                        /\ \A x \in Homes, q \in Places : <<x, q>> \in R <=> Enters(ch, x, q)
                        /\ \A x \in Homes, q \in Places : <<x, q>> \in Q <=> Enters(w, x, q)'
                        /\ \A q \in Places : a[q] = SetAt(q).name /\ b[q] = SetAt(q)'.name
  BY TwoListings
<1>2. \A x \in Homes, q \in Places : <<x, q>> \in Q <=> <<x, q>> \in R \/ (x = home /\ q = p)
  BY <1>1
<1>3. \A x \in Homes, q \in Places : <<x, q>> \in R => b[q] = a[q]
  BY <1>1 DEF NamesStay
<1>4. (\A x \in Homes : <<x, p>> \notin R) /\ (\A q \in Places : <<p, q>> \notin R)
  BY <1>1 DEF Homes
<1>5. PICK L : L = Listed
  OBVIOUS
<1>6. PICK M : M = Listed'
  OBVIOUS
<1>7. Leads(L, path, home) /\ Len(path) < MaxDepth /\ home # p
  BY <1>5
<1>8. M = L \cup {<<Append(path, b[p]), p>>}
  BY ONLY <1>1, <1>2, <1>3, <1>4, <1>5, <1>6, <1>7, p \in Places, home \in Homes, path \in Seq(AnyName),
          SpannedAdded
<1>. QED
  BY <1>1, <1>5, <1>6, <1>8

LEMMA ListedLess ==
    ASSUME NEW ch, NEW w, Both(ch, w), NEW p \in Places,
           \A x \in Homes, q \in Places : Enters(ch, x, q) /\ q # p => SetAt(q)'.name = SetAt(q).name,
           \A x \in Homes, q \in Places : Enters(w, x, q)' <=> Enters(ch, x, q) /\ q # p,
           \A q \in Places : ~Enters(ch, p, q)
    PROVE  Listed' = {e \in Listed : e[2] # p}
<1>1. PICK R, a, Q, b : /\ Spanned(Listed, R, a) /\ Spanned(Listed', Q, b) /\ Apart(R)
                        /\ \A x \in Homes, q \in Places : <<x, q>> \in R <=> Enters(ch, x, q)
                        /\ \A x \in Homes, q \in Places : <<x, q>> \in Q <=> Enters(w, x, q)'
                        /\ \A q \in Places : a[q] = SetAt(q).name /\ b[q] = SetAt(q)'.name
  BY TwoListings
<1>2. \A x \in Homes, q \in Places : <<x, q>> \in Q <=> <<x, q>> \in R /\ q # p
  BY <1>1
<1>3. \A x \in Homes, q \in Places : <<x, q>> \in Q => b[q] = a[q]
  BY <1>1
<1>4. \A q \in Places : <<p, q>> \notin R
  BY <1>1 DEF Homes
<1>5. PICK L : L = Listed
  OBVIOUS
<1>6. PICK M : M = Listed'
  OBVIOUS
<1>8. M = {e \in L : e[2] # p}
  BY ONLY <1>1, <1>2, <1>3, <1>4, <1>5, <1>6, p \in Places, SpannedGone
<1>. QED
  BY <1>5, <1>6, <1>8

LEMMA ListedMoved ==
    ASSUME NEW ch, NEW w, Both(ch, w), NEW p \in Places, NEW q \in Places, NEW old,
           <<old, p>> \in Listed, Unique(Listed), NEW n \in AnyName, SetAt(q)'.name = n,
           \A x \in Homes, z \in Places : Enters(ch, x, z) => Enters(w, Changed(p, q, x), Changed(p, q, z))',
           \A x \in Homes, z \in Places : Enters(w, x, z)' =>
               /\ Enters(ch, Changed(q, p, x), Changed(q, p, z))
               /\ x = Changed(p, q, Changed(q, p, x)) /\ z = Changed(p, q, Changed(q, p, z)),
           \A x \in Homes, z \in Places : Enters(ch, x, z) /\ z # p => SetAt(z)'.name = SetAt(z).name
    PROVE  Listed' = Moved(old, n, p, q, Listed)
<1>1. PICK R, a, Q, b : /\ Spanned(Listed, R, a) /\ Spanned(Listed', Q, b) /\ Apart(R)
                        /\ \A x \in Homes, z \in Places : <<x, z>> \in R <=> Enters(ch, x, z)
                        /\ \A x \in Homes, z \in Places : <<x, z>> \in Q <=> Enters(w, x, z)'
                        /\ \A z \in Places : a[z] = SetAt(z).name /\ b[z] = SetAt(z)'.name
  BY TwoListings
<1>0. \A x \in Homes, z \in Places : /\ Changed(p, q, x) \in Homes /\ Changed(p, q, z) \in Places
                                     /\ Changed(q, p, x) \in Homes /\ Changed(q, p, z) \in Places
  BY DEF Changed, Homes
<1>2. \A x \in Homes, z \in Places : <<x, z>> \in R => <<Changed(p, q, x), Changed(p, q, z)>> \in Q
  BY <1>0, <1>1
<1>3. \A x \in Homes, z \in Places : <<x, z>> \in Q =>
               /\ <<Changed(q, p, x), Changed(q, p, z)>> \in R
               /\ x = Changed(p, q, Changed(q, p, x)) /\ z = Changed(p, q, Changed(q, p, z))
  BY <1>0, <1>1
<1>4. b[q] = n /\ \A x \in Homes, z \in Places : <<x, z>> \in R /\ z # p => b[z] = a[z]
  BY <1>1
<1>5. PICK L : L = Listed
  OBVIOUS
<1>6. PICK M : M = Listed'
  OBVIOUS
<1>7. <<old, p>> \in L /\ Unique(L)
  BY <1>5
<1>8. M = Moved(old, n, p, q, L)
  BY ONLY <1>1, <1>2, <1>3, <1>4, <1>5, <1>6, <1>7, p \in Places, q \in Places, n \in AnyName, SpannedMoved
<1>. QED
  BY <1>5, <1>6, <1>8

-----------------------------------------------------------------------------
(* The steps that no listing shows.                                        *)
Kept == Listed' = Listed /\ \A e \in Listed : SetAt(e[2])'.dir = SetAt(e[2]).dir
LooksSame(q) ==
    /\ SetAt(q)'.used = SetAt(q).used /\ SetAt(q)'.name = SetAt(q).name /\ SetAt(q)'.dir = SetAt(q).dir
    /\ Hidden(q)' <=> Hidden(q)
SameSight(ch) == \A x \in Homes, q \in Places : In(ch, x, q[1]) => LooksSame(q)

LEMMA HomesAre ==
    /\ Homes \subseteq Dirs /\ Dirs = Homes \cup {Hand} /\ Hand \notin Homes /\ Places \subseteq Homes
    /\ Top \in Homes /\ Homes = {Top} \cup Places
BY PlacesApart DEF Homes

LEMMA ListedHome ==
    ASSUME Types, NEW ch \in Chains, Struct(ch), NEW e \in Listed
    PROVE  /\ e[2] \in Places /\ Live(ch, e[2]) /\ e = <<e[1], e[2]>>
           /\ e[1] \in Seq(AnyName) /\ Len(e[1]) \in 1..MaxDepth
           /\ \E x \in Homes : Enters(ch, x, e[2])
<1>1. Spanned(Listed, Inside(ch), NameOf)
  BY ListedIs
<1>2. PICK L, R, a : L = Listed /\ R = Inside(ch) /\ a = NameOf
  OBVIOUS
<1>3. e \in L /\ Spanned(L, R, a)
  BY <1>1, <1>2
<1>4. PICK path \in Seq(AnyName), x \in Homes : Up(L, R, a, e, path, x)
  BY ONLY <1>3, SpannedUp
<1>5. e[1] \in Seq(AnyName) /\ e[2] \in Places /\ e = <<e[1], e[2]>> /\ Len(e[1]) \in 1..MaxDepth
  BY ONLY <1>3, SpannedUp
<1>6. Enters(ch, x, e[2])
  BY <1>2, <1>4, <1>5, InsideIs DEF Up
<1>7. Live(ch, e[2])
  BY <1>5, <1>6, LiesLive, HomesAre DEF Enters
<1>. QED
  BY <1>5, <1>6, <1>7

LEMMA ListedKept ==
    ASSUME NEW ch, NEW w, Both(ch, w), SameSight(ch),
           \A x \in Homes, q \in Places : In(ch, x, q[1]) => In(w, x, q[1]),
           \A x \in Homes, q \in Places : In(w, x, q[1]) /\ ~In(ch, x, q[1]) => ~SetAt(q)'.used
    PROVE  Kept
<1>1. ASSUME NEW x \in Homes, NEW q \in Places PROVE Enters(w, x, q)' <=> Enters(ch, x, q)
  <2>1. In(w, x, q[1])' <=> In(w, x, q[1])
    BY DEF In
  <2>2. CASE In(ch, x, q[1])
    BY <2>1, <2>2 DEF Enters, Lies, SameSight, LooksSame
  <2>3. CASE ~In(ch, x, q[1])
    BY <2>1, <2>3 DEF Enters, Lies
  <2>. QED
    BY <2>2, <2>3
<1>2. NamesStay(ch)
  BY DEF NamesStay, Enters, Lies, SameSight, LooksSame
<1>3. Listed' = Listed
  BY <1>1, <1>2, ListedStill
<1>4. ASSUME NEW e \in Listed PROVE SetAt(e[2])'.dir = SetAt(e[2]).dir
  <2>1. e[2] \in Places /\ \E x \in Homes : Enters(ch, x, e[2])
    BY ListedHome DEF Both
  <2>. QED
    BY <2>1 DEF Enters, Lies, SameSight, LooksSame
<1>. QED
  BY <1>3, <1>4 DEF Kept

(* Only the clusters in hand are others.                                   *)
LEMMA HandKept ==
    ASSUME NEW ch, NEW w, Both(ch, w), SameSight(ch), SameElsewhere(ch, w, {Hand})
    PROVE  Kept
<1>1. \A x \in Homes : w[x] = ch[x]
  BY HomesAre DEF SameElsewhere
<1>2. \A x \in Homes, q \in Places : In(ch, x, q[1]) <=> In(w, x, q[1])
  BY <1>1 DEF In
<1>. QED
  BY <1>2, ListedKept

(* A directory has a cluster more that was in hand.                        *)
LEMMA GrownKept ==
    ASSUME NEW ch, NEW w, Both(ch, w), SameSight(ch), SameClusters(ch, w),
           \A x \in Homes, q \in Places : In(ch, x, q[1]) => In(w, x, q[1]),
           \A q \in Places : In(ch, Hand, q[1]) => SetAt(q)' = SetAt(q)
    PROVE  Kept
<1>1. ASSUME NEW x \in Homes, NEW q \in Places, In(w, x, q[1]), ~In(ch, x, q[1]) PROVE ~SetAt(q)'.used
  <2>1. Anywhere(w, q[1])
    BY <1>1, HomesAre DEF Anywhere
  <2>2. PICK y \in Dirs : In(ch, y, q[1])
    BY <2>1 DEF SameClusters, Anywhere
  <2>3. y = Hand
    <3>. SUFFICES ASSUME y # Hand PROVE FALSE
      OBVIOUS
    <3>1. y \in Homes /\ In(w, y, q[1])
      BY <2>2, HomesAre
    <3>2. Disjoint(w)
      BY DEF Both, Struct, Disjoint
    <3>3. x = y
      BY <1>1, <3>1, <3>2, HomesAre DEF Disjoint, In
    <3>. QED
      BY <1>1, <2>2, <3>3
  <2>4. SetAt(q)' = SetAt(q)
    BY <2>2, <2>3
  <2>5. ~SetAt(q).used
    <3>1. PICK i \in 1..Len(ch[Hand]) : ch[Hand][i] = q[1]
      BY <2>2, <2>3 DEF In
    <3>2. q[2] \in Slots
      BY PlacesApart
    <3>3. ~content[ch[Hand][i]][q[2]].used
      BY <3>1, <3>2 DEF Both, Struct, HandEmpty
    <3>. QED
      BY <3>1, <3>3 DEF SetAt
  <2>. QED
    BY <2>4, <2>5
<1>. QED
  BY <1>1, ListedKept

LEMMA StepSets ==
    ASSUME content' = content, ~At("retireOld"), op'.pc # "retireOld"
    PROVE  /\ \A q : SetAt(q)' = SetAt(q) /\ LooksSame(q)
           /\ \A ch : SameSight(ch)
<1>1. \A q : SetAt(q)' = SetAt(q) /\ ~Hidden(q) /\ ~Hidden(q)'
  BY DEF SetAt, Hidden, At
<1>. QED
  BY <1>1 DEF LooksSame, SameSight

LEMMA QuietKept ==
    ASSUME Types, Types', NEW ch \in Chains, Struct(ch), UNCHANGED device, ~At("retireOld"),
           op'.pc # "retireOld"
    PROVE  Kept
<1>1. PICK w \in Chains : w = Emptied(ch) /\ Struct(w)' /\ SameElsewhere(ch, w, {Hand})
  BY StructEmptied, EmptiedIs DEF Struct
<1>2. Both(ch, w)
  BY <1>1 DEF Both
<1>3. SameSight(ch)
  BY StepSets DEF device
<1>. QED
  BY <1>1, <1>2, <1>3, HandKept

LEMMA ClaimKept ==
    ASSUME Types, Types', NEW ch \in Chains, Struct(ch), Held(ch), Claim
    PROVE  Kept
<1>1. PICK c \in Clusters : /\ Taken(ch, c) \in Chains /\ Struct(Taken(ch, c))' /\ ~Anywhere(ch, c)
                            /\ SameElsewhere(ch, Taken(ch, c), {Hand})
                            /\ \A p \in Places : p[1] # c => SetAt(p)' = SetAt(p)
  BY ClaimStruct
<1>2. PICK w \in Chains : w = Taken(ch, c)
  BY <1>1
<1>3. \A q : ~Hidden(q) /\ ~Hidden(q)'
  <2>1. At("claim") /\ op'.pc = "mark"
    BY DEF Claim, Types, OpType
  <2>. QED
    BY <2>1 DEF Hidden, At
<1>4. \A x \in Homes, q \in Places : In(ch, x, q[1]) => SetAt(q)' = SetAt(q)
  BY <1>1, HomesAre DEF Anywhere
<1>5. SameSight(ch)
  BY <1>3, <1>4 DEF SameSight, LooksSame
<1>6. Both(ch, w) /\ SameElsewhere(ch, w, {Hand})
  BY <1>1, <1>2 DEF Both
<1>. QED
  BY <1>5, <1>6, HandKept

LEMMA MarkKept ==
    ASSUME Types, Types', NEW ch \in Chains, Struct(ch), Held(ch), MarkUsed \/ Terminate \/ FreeLink
    PROVE  Kept
<1>1. Struct(ch)'
  BY MarkUsedStruct, TerminateStruct, FreeLinkStruct
<1>2. content' = content /\ ~At("retireOld") /\ op'.pc # "retireOld"
  <2>1. MarkUsed => content' = content /\ ~At("retireOld") /\ op'.pc # "retireOld"
    BY DEF MarkUsed, Types, OpType, At
  <2>2. Terminate => content' = content /\ ~At("retireOld") /\ op'.pc # "retireOld"
    BY DEF Terminate, Types, OpType, At
  <2>3. FreeLink => content' = content /\ ~At("retireOld") /\ op'.pc # "retireOld"
    BY DEF FreeLink, Types, OpType, At
  <2>. QED
    BY <2>1, <2>2, <2>3
<1>3. SameSight(ch)
  BY <1>2, StepSets
<1>4. Both(ch, ch) /\ SameElsewhere(ch, ch, {Hand})
  BY <1>1 DEF Both, SameElsewhere
<1>. QED
  BY <1>3, <1>4, HandKept

LEMMA UnmarkKept ==
    ASSUME Types, Types', NEW ch \in Chains, Struct(ch), Held(ch), Unmark
    PROVE  Kept
<1>1. PICK w \in Chains : w = Dropped(ch) /\ Struct(w)'
  BY UnmarkStruct
<1>2. ch[Hand] # <<>>
  <2>1. At("unmark")
    BY DEF Unmark
  <2>2. Len(ch[Hand]) = op.left /\ op.left \in Nat \ {0}
    BY <2>1 DEF Held, HandIs, Releasing, At
  <2>. QED
    BY <2>2
<1>3. SameElsewhere(ch, w, {Hand})
  BY <1>1, <1>2, DroppedIs DEF Struct
<1>4. content' = content /\ ~At("retireOld") /\ op'.pc # "retireOld"
  BY DEF Unmark, AfterUnmark, Types, OpType, At, Idle
<1>5. Both(ch, w) /\ SameSight(ch)
  BY <1>1, <1>4, StepSets DEF Both
<1>. QED
  BY <1>3, <1>5, HandKept

LEMMA LinkKept ==
    ASSUME Types, Types', NEW ch \in Chains, Struct(ch), Held(ch), Link
    PROVE  Kept
<1>1. content' = content /\ ~At("retireOld") /\ op'.pc # "retireOld"
  BY DEF Link, Types, OpType, At
<1>2. SameSight(ch) /\ \A q : SetAt(q)' = SetAt(q)
  BY <1>1, StepSets
<1>3. CASE op.dir.len # 0
  <2>1. Both(ch, ch) /\ SameElsewhere(ch, ch, {Hand})
    BY <1>3, LinkStruct DEF Both, SameElsewhere
  <2>. QED
    BY <1>2, <2>1, HandKept
<1>4. CASE op.dir.len = 0
  <2>1. PICK w \in Chains : /\ w = Attached(ch, Top) /\ Struct(w)' /\ SameElsewhere(ch, w, {Hand, Top})
                            /\ SameClusters(ch, w) /\ \A d : In(ch, Top, d) => In(w, Top, d)
    BY <1>4, LinkStruct
  <2>2. Both(ch, w)
    BY <2>1 DEF Both
  <2>3. \A x \in Homes, q \in Places : In(ch, x, q[1]) => In(w, x, q[1])
    <3>. SUFFICES ASSUME NEW x \in Homes, NEW q \in Places, In(ch, x, q[1])
                  PROVE  In(w, x, q[1])
      OBVIOUS
    <3>1. CASE x = Top
      BY <2>1, <3>1
    <3>2. CASE x # Top
      <4>1. w[x] = ch[x]
        BY <2>1, <3>2, HomesAre DEF SameElsewhere
      <4>. QED
        BY <4>1 DEF In
    <3>. QED
      BY <3>1, <3>2
  <2>. QED
    BY <1>2, <2>1, <2>2, <2>3, GrownKept
<1>. QED
  BY <1>3, <1>4

LEMMA LengthKept ==
    ASSUME Types, Types', NEW ch \in Chains, Struct(ch), Held(ch), RecordLength
    PROVE  Kept
<1>1. PICK y \in {Top} \cup Places : y = op.dir.at /\ ch[y] # <<>>
  BY DirectoryIs DEF RecordLength, Making, At
<1>2. PICK w \in Chains : w = Attached(ch, y)
  BY <1>1, RecordLengthStruct
<1>3. /\ Struct(w)' /\ SameClusters(ch, w) /\ SameElsewhere(ch, w, {Hand, y})
      /\ \A d : In(ch, y, d) => In(w, y, d)
      /\ y \in Places /\ Others(y)
      /\ SetAt(y)' = [SetAt(y) EXCEPT !.len = op.dir.len + 1] /\ SetAt(y) \in SlotType
  BY <1>1, <1>2, RecordLengthStruct
<1>4. \A q : ~Hidden(q) /\ ~Hidden(q)'
  <2>1. At("length") /\ op'.pc = "search"
    BY DEF RecordLength, Types, OpType
  <2>. QED
    BY <2>1 DEF Hidden, At
<1>5. \A q \in Places : LooksSame(q)
  <2>1. LooksSame(y)
    BY <1>3, <1>4 DEF LooksSame, SlotType
  <2>2. \A q \in Places \ {y} : LooksSame(q)
    BY <1>3, <1>4 DEF LooksSame, Others
  <2>. QED
    BY <2>1, <2>2
<1>6. Both(ch, w) /\ SameSight(ch)
  BY <1>3, <1>5 DEF Both, SameSight
<1>7. \A x \in Homes, q \in Places : In(ch, x, q[1]) => In(w, x, q[1])
  <2>. SUFFICES ASSUME NEW x \in Homes, NEW q \in Places, In(ch, x, q[1])
                PROVE  In(w, x, q[1])
    OBVIOUS
  <2>1. CASE x = y
    BY <1>3, <2>1
  <2>2. CASE x # y
    <3>1. w[x] = ch[x]
      BY <1>3, <2>2, HomesAre DEF SameElsewhere
    <3>. QED
      BY <3>1 DEF In
  <2>. QED
    BY <2>1, <2>2
<1>8. \A q \in Places : In(ch, Hand, q[1]) => SetAt(q)' = SetAt(q)
  <2>1. Live(ch, y)
    BY <1>1, <1>3, HomeDirectory
  <2>2. ~In(ch, Hand, y[1])
    BY <1>3, <2>1, LiveApart
  <2>. QED
    BY <1>3, <2>2 DEF Others
<1>. QED
  BY <1>3, <1>6, <1>7, <1>8, GrownKept
-----------------------------------------------------------------------------
(* The steps that a listing shows.                                         *)

LEMMA RenameWritten ==
    ASSUME Types, Types', NEW ch \in Chains, Struct(ch), Held(ch), WriteSet, op.kind = "rename"
    PROVE  Kept
<1>1. At("write") /\ Making /\ op.kind # "mkdir"
  BY DEF WriteSet, Making, At
<1>2. PICK p \in Places : p = op.place /\ ~SetAt(p).used
  BY <1>1 DEF Held, PlaceIs, Placed
<1>3. PICK s \in SlotType : s = op.set
  BY DEF Types, OpType
<1>4. Struct(ch)' /\ Others(p)
  BY <1>1, <1>2, <1>3, WriteStruct
<1>5. op' = [op EXCEPT !.pc = "retireOld"]
  BY ZenonT(40), <1>1 DEF WriteSet
<1>6. op'.pc = "retireOld" /\ op'.place = p
  BY <1>2, <1>5 DEF Types, OpType
<1>7. \A q \in Places : /\ ~Hidden(q) /\ (Hidden(q)' <=> q = p)
  BY <1>1, <1>6 DEF Hidden, At
<1>8. \A q \in Places \ {p} : SetAt(q)' = SetAt(q)
  BY <1>4 DEF Others
<1>9. ASSUME NEW x \in Homes, NEW q \in Places PROVE Enters(ch, x, q)' <=> Enters(ch, x, q)
  <2>1. In(ch, x, q[1])' <=> In(ch, x, q[1])
    BY DEF In
  <2>. QED
    BY <1>2, <1>7, <1>8, <2>1 DEF Enters, Lies
<1>10. \A x \in Homes, q \in Places : Enters(ch, x, q) => SetAt(q)' = SetAt(q)
  BY <1>2, <1>8 DEF Enters
<1>11. Both(ch, ch) /\ NamesStay(ch)
  BY <1>4, <1>10 DEF Both, NamesStay
<1>12. Listed' = Listed
  BY <1>9, <1>11, ListedStill
<1>13. ASSUME NEW e \in Listed PROVE SetAt(e[2])'.dir = SetAt(e[2]).dir
  <2>1. e[2] \in Places /\ \E x \in Homes : Enters(ch, x, e[2])
    BY ListedHome
  <2>. QED
    BY <1>10, <2>1
<1>. QED
  BY <1>12, <1>13 DEF Kept

LEMMA MadeListed ==
    ASSUME Types, Types', NEW ch \in Chains, Struct(ch), Held(ch), WriteSet, op.kind # "rename",
           NEW path \in Seq(AnyName), Leads(Listed, path, op.dir.at), Len(path) < MaxDepth,
           NEW p \in Places, p = op.place, NEW s \in SlotType, s = op.set
    PROVE  /\ Listed' = Listed \cup {<<Append(path, s.name), p>>} /\ SetAt(p)' = s
           /\ \A e \in Listed : e[2] # p /\ SetAt(e[2])'.dir = SetAt(e[2]).dir
<1>1. At("write") /\ Making /\ op.kind \in {"mkdir", "create"}
  BY DEF WriteSet, Making, At, Held, SetIs
<1>2. PICK x \in Homes : x = op.dir.at /\ ch[x] # <<>>
  BY <1>1, DirectoryIs DEF Homes
<1>3. ~SetAt(p).used /\ In(ch, x, p[1])
  BY <1>1, <1>2 DEF Held, PlaceIs, Placed
<1>5. ch[p] = <<>> /\ x # p
  BY <1>2, <1>3, NoChain
<1>6. s.used
  BY <1>1 DEF Held, SetIs
<1>7. PICK w \in Chains : /\ Struct(w)' /\ SetAt(p)' = s /\ Others(p)
                          /\ \A y \in Homes \ {p} : w[y] = ch[y]
                          /\ \A d : In(w, p, d) => In(ch, Hand, d)
  <2>1. CASE op.kind = "mkdir"
    <3>1. PICK w \in Chains : w = Attached(ch, p)
      BY <1>3, <2>1, MakeStruct
    <3>2. Struct(w)' /\ SetAt(p)' = s /\ Others(p)
      BY <1>3, <2>1, <3>1, MakeStruct
    <3>3. PICK c \in Clusters : c = op.new /\ ch[Hand] = <<c>>
      BY <1>1, <2>1 DEF Held, HandIs, Claimed, At
    <3>4. PICK r \in Dirs \ {Hand} : r = p
      BY PlacesApart
    <3>5. SameElsewhere(ch, w, {Hand, r}) /\ \A d : In(w, r, d) <=> In(ch, r, d) \/ d = c
      <4>1. Disjoint(ch) /\ w = Attached(ch, r) /\ ch[Hand] = <<c>>
        BY <3>1, <3>3, <3>4 DEF Struct
      <4>. QED
        BY ONLY ZenonT(40), <4>1, AttachedIs, ch \in Chains, c \in Clusters, r \in Dirs \ {Hand}
    <3>6. ~\E d : In(ch, p, d)
      BY <1>5 DEF In
    <3>7. In(ch, Hand, c)
      BY <3>3 DEF In
    <3>. QED
      BY <3>2, <3>4, <3>5, <3>6, <3>7, HomesAre DEF SameElsewhere
  <2>2. CASE op.kind # "mkdir"
    <3>1. Struct(ch)' /\ SetAt(p)' = s /\ Others(p)
      BY <1>3, <2>2, WriteStruct
    <3>2. ~\E d : In(ch, p, d)
      BY <1>5 DEF In
    <3>. QED
      BY <3>1, <3>2
  <2>. QED
    BY <2>1, <2>2
<1>8. \A q : ~Hidden(q) /\ ~Hidden(q)'
  <2>1. op'.pc # "retireOld"
    <3>1. op.kind = "mkdir" => op' = Idle \/ op'.pc = "descend"
      BY ZenonT(40) DEF WriteSet, Onward, Idle
    <3>2. op.kind # "mkdir" => op' = Idle
      BY ZenonT(40) DEF WriteSet
    <3>. QED
      BY <3>1, <3>2, IdleType
  <2>. QED
    BY <1>1, <2>1 DEF Hidden, At
<1>9. ASSUME NEW y \in Homes, NEW q \in Places
      PROVE  Enters(w, y, q)' <=> Enters(ch, y, q) \/ (y = x /\ q = p)
  <2>1. In(w, y, q[1])' <=> In(w, y, q[1])
    BY DEF In
  <2>2. y # p => (In(w, y, q[1]) <=> In(ch, y, q[1]))
    BY <1>7 DEF In
  <2>3. CASE q = p
    <3>1. In(ch, y, p[1]) <=> y = x
      BY <1>3, HomesAre DEF Struct, Disjoint, In
    <3>2. y = p => ~In(w, y, p[1])
      <4>1. ~In(ch, Hand, p[1])
        BY <1>3, HomesAre DEF Struct, Disjoint, In
      <4>. QED
        BY <1>7, <4>1
    <3>3. ~Enters(ch, y, p)
      BY <1>3 DEF Enters
    <3>4. Enters(w, y, p)' <=> In(w, y, p[1])
      BY <1>6, <1>7, <1>8, <2>1, <2>3 DEF Enters, Lies
    <3>. QED
      BY <1>5, <2>2, <2>3, <3>1, <3>2, <3>3, <3>4
  <2>4. CASE q # p
    <3>1. SetAt(q)' = SetAt(q)
      BY <1>7, <2>4 DEF Others
    <3>2. CASE y # p
      BY <1>8, <2>1, <2>2, <2>4, <3>1, <3>2 DEF Enters, Lies
    <3>3. CASE y = p
      <4>1. ~In(ch, y, q[1])
        BY <1>5, <3>3 DEF In
      <4>2. In(w, y, q[1]) => ~SetAt(q).used
        <5>. SUFFICES ASSUME In(w, y, q[1]) PROVE ~SetAt(q).used
          OBVIOUS
        <5>1. PICK i \in 1..Len(ch[Hand]) : ch[Hand][i] = q[1]
          BY <1>7, <3>3 DEF In
        <5>2. q[2] \in Slots
          BY PlacesApart
        <5>. QED
          BY <5>1, <5>2 DEF Struct, HandEmpty, SetAt
      <4>. QED
        BY <1>5, <2>1, <2>4, <3>1, <3>3, <4>1, <4>2 DEF Enters, Lies
    <3>. QED
      BY <3>2, <3>3
  <2>. QED
    BY <2>3, <2>4
<1>10. \A y \in Homes, q \in Places : Enters(ch, y, q) => q # p /\ SetAt(q)' = SetAt(q)
  BY <1>3, <1>7 DEF Enters, Others
<1>11. Both(ch, w) /\ NamesStay(ch)
  BY <1>7, <1>10 DEF Both, NamesStay
<1>12. (\A y \in Homes : ~Enters(ch, y, p)) /\ (\A q \in Places : ~Enters(ch, p, q))
  BY <1>3, <1>5 DEF Enters, Lies, In
<1>13. Listed' = Listed \cup {<<Append(path, SetAt(p)'.name), p>>}
  BY <1>2, <1>5, <1>9, <1>11, <1>12, ListedMore
<1>14. ASSUME NEW e \in Listed PROVE e[2] # p /\ SetAt(e[2])'.dir = SetAt(e[2]).dir
  <2>1. e[2] \in Places /\ \E y \in Homes : Enters(ch, y, e[2])
    BY ListedHome
  <2>. QED
    BY <1>10, <2>1
<1>. QED
  BY <1>7, <1>13, <1>14
LEMMA EditListed ==
    ASSUME Types, Types', NEW ch \in Chains, Struct(ch), Held(ch), EditName, Unique(Listed),
           NEW p \in Places, p = op.old, NEW old, <<old, p>> \in Listed, NEW n, n = op.name,
           op.set = SetAt(p)
    PROVE  /\ Listed' = Moved(old, n, p, p, Listed) /\ n \in Names
           /\ SetAt(p)' = [SetAt(p) EXCEPT !.name = n]
           /\ \A q \in Places : SetAt(q)'.dir = SetAt(q).dir
<1>1. At("edit") /\ SetSlot(p, Edited) /\ op' = Idle /\ Edited = [op.set EXCEPT !.name = op.name]
  BY EditPlain
<1>2. op.set \in SlotType /\ n \in Names
  BY <1>1 DEF Types, OpType, Held, SetIs, At
<1>3. PICK s \in SlotType : s = Edited
  BY <1>1, <1>2 DEF SlotType, StoredNames
<1>4. /\ s = [SetAt(p) EXCEPT !.name = n] /\ s.used = SetAt(p).used /\ s.dir = SetAt(p).dir /\ s.name = n
  BY <1>1, <1>2, <1>3 DEF SlotType
<1>5. SetAt(p)' = s /\ Others(p)
  BY <1>1, <1>3, SlotWritten
<1>6. Struct(ch)'
  BY EditStruct
<1>7. \A q : ~Hidden(q) /\ ~Hidden(q)'
  BY <1>1, IdleType DEF Hidden, At
<1>8. \A q \in Places : SetAt(q)'.used = SetAt(q).used /\ SetAt(q)'.dir = SetAt(q).dir
                        /\ (q # p => SetAt(q)'.name = SetAt(q).name)
  BY <1>4, <1>5 DEF Others
<1>9. \A x \in Homes, q \in Places : Enters(ch, x, q)' <=> Enters(ch, x, q)
  <2>1. \A x, d : In(ch, x, d)' <=> In(ch, x, d)
    BY DEF In
  <2>. QED
    BY <1>7, <1>8, <2>1 DEF Enters, Lies
<1>10. \A x : Changed(p, p, x) = x
  BY DEF Changed
<1>11. Both(ch, ch) /\ n \in AnyName
  BY <1>2, <1>6 DEF Both, AnyName, StoredNames
<1>12. Listed' = Moved(old, n, p, p, Listed)
  <2>0. PICK w \in Chains, r \in Places : w = ch /\ r = p
    OBVIOUS
  <2>1. \A x \in Homes, z \in Places : Enters(ch, x, z) => Enters(w, Changed(p, r, x), Changed(p, r, z))'
    BY <1>9, <1>10, <2>0
  <2>2. \A x \in Homes, z \in Places : Enters(w, x, z)' =>
               /\ Enters(ch, Changed(r, p, x), Changed(r, p, z))
               /\ x = Changed(p, r, Changed(r, p, x)) /\ z = Changed(p, r, Changed(r, p, z))
    BY <1>9, <1>10, <2>0
  <2>3. \A x \in Homes, z \in Places : Enters(ch, x, z) /\ z # p => SetAt(z)'.name = SetAt(z).name
    BY <1>8
  <2>4. Both(ch, w) /\ SetAt(r)'.name = n /\ n \in AnyName
    BY <1>4, <1>5, <1>11, <2>0
  <2>5. Listed' = Moved(old, n, p, r, Listed)
    BY <2>1, <2>2, <2>3, <2>4, ListedMoved
  <2>. QED
    BY <2>0, <2>5
<1>. QED
  BY <1>2, <1>4, <1>5, <1>8, <1>12

LEMMA RetiredListed ==
    ASSUME Types, Types', NEW ch \in Chains, Struct(ch), Held(ch), Retire, At("retire"),
           NEW p \in Places, p = op.old
    PROVE  /\ Listed' = {e \in Listed : e[2] # p} /\ \A q \in Places : ~Enters(ch, p, q)
           /\ \A q \in Places \ {p} : SetAt(q)'.dir = SetAt(q).dir
<1>1. PICK w \in Chains : w = Shifted(ch, p, Hand)
  BY RetireStruct
<1>2. Struct(w)' /\ Others(p) /\ SetAt(p)' = NoSet
  BY <1>1, RetireStruct
<1>3. Live(ch, p) /\ Copied
  BY DEF Held, OldIs, At
<1>4. ch[Hand] = <<>>
  BY DEF Held, HandIs, Claimed, Releasing, At
<1>5. SameElsewhere(ch, w, {p, Hand}) /\ w[p] = <<>>
  <2>1. PICK r \in Dirs, h \in Dirs : r = p /\ h = Hand /\ r # h /\ ch[h] = <<>>
    BY <1>4, PlacesApart
  <2>2. w = Shifted(ch, r, h) /\ Disjoint(ch)
    BY <1>1, <2>1 DEF Struct
  <2>3. SameElsewhere(ch, w, {r, h}) /\ w[r] = <<>>
    BY ONLY <2>1, <2>2, ShiftedIs, ch \in Chains
  <2>. QED
    BY <2>1, <2>3
<1>6. \A q \in Places : In(ch, p, q[1]) => ~SetAt(q).used
  <2>. SUFFICES ASSUME NEW q \in Places, In(ch, p, q[1]) PROVE ~SetAt(q).used
    OBVIOUS
  <2>1. PICK i \in 1..Len(ch[p]) : ch[p][i] = q[1]
    BY DEF In
  <2>2. ch[p] # <<>>
    BY <2>1, PlacesApart, ChainTypes
  <2>3. op.set.dir
    BY <1>3, <2>2 DEF Copied, Struct, Records
  <2>4. q[2] \in Slots
    BY PlacesApart
  <2>. QED
    BY <2>1, <2>3, <2>4 DEF Held, OldIs, At, SetAt
<1>7. \A q \in Places : ~Enters(ch, p, q)
  BY <1>6 DEF Enters, Lies
<1>8. \A q : ~Hidden(q) /\ ~Hidden(q)'
  <2>1. op'.pc # "retireOld"
    BY DEF Retire, Idle, Types, OpType
  <2>. QED
    BY <2>1 DEF Hidden, At
<1>9. ASSUME NEW x \in Homes, NEW q \in Places PROVE Enters(w, x, q)' <=> Enters(ch, x, q) /\ q # p
  <2>1. In(w, x, q[1])' <=> In(w, x, q[1])
    BY DEF In
  <2>2. x # p => (In(w, x, q[1]) <=> In(ch, x, q[1]))
    BY <1>5, HomesAre DEF In, SameElsewhere
  <2>3. ~In(w, p, q[1])
    BY <1>5 DEF In
  <2>4. CASE q = p
    BY <1>2, <2>4, NoSetType DEF Enters
  <2>5. CASE q # p
    <3>1. SetAt(q)' = SetAt(q)
      BY <1>2, <2>5 DEF Others
    <3>. QED
      BY <1>7, <1>8, <2>1, <2>2, <2>3, <2>5, <3>1 DEF Enters, Lies
  <2>. QED
    BY <2>4, <2>5
<1>10. Both(ch, w)
  BY <1>1, <1>2 DEF Both
<1>12. Listed' = {e \in Listed : e[2] # p}
  <2>1. \A x \in Homes, q \in Places : Enters(ch, x, q) /\ q # p => SetAt(q)'.name = SetAt(q).name
    BY <1>2 DEF Others
  <2>. QED
    BY <1>7, <1>9, <1>10, <2>1, ListedLess
<1>. QED
  BY <1>2, <1>7, <1>12 DEF Others

LEMMA MovedListed ==
    ASSUME Types, Types', NEW ch \in Chains, Struct(ch), Held(ch), Retire, At("retireOld"), Unique(Listed),
           NEW p \in Places, p = op.old, NEW q \in Places, q = op.place,
           NEW old, <<old, p>> \in Listed, NEW n \in AnyName, n = op.set.name,
           NEW home \in Homes, In(ch, home, p[1]), In(ch, home, q[1])
    PROVE  /\ Listed' = Moved(old, n, p, q, Listed)
           /\ SetAt(q)' = op.set /\ p # q /\ Copied
           /\ \A e \in Listed : SetAt(Changed(p, q, e[2]))'.dir = SetAt(e[2]).dir
<1>1. PICK w \in Chains : w = Shifted(ch, p, q)
  BY RenamedStruct
<1>2. Struct(w)' /\ Others(p) /\ SetAt(p)' = NoSet /\ op' = Idle
  BY <1>1, RenamedStruct
<1>3. Live(ch, p) /\ Copied /\ SetAt(q) = op.set
  BY DEF Held, OldIs, At
<1>4. Hidden(q) /\ p # q /\ ch[q] = <<>>
  <2>1. Hidden(q)
    BY DEF Hidden
  <2>. QED
    BY <2>1, <1>3, NoChain DEF Live
<1>5. SameElsewhere(ch, w, {p, q}) /\ w[p] = <<>> /\ w[q] = ch[p]
  <2>1. PICK r \in Dirs, h \in Dirs : r = p /\ h = q /\ r # h /\ ch[h] = <<>>
    BY <1>4, PlacesApart
  <2>2. w = Shifted(ch, r, h) /\ Disjoint(ch)
    BY <1>1, <2>1 DEF Struct
  <2>3. SameElsewhere(ch, w, {r, h}) /\ w[r] = <<>> /\ w[h] = ch[r]
    BY ONLY <2>1, <2>2, ShiftedIs, ch \in Chains
  <2>. QED
    BY <2>1, <2>3
<1>6. \A z \in Places : ~Hidden(z)' /\ (Hidden(z) <=> z = q)
  BY <1>2, IdleType DEF Hidden, At
<1>7. SetAt(q)' = SetAt(q) /\ SetAt(q).used /\ SetAt(q).dir = SetAt(p).dir
  BY <1>2, <1>3, <1>4 DEF Others, Copied
<1>8. home # p
  <2>1. SetAt(p).dir => ~In(ch, p, p[1])
    BY <1>3 DEF Struct, Records, Recorded
  <2>2. ~SetAt(p).dir => ch[p] = <<>>
    BY <1>3 DEF Struct, Records
  <2>3. ch[p] = <<>> => ~In(ch, p, p[1])
    BY DEF In
  <2>. QED
    BY <2>1, <2>2, <2>3
<1>9. home # q
  BY <1>4 DEF In
<1>10. \A x \in Homes : \A d : (In(w, x, d)' <=> In(w, x, d)) /\ ~In(w, p, d) /\ (In(w, q, d) <=> In(ch, p, d))
                          /\ ~In(ch, q, d) /\ (x # p /\ x # q => (In(w, x, d) <=> In(ch, x, d)))
  BY <1>4, <1>5, HomesAre DEF In, SameElsewhere
<1>11. \A x \in Homes : (In(ch, x, p[1]) <=> x = home) /\ (In(ch, x, q[1]) <=> x = home)
  BY HomesAre DEF Struct, Disjoint, In
<1>12. \A z \in Places \ {p} : SetAt(z)' = SetAt(z)
  BY <1>2 DEF Others
<1>13. ~SetAt(p)'.used
  BY <1>2, NoSetType
<1>14. \A x \in Homes, z \in Places : Enters(ch, x, z) => Enters(w, Changed(p, q, x), Changed(p, q, z))'
  <2>. SUFFICES ASSUME NEW x \in Homes, NEW z \in Places, Enters(ch, x, z)
                PROVE  Enters(w, Changed(p, q, x), Changed(p, q, z))'
    OBVIOUS
  <2>1. In(ch, x, z[1]) /\ SetAt(z).used /\ z # q /\ x # q
    BY <1>6, <1>10 DEF Enters, Lies
  <2>2. CASE z = p
    <3>1. x = home /\ Changed(p, q, x) = home /\ Changed(p, q, z) = q
      BY <1>8, <1>11, <2>1, <2>2 DEF Changed
    <3>2. In(w, home, q[1])'
      BY <1>8, <1>9, <1>10
    <3>3. Enters(w, home, q)'
      BY <1>6, <1>7, <3>2 DEF Enters, Lies
    <3>. QED
      BY <3>1, <3>3
  <2>3. CASE z # p
    <3>1. PICK y \in Homes : y = Changed(p, q, x)
      BY DEF Changed, Homes
    <3>2. In(w, y, z[1])'
      BY <1>10, <2>1, <3>1, HomesAre DEF Changed
    <3>3. SetAt(z)' = SetAt(z) /\ Changed(p, q, z) = z
      BY <1>12, <2>3 DEF Changed
    <3>4. Enters(w, y, z)'
      BY <1>6, <2>1, <3>2, <3>3 DEF Enters, Lies
    <3>. QED
      BY <3>1, <3>3, <3>4
  <2>. QED
    BY <2>2, <2>3
<1>15. \A x \in Homes, z \in Places : Enters(w, x, z)' =>
           /\ Enters(ch, Changed(q, p, x), Changed(q, p, z))
           /\ x = Changed(p, q, Changed(q, p, x)) /\ z = Changed(p, q, Changed(q, p, z))
  <2>. SUFFICES ASSUME NEW x \in Homes, NEW z \in Places, Enters(w, x, z)'
                PROVE  /\ Enters(ch, Changed(q, p, x), Changed(q, p, z))
                       /\ x = Changed(p, q, Changed(q, p, x)) /\ z = Changed(p, q, Changed(q, p, z))
    OBVIOUS
  <2>1. In(w, x, z[1]) /\ SetAt(z)'.used /\ z # p /\ x # p
    BY <1>10, <1>13 DEF Enters, Lies
  <2>2. x = Changed(p, q, Changed(q, p, x)) /\ z = Changed(p, q, Changed(q, p, z))
    BY <2>1 DEF Changed
  <2>3. PICK y \in Homes : y = Changed(q, p, x) /\ In(ch, y, z[1])
    BY <1>10, <2>1, HomesAre DEF Changed
  <2>4. CASE z = q
    <3>1. y = home /\ Changed(q, p, z) = p
      BY <1>11, <2>3, <2>4 DEF Changed
    <3>2. Enters(ch, home, p)
      BY <1>3, <1>4, <1>6 DEF Enters, Lies, Live
    <3>. QED
      BY <2>2, <2>3, <3>1, <3>2
  <2>5. CASE z # q
    <3>1. Changed(q, p, z) = z /\ Enters(ch, y, z)
      BY <1>6, <1>12, <2>1, <2>3, <2>5 DEF Changed, Enters, Lies
    <3>. QED
      BY <2>2, <2>3, <3>1
  <2>. QED
    BY <2>4, <2>5
<1>16. \A x \in Homes, z \in Places : Enters(ch, x, z) /\ z # p => SetAt(z)'.name = SetAt(z).name
  BY <1>12
<1>17. Both(ch, w) /\ SetAt(q)'.name = n
  BY <1>1, <1>2, <1>3, <1>7 DEF Both
<1>18. Listed' = Moved(old, n, p, q, Listed)
  BY <1>14, <1>15, <1>16, <1>17, ListedMoved
<1>19. ASSUME NEW e \in Listed PROVE SetAt(Changed(p, q, e[2]))'.dir = SetAt(e[2]).dir
  <2>1. PICK z \in Places : z = e[2]
    BY ListedHome
  <2>2. CASE z = p
    BY <1>7, <2>1, <2>2 DEF Changed
  <2>3. CASE z # p
    BY <1>12, <2>1, <2>3 DEF Changed
  <2>. QED
    BY <2>2, <2>3
<1>. QED
  BY <1>3, <1>4, <1>7, <1>18, <1>19
-----------------------------------------------------------------------------
(* One place has a path, and lookup finds it.                              *)
Absent(path) == \A e \in Listed : e[1] # path

LEMMA LeadsOnly ==
    ASSUME NEW L, NEW R, NEW a, Spanned(L, R, a), Unique(L),
           NEW path, NEW x, NEW y, Leads(L, path, x), Leads(L, path, y)
    PROVE  x = y
<1>1. ASSUME NEW z, <<path, z>> \in L PROVE path # <<>>
  <2>1. <<path, z>>[1] \in Seq(AnyName) /\ Len(<<path, z>>[1]) \in 1..MaxDepth
    BY <1>1, SpannedUp
  <2>2. Len(path) # 0
    BY <2>1
  <2>. QED
    BY <2>2
<1>2. ASSUME <<path, x>> \in L, <<path, y>> \in L PROVE x = y
  <2>1. <<path, x>>[1] = <<path, y>>[1] /\ <<path, x>>[2] = x /\ <<path, y>>[2] = y
    OBVIOUS
  <2>. QED
    BY <1>2, <2>1 DEF Unique
<1>. QED
  BY <1>1, <1>2 DEF Leads

(* A name is absent where no set has it.                                   *)
LEMMA NoChild ==
    ASSUME NEW L, NEW R, NEW a, Spanned(L, R, a), Unique(L), NEW path \in Seq(AnyName), NEW x,
           Leads(L, path, x), NEW n \in AnyName, \A q \in Places : <<x, q>> \in R => a[q] # n
    PROVE  \A e \in L : e[1] # Append(path, n)
<1>. SUFFICES ASSUME NEW e \in L, e[1] = Append(path, n) PROVE FALSE
  OBVIOUS
<1>1. PICK o \in Seq(AnyName), y \in Homes : Up(L, R, a, e, o, y)
  BY SpannedUp
<1>9. Leads(L, o, y) /\ <<y, e[2]>> \in R /\ e[1] = Append(o, a[e[2]])
  BY <1>1 DEF Up
<1>2. Leads(L, o, y) /\ <<y, e[2]>> \in R /\ e[1] = Append(o, a[e[2]]) /\ e[2] \in Places
  BY <1>9, SpannedUp
<1>3. a[e[2]] \in AnyName
  BY <1>1 DEF Up
<1>4. PICK m \in AnyName : m = a[e[2]]
  BY <1>3
<1>5. o = path /\ m = n
  <2>1. Append(o, m) = Append(path, n)
    BY <1>2, <1>4
  <2>2. /\ Parent(Append(o, m)) = o /\ Last(Append(o, m)) = m
        /\ Parent(Append(path, n)) = path /\ Last(Append(path, n)) = n
    BY PathEnds
  <2>. QED
    BY <2>1, <2>2
<1>6. y = x
  BY <1>2, <1>5, LeadsOnly
<1>. QED
  BY <1>2, <1>4, <1>5, <1>6

LEMMA NoParent ==
    ASSUME NEW L, NEW R, NEW a, Spanned(L, R, a), NEW path \in Seq(AnyName), NEW n \in AnyName,
           path # <<>>, \A e \in L : e[1] # path
    PROVE  \A e \in L : e[1] # Append(path, n)
<1>. SUFFICES ASSUME NEW e \in L, e[1] = Append(path, n) PROVE FALSE
  OBVIOUS
<1>1. PICK o \in Seq(AnyName), y \in Homes : Up(L, R, a, e, o, y)
  BY SpannedUp
<1>2. Leads(L, o, y) /\ e[1] = Append(o, a[e[2]]) /\ a[e[2]] \in AnyName
  BY <1>1 DEF Up
<1>3. PICK m \in AnyName : m = a[e[2]]
  BY <1>2
<1>4. o = path
  <2>1. Append(o, m) = Append(path, n)
    BY <1>2, <1>3
  <2>2. Parent(Append(o, m)) = o /\ Parent(Append(path, n)) = path
    BY PathEnds
  <2>. QED
    BY <2>1, <2>2
<1>5. <<path, y>> \in L
  BY <1>2, <1>4 DEF Leads
<1>. QED
  BY <1>5

(* A directory below: the scans of find_child and the listing agree.       *)
LEMMA BelowIs ==
    ASSUME Types, NEW ch \in Chains, Struct(ch), ~At("retireOld"), NEW x \in Homes, x \in Reachable(ch), NEW n
    PROVE  /\ Below(x, n) # None => Enters(ch, x, Below(x, n)) /\ SetAt(Below(x, n)).name = n
           /\ Below(x, n) = None => \A q \in Places : Enters(ch, x, q) => SetAt(q).name # n
<1>1. CASE ~IsDirectory(x)
  <2>1. Below(x, n) = None
    BY <1>1 DEF Below
  <2>2. x \in Places /\ ~SetAt(x).dir
    BY <1>1, PlacesApart DEF IsDirectory, Homes
  <2>3. ch[x] = <<>>
    BY <2>2, HomeDirectory
  <2>4. \A q \in Places : ~Enters(ch, x, q)
    BY <2>3, InsideIs
  <2>. QED
    BY <2>1, <2>4
<1>2. CASE IsDirectory(x)
  <2>1. x \in {Top} \cup Places /\ ch[x] # <<>>
    BY <1>2, LiveDirectory
  <2>2. PICK q : q = FindChild(DirectoryAt(x), n)
    OBVIOUS
  <2>3. /\ q # None => Lies(ch, x, q) /\ SetAt(q).used /\ SetAt(q).name = n
        /\ q = None => \A r : Lies(ch, x, r) => ~(SetAt(r).used /\ SetAt(r).name = n)
    BY <2>1, <2>2, ChildFound
  <2>4. Below(x, n) = q /\ \A r : ~Hidden(r)
    BY <1>2, <2>2 DEF Below, Hidden
  <2>. QED
    BY <2>3, <2>4 DEF Enters
<1>. QED
  BY <1>1, <1>2

LEMMA PathStarts ==
    ASSUME NEW path \in Seq(AnyName), NEW k \in 1..Len(path)
    PROVE  /\ SubSeq(path, 1, k) = Append(SubSeq(path, 1, k - 1), path[k]) /\ path[k] \in AnyName
           /\ SubSeq(path, 1, k) \in Seq(AnyName) /\ SubSeq(path, 1, k - 1) \in Seq(AnyName)
           /\ Len(SubSeq(path, 1, k)) = k /\ Len(SubSeq(path, 1, k - 1)) = k - 1
           /\ SubSeq(path, 1, 0) = <<>> /\ SubSeq(path, 1, Len(path)) = path
           /\ \A j \in 1..k : SubSeq(path, 1, k)[j] = path[j]
<1>1. Len(path) \in Nat /\ k - 1 \in 0..Len(path) /\ k - 1 \in Nat /\ k \in Nat
  OBVIOUS
<1>2. \A j \in 0..Len(path) : /\ SubSeq(path, 1, j) \in Seq(AnyName) /\ Len(SubSeq(path, 1, j)) = j
                              /\ \A l \in 1..j : SubSeq(path, 1, j)[l] = path[l]
  OBVIOUS
<1>13. /\ SubSeq(path, 1, k) \in Seq(AnyName) /\ Len(SubSeq(path, 1, k)) = k
       /\ \A l \in 1..k : SubSeq(path, 1, k)[l] = path[l]
  BY <1>1, <1>2
<1>14. /\ SubSeq(path, 1, k - 1) \in Seq(AnyName) /\ Len(SubSeq(path, 1, k - 1)) = k - 1
       /\ \A l \in 1..(k - 1) : SubSeq(path, 1, k - 1)[l] = path[l]
  BY <1>1, <1>2
<1>3. PICK u \in Seq(AnyName) : u = SubSeq(path, 1, k) /\ Len(u) = k /\ \A l \in 1..k : u[l] = path[l]
  BY <1>13, Zenon
<1>4. PICK v \in Seq(AnyName) : v = SubSeq(path, 1, k - 1) /\ Len(v) = k - 1 /\ \A l \in 1..(k - 1) : v[l] = path[l]
  BY <1>14, Zenon
<1>5. path[k] \in AnyName
  OBVIOUS
<1>6. PICK m \in AnyName : m = path[k]
  BY <1>5
<1>7. /\ Append(v, m) \in Seq(AnyName) /\ Len(Append(v, m)) = Len(v) + 1
      /\ Append(v, m)[Len(v) + 1] = m /\ \A j \in 1..Len(v) : Append(v, m)[j] = v[j]
  BY PathEnds
<1>15. PICK t \in Seq(AnyName) : /\ t = Append(v, m) /\ Len(t) = Len(v) + 1 /\ t[Len(v) + 1] = m
                                 /\ \A l \in 1..Len(v) : t[l] = v[l]
  BY <1>7, Zenon
<1>8. t = Append(v, m) /\ Len(t) = k /\ t[k] = m /\ \A l \in 1..(k - 1) : t[l] = v[l]
  BY <1>1, <1>4, <1>15
<1>9. u = t
  <2>1. \A l \in 1..k : l = k \/ l \in 1..(k - 1)
    BY <1>1
  <2>2. \A l \in 1..Len(u) : u[l] = t[l]
    BY <1>3, <1>4, <1>6, <1>8, <2>1
  <2>. QED
    BY <1>3, <1>8, <2>2, SamePath
<1>10. SubSeq(path, 1, 0) = <<>>
  OBVIOUS
<1>11. SubSeq(path, 1, Len(path)) = path
  <2>1. PICK s \in Seq(AnyName) : s = SubSeq(path, 1, Len(path)) /\ Len(s) = Len(path) /\ \A l \in 1..Len(path) : s[l] = path[l]
    BY <1>1, <1>2
  <2>. QED
    BY <2>1, SamePath
<1>. QED
  BY <1>3, <1>4, <1>5, <1>6, <1>8, <1>9, <1>10, <1>11

(* lookup finds what is listed, and nothing else.                          *)
LEMMA LookupListed ==
    ASSUME Types, NEW ch \in Chains, Struct(ch), ~At("retireOld"), Unique(Listed),
           NEW path \in Seq(Names), Len(path) <= MaxDepth
    PROVE  /\ Lookup(path) # None => Leads(Listed, path, Lookup(path)) /\ Lookup(path) \in Homes
           /\ Lookup(path) = None => Absent(path)
           /\ Lookup(path) \in Reachable(ch)
<1>. DEFINE way == Way(path)
            n == Len(path)
            Ok(k) == /\ way[k] # None => Leads(Listed, SubSeq(path, 1, k), way[k]) /\ way[k] \in Homes
                     /\ way[k] = None => k # 0 /\ Absent(SubSeq(path, 1, k))
            T == {k \in 0..n : Ok(k)}
<1>1. /\ way \in [0..n -> Reachable(ch)] /\ way[0] = Top
      /\ \A k \in 1..n : way[k] = Below(way[k - 1], path[k])
      /\ Lookup(path) = way[n]
  BY LookupSteps
<1>. HIDE DEF way
<1>2. n \in Nat /\ path \in Seq(AnyName)
  BY DEF AnyName, StoredNames
<1>3. 0 \in T
  <2>1. SubSeq(path, 1, 0) = <<>> /\ 0 \in 0..n /\ Top # None
    BY <1>2, PlacesApart
  <2>. QED
    BY <1>1, <2>1 DEF Leads, Homes
<1>4. PICK L, R, a : /\ L = Listed /\ R = Inside(ch) /\ a = NameOf /\ Spanned(L, R, a) /\ Unique(L)
  BY ListedIs
<1>5. ASSUME NEW k \in 1..n, k - 1 \in T PROVE k \in T
  <2>6. /\ SubSeq(path, 1, k) = Append(SubSeq(path, 1, k - 1), path[k]) /\ path[k] \in AnyName
        /\ SubSeq(path, 1, k) \in Seq(AnyName) /\ SubSeq(path, 1, k - 1) \in Seq(AnyName)
        /\ Len(SubSeq(path, 1, k - 1)) = k - 1
    BY <1>2, PathStarts
  <2>7. PICK m \in AnyName : m = path[k]
    BY <2>6, Zenon
  <2>8. PICK v \in Seq(AnyName) : v = SubSeq(path, 1, k - 1) /\ Len(v) = k - 1
    BY <2>6, Zenon
  <2>9. PICK u \in Seq(AnyName) : u = SubSeq(path, 1, k) /\ u = Append(v, m)
    BY <2>6, <2>7, <2>8, Zenon
  <2>1. u = SubSeq(path, 1, k) /\ v = SubSeq(path, 1, k - 1) /\ m = path[k] /\ u = Append(v, m) /\ Len(v) = k - 1
    BY <2>7, <2>8, <2>9
  <2>10. k \in 0..n /\ k # 0 /\ k \in Nat
    BY <1>2
  <2>11. /\ way[k - 1] # None => Leads(Listed, v, way[k - 1]) /\ way[k - 1] \in Homes
         /\ way[k - 1] = None => k - 1 # 0 /\ Absent(v)
    BY <1>5, <2>1
  <2>12. SUFFICES /\ way[k] # None => Leads(Listed, u, way[k]) /\ way[k] \in Homes
                  /\ way[k] = None => Absent(u)
    BY <2>1, <2>10
  <2>2. Len(v) < MaxDepth
    BY <1>2, <2>1, Parameters
  <2>3. PICK x \in Reachable(ch) : x = way[k - 1] /\ way[k] = Below(x, m)
    BY <1>1, <1>2, <2>1
  <2>4. CASE x = None
    <3>1. k - 1 # 0 /\ Absent(v)
      BY <2>11, <2>3, <2>4
    <3>2. v # <<>> /\ \A e \in L : e[1] # v
      BY <1>4, <2>1, <3>1 DEF Absent
    <3>3. \A e \in L : e[1] # u
      BY <1>4, <2>1, <3>2, NoParent
    <3>4. way[k] = None
      <4>1. ~IsDirectory(x)
        BY <2>4, PlacesApart DEF IsDirectory
      <4>. QED
        BY <2>3, <4>1 DEF Below
    <3>. QED
      BY <1>4, <3>3, <3>4 DEF Absent
  <2>5. CASE x # None
    <3>1. Leads(L, v, x) /\ x \in Homes
      BY <1>4, <2>11, <2>3, <2>5
    <3>2. PICK q : q = Below(x, m)
      OBVIOUS
    <3>3. /\ q # None => Enters(ch, x, q) /\ SetAt(q).name = m
          /\ q = None => \A z \in Places : Enters(ch, x, z) => SetAt(z).name # m
      BY <3>1, <3>2, BelowIs
    <3>4. CASE q # None
      <4>1. q \in Places /\ <<x, q>> \in R /\ a[q] = m
        BY <1>4, <3>1, <3>3, <3>4, InsideIs DEF Enters, Lies, NameOf
      <4>2. <<Append(v, m), q>> \in L
        BY <1>4, <2>1, <2>2, <3>1, <4>1 DEF Spanned
      <4>. QED
        BY <1>4, <2>9, <2>3, <3>2, <3>4, <4>1, <4>2 DEF Leads, Homes
    <3>5. CASE q = None
      <4>1. \A z \in Places : <<x, z>> \in R => a[z] # m
        BY <1>4, <3>1, <3>3, <3>5, InsideIs DEF NameOf
      <4>2. \A e \in L : e[1] # Append(v, m)
        BY ONLY <1>4, <3>1, <4>1, NoChild, v \in Seq(AnyName), m \in AnyName
      <4>. QED
        BY <1>4, <2>9, <2>3, <3>2, <3>5, <4>2 DEF Absent
    <3>. QED
      BY <3>4, <3>5
  <2>. QED
    BY <2>4, <2>5
<1>. HIDE DEF T
<1>6. \A k \in 0..n : k \in T
  BY <1>2, <1>3, <1>5, IntervalInduction
<1>7. SubSeq(path, 1, n) = path
  <2>1. PICK s \in Seq(AnyName) : s = SubSeq(path, 1, n) /\ Len(s) = n /\ \A l \in 1..n : s[l] = path[l]
    BY <1>2
  <2>. QED
    BY <1>2, <2>1, SamePath
<1>8. n \in 0..n
  BY <1>2
<1>. QED
  BY <1>1, <1>6, <1>7, <1>8 DEF T
-----------------------------------------------------------------------------
(* With a path its beginnings are listed, so no two paths become one when  *)
(* a subtree gets a name that is absent.                                   *)
LEMMA BeginningListed ==
    ASSUME NEW L, NEW R, NEW a, Spanned(L, R, a), NEW e \in L, NEW k \in 1..Len(e[1])
    PROVE  \E f \in L : Len(f[1]) = k /\ Begins(f[1], e[1])
<1>. DEFINE T == {m \in 0..MaxDepth : \A d \in L : Len(d[1]) = m =>
                     \A j \in 1..m : \E f \in L : Len(f[1]) = j /\ Begins(f[1], d[1])}
<1>1. 0 \in T
  BY SpannedUp, Parameters
<1>2. ASSUME NEW m \in 1..MaxDepth, m - 1 \in T PROVE m \in T
  <2>. SUFFICES ASSUME NEW d \in L, Len(d[1]) = m, NEW j \in 1..m
                PROVE  \E f \in L : Len(f[1]) = j /\ Begins(f[1], d[1])
    BY Parameters
  <2>1. CASE j = m
    BY <2>1, Parameters DEF Begins
  <2>2. CASE j # m
    <3>1. PICK path \in Seq(AnyName), x \in Homes : Up(L, R, a, d, path, x)
      BY SpannedUp
    <3>2. Leads(L, path, x) /\ d[1] = Append(path, a[d[2]]) /\ a[d[2]] \in AnyName
      BY <3>1 DEF Up
    <3>3. PICK c \in AnyName : c = a[d[2]]
      BY <3>2
    <3>4. /\ Len(d[1]) = Len(path) + 1 /\ Len(path) \in Nat
          /\ \A i \in 1..Len(path) : d[1][i] = path[i]
      BY <3>2, <3>3, PathEnds
    <3>5. Len(path) = m - 1 /\ j \in 1..(m - 1) /\ m \in Nat
      BY <2>2, <3>4, Parameters
    <3>6. <<path, x>> \in L
      BY <3>2, <3>5, Parameters DEF Leads
    <3>7. PICK f \in L : Len(f[1]) = j /\ Begins(f[1], <<path, x>>[1])
      BY <1>2, <3>5, <3>6
    <3>. QED
      BY <3>4, <3>5, <3>7 DEF Begins
  <2>. QED
    BY <2>1, <2>2
<1>. HIDE DEF T
<1>3. \A m \in 0..MaxDepth : m \in T
  BY <1>1, <1>2, IntervalInduction, Parameters
<1>4. Len(e[1]) \in 0..MaxDepth
  BY SpannedUp, Parameters
<1>. QED
  BY <1>3, <1>4 DEF T

LEMMA NewEnd ==
    ASSUME NEW old \in Seq(AnyName), NEW n \in AnyName, Len(old) # 0
    PROVE  /\ Append(Parent(old), n) \in Seq(AnyName) /\ Len(Append(Parent(old), n)) = Len(old)
           /\ \A k \in 1..Len(old) : Append(Parent(old), n)[k] = IF k = Len(old) THEN n ELSE old[k]
<1>1. Len(old) \in Nat \ {0} /\ Len(old) - 1 \in Nat
  OBVIOUS
<1>2. /\ Parent(old) \in Seq(AnyName) /\ Len(Parent(old)) = Len(old) - 1
      /\ \A k \in 1..(Len(old) - 1) : Parent(old)[k] = old[k]
  <2>1. \A j \in 0..Len(old) : /\ SubSeq(old, 1, j) \in Seq(AnyName) /\ Len(SubSeq(old, 1, j)) = j
                                /\ \A k \in 1..j : SubSeq(old, 1, j)[k] = old[k]
    OBVIOUS
  <2>2. Len(old) - 1 \in 0..Len(old)
    BY <1>1
  <2>. QED
    BY <2>1, <2>2 DEF Parent
<1>3. PICK v \in Seq(AnyName) : /\ v = Parent(old) /\ Len(v) = Len(old) - 1
                                /\ \A k \in 1..(Len(old) - 1) : v[k] = old[k]
  BY <1>2, Zenon
<1>4. /\ Append(v, n) \in Seq(AnyName) /\ Len(Append(v, n)) = Len(v) + 1
      /\ Append(v, n)[Len(v) + 1] = n /\ \A k \in 1..Len(v) : Append(v, n)[k] = v[k]
  BY PathEnds
<1>5. PICK r \in Seq(AnyName) : /\ r = Append(v, n) /\ Len(r) = Len(v) + 1
                                /\ r[Len(v) + 1] = n /\ \A k \in 1..Len(v) : r[k] = v[k]
  BY <1>4, Zenon
<1>6. ASSUME NEW k \in 1..Len(old) PROVE r[k] = IF k = Len(old) THEN n ELSE old[k]
  <2>1. k = Len(old) \/ k \in 1..(Len(old) - 1)
    BY <1>1
  <2>. QED
    BY <1>1, <1>3, <1>5, <2>1
<1>7. Len(r) = Len(old)
  BY <1>1, <1>3, <1>5
<1>. QED
  BY <1>3, <1>5, <1>6, <1>7

LEMMA OneRenamed ==
    ASSUME NEW L, NEW R, NEW a, Spanned(L, R, a), NEW old \in Seq(AnyName), Len(old) # 0,
           NEW n \in AnyName, NEW r, r = Append(Parent(old), n), \A e \in L : e[1] # r,
           NEW e \in L, NEW f \in L, Renamed(old, n, e[1]) = Renamed(old, n, f[1])
    PROVE  e[1] = f[1]
<1>1. e[1] \in Seq(AnyName) /\ f[1] \in Seq(AnyName)
  BY SpannedUp
<1>10. /\ Append(Parent(old), n) \in Seq(AnyName) /\ Len(Append(Parent(old), n)) = Len(old)
       /\ \A k \in 1..Len(old) : Append(Parent(old), n)[k] = IF k = Len(old) THEN n ELSE old[k]
  BY NewEnd
<1>2. PICK t \in Seq(AnyName) : /\ t = r /\ Len(t) = Len(old)
                                /\ \A k \in 1..Len(old) : t[k] = IF k = Len(old) THEN n ELSE old[k]
  BY <1>10, Zenon
<1>3. ASSUME NEW g \in L, NEW h \in L, Begins(old, g[1]), ~Begins(old, h[1]),
             Renamed(old, n, g[1]) = Renamed(old, n, h[1])
      PROVE  FALSE
  <2>1. PICK p \in Seq(AnyName), q \in Seq(AnyName) : p = g[1] /\ q = h[1]
    BY SpannedUp
  <2>8. PICK u \in Seq(AnyName) : /\ u = Renamed(old, n, p) /\ Len(u) = Len(p)
                                  /\ \A k \in 1..Len(p) : u[k] =
                                        IF k = Len(old) /\ Begins(old, p) THEN n ELSE p[k]
    BY ZenonT(40), RenamedEach
  <2>9. PICK w \in Seq(AnyName) : /\ w = Renamed(old, n, q) /\ Len(w) = Len(q)
                                  /\ \A k \in 1..Len(q) : w[k] =
                                        IF k = Len(old) /\ Begins(old, q) THEN n ELSE q[k]
    BY ZenonT(40), RenamedEach
  <2>10. u = w /\ Begins(old, p) /\ ~Begins(old, q)
    BY <1>3, <2>1, <2>8, <2>9
  <2>2. /\ Len(q) = Len(p) /\ Len(old) \in 1..Len(q)
        /\ \A k \in 1..Len(q) : q[k] = IF k = Len(old) THEN n ELSE p[k]
    BY <2>8, <2>9, <2>10 DEF Begins
  <2>3. Begins(t, q)
    BY <1>2, <2>2, <2>10 DEF Begins
  <2>4. PICK d \in L : Len(d[1]) = Len(old) /\ Begins(d[1], q)
    BY <2>1, <2>2, BeginningListed
  <2>5. d[1] \in Seq(AnyName)
    BY SpannedUp
  <2>6. \A k \in 1..Len(d[1]) : d[1][k] = t[k]
    BY <1>2, <2>3, <2>4 DEF Begins
  <2>7. d[1] = r
    <3>1. PICK c \in Seq(AnyName) : c = d[1]
      BY <2>5
    <3>2. Len(c) = Len(t) /\ \A k \in 1..Len(c) : c[k] = t[k]
      BY <1>2, <2>4, <2>6, <3>1
    <3>3. c = t
      BY ONLY <3>2, SamePath, c \in Seq(AnyName), t \in Seq(AnyName)
    <3>. QED
      BY <1>2, <3>1, <3>3
  <2>. QED
    BY <2>7
<1>4. Begins(old, e[1]) <=> Begins(old, f[1])
  BY <1>3
<1>5. PICK p \in Seq(AnyName), q \in Seq(AnyName) : p = e[1] /\ q = f[1]
  BY <1>1
<1>8. PICK u \in Seq(AnyName) : /\ u = Renamed(old, n, p) /\ Len(u) = Len(p)
                                /\ \A k \in 1..Len(p) : u[k] =
                                      IF k = Len(old) /\ Begins(old, p) THEN n ELSE p[k]
  BY RenamedIs
<1>9. /\ u = Renamed(old, n, q) /\ Len(u) = Len(q)
      /\ \A k \in 1..Len(q) : u[k] = IF k = Len(old) /\ Begins(old, q) THEN n ELSE q[k]
  <2>1. PICK w \in Seq(AnyName) : /\ w = Renamed(old, n, q) /\ Len(w) = Len(q)
                                  /\ \A k \in 1..Len(q) : w[k] =
                                        IF k = Len(old) /\ Begins(old, q) THEN n ELSE q[k]
    BY ZenonT(40), RenamedEach
  <2>. QED
    BY <1>5, <1>8, <2>1
<1>6. Len(p) = Len(q)
  BY <1>8, <1>9
<1>7. ASSUME NEW k \in 1..Len(p) PROVE p[k] = q[k]
  <2>1. CASE k = Len(old) /\ Begins(old, p)
    BY <1>4, <1>5, <1>6, <2>1 DEF Begins
  <2>2. CASE ~(k = Len(old) /\ Begins(old, p))
    BY <1>4, <1>5, <1>6, <1>8, <1>9, <2>2
  <2>. QED
    BY <2>1, <2>2
<1>. QED
  BY <1>5, <1>6, <1>7, SamePath

LEMMA UniqueMoved ==
    ASSUME NEW L, NEW R, NEW a, Spanned(L, R, a), Unique(L), NEW old, NEW p, <<old, p>> \in L,
           NEW n \in AnyName, NEW q, \A e \in L : e[1] # Append(Parent(old), n)
    PROVE  Unique(Moved(old, n, p, q, L))
<1>1. old \in Seq(AnyName) /\ Len(old) # 0
  <2>1. <<old, p>>[1] \in Seq(AnyName) /\ Len(<<old, p>>[1]) \in 1..MaxDepth
    BY SpannedUp
  <2>. QED
    BY <2>1, Parameters
<1>2. PICK r : r = Append(Parent(old), n)
  OBVIOUS
<1>. SUFFICES ASSUME NEW e \in L, NEW f \in L, Renamed(old, n, e[1]) = Renamed(old, n, f[1])
              PROVE  Changed(p, q, e[2]) = Changed(p, q, f[2])
  BY DEF Unique, Moved
<1>3. e[1] = f[1]
  BY <1>1, <1>2, OneRenamed
<1>. QED
  BY <1>3 DEF Unique

LEMMA UniqueMore ==
    ASSUME NEW L, Unique(L), NEW path, NEW p, \A e \in L : e[1] # path
    PROVE  Unique(L \cup {<<path, p>>})
BY DEF Unique
-----------------------------------------------------------------------------
(* The name that a call makes is absent from the directory it works in,    *)
(* and the one it works on is listed.                                      *)
Makes(o) == o.pc \in {"search", "claim", "mark", "terminate", "link", "length", "write"}
HomePath(o) == IF o.kind = "mkdir" THEN SubSeq(o.path, 1, o.i - 1) ELSE Parent(o.path)
NewName(o) ==
    IF o.kind = "mkdir" THEN o.path[o.i] ELSE IF o.kind = "create" THEN Last(o.path) ELSE o.name
NewPath(o) == Append(HomePath(o), NewName(o))
Fits(o, L) ==
    /\ o.pc # "idle" => o.path \in Paths
    /\ o.pc = "descend" \/ Makes(o) => Leads(L, HomePath(o), o.dir.at)
    /\ Makes(o) \/ o.pc \in {"edit", "retireOld"} =>
          NewName(o) \in Names /\ \A e \in L : e[1] # NewPath(o)
    /\ (Makes(o) /\ o.kind # "mkdir") \/ o.pc \in {"write", "retireOld"} => o.set.name = NewName(o)
    /\ (Makes(o) /\ o.kind = "rename") \/ o.pc \in {"edit", "retire", "retireOld"} => <<o.path, o.old>> \in L
    /\ o.pc \in {"edit", "retireOld"} => o.kind = "rename"
    /\ o.pc = "retire" => o.kind = "remove"
NamesInv == Unique(Listed) /\ Fits(op, Listed) /\ (At("edit") => op.set = SetAt(op.old))

LEMMA FitsDone ==
    ASSUME NEW o, NEW L, o.pc \in {"idle", "free", "unmark"}, o.pc # "idle" => o.path \in Paths
    PROVE  Fits(o, L)
BY DEF Fits, Makes

SameCall(o, n) == /\ n.kind = o.kind /\ n.path = o.path /\ n.i = o.i /\ n.name = o.name
                  /\ n.old = o.old /\ n.dir.at = o.dir.at

LEMMA FitsOn ==
    ASSUME NEW o, NEW n, NEW L, Fits(o, L), Makes(o), Makes(n) \/ (n.pc = "retireOld" /\ n.kind = "rename"),
           SameCall(o, n),
           n.kind # "mkdir" => n.set = o.set, n.kind = "mkdir" /\ n.pc = "write" => n.set.name = NewName(n)
    PROVE  Fits(n, L)
<1>1. HomePath(n) = HomePath(o) /\ NewName(n) = NewName(o) /\ NewPath(n) = NewPath(o)
  BY DEF SameCall, HomePath, NewName, NewPath
<1>2. o.pc # "idle" /\ n.pc # "descend" /\ n.pc # "edit" /\ n.pc # "retire"
  BY DEF Makes
<1>. QED
  BY <1>1, <1>2 DEF Fits, SameCall, Makes

LEMMA NamesGo ==
    ASSUME Kept, NamesInv, op'.pc # "edit", NEW n, n = op', NEW L, L = Listed, Fits(n, L)
    PROVE  NamesInv'
BY DEF NamesInv, Kept, At

LEMMA PathIs ==
    ASSUME NEW path \in Paths
    PROVE  /\ path \in Seq(AnyName) /\ path # <<>> /\ path = Append(Parent(path), Last(path))
           /\ Parent(path) \in Seq(AnyName) /\ Len(Parent(path)) < MaxDepth /\ Last(path) \in Names
           /\ Last(path) \in AnyName
           /\ \A i \in 1..Len(path) :
                /\ SubSeq(path, 1, i) = Append(SubSeq(path, 1, i - 1), path[i])
                /\ SubSeq(path, 1, i) \in Seq(AnyName) /\ SubSeq(path, 1, i - 1) \in Seq(AnyName)
                /\ Len(SubSeq(path, 1, i - 1)) < MaxDepth /\ path[i] \in Names /\ path[i] \in AnyName
           /\ SubSeq(path, 1, Len(path)) = path /\ SubSeq(path, 1, 0) = <<>>
<1>1. path \in Seq(Names) /\ Len(path) \in 1..MaxDepth /\ path # <<>> /\ Last(path) \in Names
  BY PathTypes
<1>2. Names \subseteq AnyName
  BY DEF AnyName, StoredNames
<1>3. path \in Seq(AnyName) /\ \A i \in 1..Len(path) : path[i] \in Names
  BY <1>1, <1>2
<1>4. ASSUME NEW i \in 1..Len(path)
      PROVE  /\ SubSeq(path, 1, i) = Append(SubSeq(path, 1, i - 1), path[i])
             /\ SubSeq(path, 1, i) \in Seq(AnyName) /\ SubSeq(path, 1, i - 1) \in Seq(AnyName)
             /\ Len(SubSeq(path, 1, i - 1)) < MaxDepth
             /\ SubSeq(path, 1, Len(path)) = path /\ SubSeq(path, 1, 0) = <<>>
  <2>1. /\ SubSeq(path, 1, i) = Append(SubSeq(path, 1, i - 1), path[i])
        /\ SubSeq(path, 1, i) \in Seq(AnyName) /\ SubSeq(path, 1, i - 1) \in Seq(AnyName)
        /\ Len(SubSeq(path, 1, i - 1)) = i - 1
        /\ SubSeq(path, 1, Len(path)) = path /\ SubSeq(path, 1, 0) = <<>>
    BY <1>3, PathStarts
  <2>2. i - 1 < MaxDepth
    BY <1>1, Parameters
  <2>. QED
    BY <2>1, <2>2
<1>5. Len(path) \in 1..Len(path)
  BY <1>1, Parameters
<1>6. Parent(path) = SubSeq(path, 1, Len(path) - 1) /\ Last(path) = path[Len(path)]
  BY DEF Parent, Last
<1>7. path = Append(Parent(path), Last(path)) /\ Parent(path) \in Seq(AnyName) /\ Len(Parent(path)) < MaxDepth
  BY <1>4, <1>5, <1>6
<1>. QED
  BY <1>1, <1>2, <1>3, <1>4, <1>5, <1>7

(* Where a call works, and what it makes there.                            *)
LEMMA CallNames ==
    ASSUME Types, NEW ch \in Chains, Held(ch), NEW o, o = op, Fits(o, Listed), Makes(o) \/ o.pc = "descend"
    PROVE  /\ HomePath(o) \in Seq(AnyName) /\ Len(HomePath(o)) < MaxDepth
           /\ NewName(o) \in AnyName
           /\ o.kind = "mkdir" => /\ o.i \in 1..Len(o.path) /\ o.path \in Paths
                                  /\ SubSeq(o.path, 1, o.i) = Append(SubSeq(o.path, 1, o.i - 1), o.path[o.i])
                                  /\ HomePath(o) = SubSeq(o.path, 1, o.i - 1) /\ NewName(o) = o.path[o.i]
                                  /\ NewName(o) \in Names
           /\ o.kind \in {"mkdir", "create", "rename"}
<1>1. Makes(o) <=> Making
  BY DEF Makes, Making
<1>2. o.path \in Paths /\ o.kind \in {"mkdir", "create", "rename"} /\ (o.pc = "descend" => o.kind = "mkdir")
      /\ (o.kind = "mkdir" => o.i \in 1..Len(o.path))
  BY <1>1 DEF Fits, Makes, Held, CallIs, SetIs, At
<1>3. PICK path \in Paths : path = o.path
  BY <1>2
<1>4. CASE o.kind = "mkdir"
  <2>1. PICK i \in 1..Len(path) : i = o.i
    BY <1>2, <1>3, <1>4
  <2>. QED
    BY <1>2, <1>3, <1>4, <2>1, PathIs DEF HomePath, NewName
<1>5. CASE o.kind # "mkdir"
  <2>1. HomePath(o) \in Seq(AnyName) /\ Len(HomePath(o)) < MaxDepth
    BY <1>3, <1>5, PathIs DEF HomePath
  <2>2. NewName(o) \in Names
    BY <1>2, <1>5 DEF Fits
  <2>. QED
    BY <1>2, <1>5, <2>1, <2>2 DEF AnyName, StoredNames
<1>. QED
  BY <1>4, <1>5
-----------------------------------------------------------------------------
(* The calls and the steps that change no listing keep the names.          *)
LEMMA StepInto ==
    ASSUME Types, NEW ch \in Chains, Struct(ch), NEW v \in Seq(AnyName), NEW x \in Homes,
           Leads(Listed, v, x), Len(v) < MaxDepth, NEW q \in Places, Enters(ch, x, q),
           NEW m, m = SetAt(q).name
    PROVE  <<Append(v, m), q>> \in Listed
<1>1. PICK L, R, a : L = Listed /\ R = Inside(ch) /\ a = NameOf /\ Spanned(L, R, a)
  BY ListedIs
<1>2. <<x, q>> \in R /\ a[q] = m
  BY <1>1, InsideIs DEF NameOf
<1>. QED
  BY <1>1, <1>2 DEF Spanned

LEMMA NoneThere ==
    ASSUME Types, NEW ch \in Chains, Struct(ch), Unique(Listed), NEW v \in Seq(AnyName), NEW x \in Homes,
           Leads(Listed, v, x), NEW m \in AnyName, \A q \in Places : Enters(ch, x, q) => SetAt(q).name # m
    PROVE  \A e \in Listed : e[1] # Append(v, m)
<1>1. PICK L, R, a : L = Listed /\ R = Inside(ch) /\ a = NameOf /\ Spanned(L, R, a)
  BY ListedIs
<1>2. Unique(L) /\ Leads(L, v, x) /\ \A q \in Places : <<x, q>> \in R => a[q] # m
  BY <1>1, InsideIs DEF NameOf
<1>3. \A e \in L : e[1] # Append(v, m)
  BY ONLY <1>1, <1>2, NoChild, v \in Seq(AnyName), m \in AnyName
<1>. QED
  BY <1>1, <1>3

LEMMA CreateDirAllNames ==
    ASSUME Types, Types', NEW ch \in Chains, Struct(ch), NamesInv, NEW path \in Paths, CreateDirAll(path)
    PROVE  NamesInv'
<1>1. At("idle") /\ UNCHANGED device
      /\ op' = [Idle EXCEPT !.pc = "descend", !.kind = "mkdir", !.path = path, !.i = 1]
  BY DEF CreateDirAll
<1>6. /\ op'.pc = "descend" /\ op'.kind = "mkdir" /\ op'.path = path /\ op'.i = 1
      /\ op'.dir = [first |-> Root, len |-> 0, at |-> Top]
  BY <1>1, IdleType DEF OpType
<1>7. op'.dir.at = Top
  BY <1>6
<1>2. PICK n : n = op' /\ n.pc = "descend" /\ n.kind = "mkdir" /\ n.path = path /\ n.i = 1 /\ n.dir.at = Top
  BY <1>6, <1>7, Zenon
<1>3. Kept
  BY <1>1, <1>2, QuietKept DEF At
<1>4. HomePath(n) = <<>>
  BY <1>2, PathIs DEF HomePath
<1>5. Fits(n, Listed)
  BY <1>2, <1>4 DEF Fits, Makes, Leads
<1>. QED
  BY <1>2, <1>3, <1>5, NamesGo

LEMMA CreateNames ==
    ASSUME Types, Types', NEW ch \in Chains, Struct(ch), NamesInv, NEW path \in Paths, Create(path)
    PROVE  NamesInv'
<1>1. PICK x : x = Lookup(Parent(path))
  OBVIOUS
<1>2. /\ At("idle") /\ UNCHANGED device /\ IsDirectory(x) /\ Lookup(path) = None
      /\ op' = [Idle EXCEPT !.pc = "search", !.kind = "create", !.path = path,
                            !.dir = DirectoryAt(x), !.set = Set(Last(path), FALSE, 0, 0)]
  BY <1>1 DEF Create
<1>3. PICK o \in Seq(Names) : o = Parent(path) /\ Len(o) <= MaxDepth
  <2>1. Parent(path) \in Seq(Names) /\ Len(Parent(path)) = Len(path) - 1 /\ Len(path) \in 1..MaxDepth
    BY PathTypes
  <2>. QED
    BY <2>1, Parameters
<1>4. path \in Seq(Names) /\ Len(path) <= MaxDepth
  BY PathTypes, Parameters
<1>5. x # None
  BY <1>2, PlacesApart DEF IsDirectory
<1>6. Leads(Listed, o, x)
  BY <1>1, <1>2, <1>3, <1>5, LookupListed DEF NamesInv, At
<1>7. Absent(path)
  BY <1>2, <1>4, LookupListed DEF NamesInv, At
<1>12. DirectoryAt(x).at = x /\ Set(Last(path), FALSE, 0, 0).name = Last(path)
  BY DEF DirectoryAt, Set
<1>13. /\ op'.pc = "search" /\ op'.kind = "create" /\ op'.path = path /\ op'.dir = DirectoryAt(x)
       /\ op'.set = Set(Last(path), FALSE, 0, 0)
  BY <1>2, IdleType DEF OpType
<1>8. PICK n : /\ n = op' /\ n.pc = "search" /\ n.kind = "create" /\ n.path = path /\ n.dir.at = x
               /\ n.set.name = Last(path)
  BY <1>12, <1>13, Zenon
<1>9. Kept
  BY <1>2, <1>8, QuietKept DEF At
<1>10. HomePath(n) = Parent(path) /\ NewName(n) = Last(path) /\ NewPath(n) = path /\ NewName(n) \in Names
  BY <1>8, PathIs DEF HomePath, NewName, NewPath
<1>11. Fits(n, Listed)
  BY <1>3, <1>6, <1>7, <1>8, <1>10 DEF Fits, Makes, Absent
<1>. QED
  BY <1>8, <1>9, <1>11, NamesGo

LEMMA RemoveNames ==
    ASSUME Types, Types', NEW ch \in Chains, Struct(ch), NamesInv, NEW path \in Paths, Remove(path)
    PROVE  NamesInv'
<1>1. PICK p : p = Lookup(path) /\ p # None
  BY DEF Remove
<1>2. /\ At("idle") /\ UNCHANGED device
      /\ op' = [Idle EXCEPT !.pc = "retire", !.kind = "remove", !.path = path, !.old = p, !.set = SetAt(p)]
  BY <1>1 DEF Remove
<1>3. path \in Seq(Names) /\ Len(path) <= MaxDepth /\ path # <<>>
  BY PathTypes, Parameters
<1>4. <<path, p>> \in Listed
  BY <1>1, <1>2, <1>3, LookupListed DEF NamesInv, At, Leads
<1>8. op'.pc = "retire" /\ op'.kind = "remove" /\ op'.path = path /\ op'.old = p
  BY <1>2, IdleType DEF OpType
<1>5. PICK n : n = op' /\ n.pc = "retire" /\ n.kind = "remove" /\ n.path = path /\ n.old = p
  BY <1>8, Zenon
<1>6. Kept
  BY <1>2, <1>5, QuietKept DEF At
<1>7. Fits(n, Listed)
  BY <1>4, <1>5 DEF Fits, Makes
<1>. QED
  BY <1>5, <1>6, <1>7, NamesGo

LEMMA RenameNames ==
    ASSUME Types, Types', NEW ch \in Chains, Struct(ch), NamesInv, NEW path \in Paths, NEW m \in Names,
           m \in Wide => Len(path) = 1, Rename(path, m)
    PROVE  NamesInv'
<1>1. PICK p, s, x : p = Lookup(path) /\ p # None /\ s = SetAt(p) /\ x = Lookup(Parent(path))
  BY DEF Rename
<1>2. /\ At("idle") /\ UNCHANGED device /\ Lookup(Append(Parent(path), m)) = None
      /\ \/ op' = [Idle EXCEPT !.kind = "rename", !.path = path, !.name = m, !.old = p, !.pc = "edit", !.set = s]
         \/ /\ op' = [Idle EXCEPT !.kind = "rename", !.path = path, !.name = m, !.old = p, !.pc = "search",
                                  !.dir = DirectoryAt(x), !.set = Set(m, s.dir, s.first, s.len)]
            /\ m \in Wide
  <2>1. m \in Wide => Buffered(path, m) = m
    BY DEF Buffered
  <2>. QED
    BY <1>1, <2>1 DEF Rename
<1>3. path \in Seq(Names) /\ Len(path) \in 1..MaxDepth /\ Len(path) <= MaxDepth /\ path # <<>>
  BY PathTypes, Parameters
<1>4. <<path, p>> \in Listed
  BY <1>1, <1>2, <1>3, LookupListed DEF NamesInv, At, Leads
<1>5. Absent(Append(Parent(path), m))
  <2>1. PICK r \in Paths : r = Append(Parent(path), m)
    BY PathTypes
  <2>2. r \in Seq(Names) /\ Len(r) <= MaxDepth
    BY PathTypes, Parameters
  <2>. QED
    BY <1>2, <2>1, <2>2, LookupListed DEF NamesInv, At
<1>13. /\ op'.kind = "rename" /\ op'.path = path /\ op'.name = m /\ op'.old = p
       /\ \/ op'.pc = "edit" /\ op'.set = s
          \/ op'.pc = "search" /\ op'.dir.at = x /\ op'.set.name = m /\ m \in Wide
  <2>1. CASE op' = [Idle EXCEPT !.kind = "rename", !.path = path, !.name = m, !.old = p, !.pc = "edit", !.set = s]
    BY <2>1, IdleType DEF OpType
  <2>2. CASE /\ op' = [Idle EXCEPT !.kind = "rename", !.path = path, !.name = m, !.old = p, !.pc = "search",
                                   !.dir = DirectoryAt(x), !.set = Set(m, s.dir, s.first, s.len)]
             /\ m \in Wide
    <3>1. DirectoryAt(x).at = x /\ Set(m, s.dir, s.first, s.len).name = m
      BY DEF DirectoryAt, Set
    <3>2. /\ op'.kind = "rename" /\ op'.path = path /\ op'.name = m /\ op'.old = p /\ op'.pc = "search"
          /\ op'.dir = DirectoryAt(x) /\ op'.set = Set(m, s.dir, s.first, s.len)
      BY <2>2, IdleType DEF OpType
    <3>. QED
      BY <2>2, <3>1, <3>2
  <2>. QED
    BY <1>2, <2>1, <2>2
<1>6. PICK n : n = op' /\ n.kind = "rename" /\ n.path = path /\ n.name = m /\ n.old = p
               /\ \/ n.pc = "edit" /\ n.set = s
                  \/ n.pc = "search" /\ n.dir.at = x /\ n.set.name = m /\ m \in Wide
  BY <1>13, Zenon
<1>7. Kept
  BY <1>2, <1>6, QuietKept DEF At
<1>8. HomePath(n) = Parent(path) /\ NewName(n) = m /\ NewPath(n) = Append(Parent(path), m)
  BY <1>6 DEF HomePath, NewName, NewPath
<1>9. n.pc = "search" => Leads(Listed, Parent(path), x)
  <2>. SUFFICES ASSUME n.pc = "search" PROVE Leads(Listed, Parent(path), x)
    OBVIOUS
  <2>1. Len(path) = 1
    BY <1>6
  <2>2. Parent(path) = <<>>
    BY <1>3, <2>1, PathIs DEF Parent
  <2>3. x = Top
    <3>2. <<>> \in Seq(Names) /\ Len(<<>>) = 0
      OBVIOUS
    <3>1. PICK o \in Seq(Names) : o = Parent(path) /\ Len(o) = 0
      BY <2>2, <3>2, Zenon
    <3>. QED
      BY <1>1, <1>2, <3>1, LookupSteps DEF At
  <2>. QED
    BY <2>2, <2>3 DEF Leads
<1>10. Fits(n, Listed)
  BY <1>4, <1>5, <1>6, <1>8, <1>9 DEF Fits, Makes, Absent
<1>12. SetAt(p)' = SetAt(p)
  BY <1>2 DEF SetAt, device
<1>. QED
  BY <1>1, <1>6, <1>7, <1>10, <1>12 DEF NamesInv, Kept, At, SetAt
-----------------------------------------------------------------------------
LEMMA EndedNames ==
    ASSUME Types, Types', NEW ch \in Chains, Struct(ch), NamesInv, UNCHANGED device, ~At("retireOld"),
           op' = Idle
    PROVE  NamesInv'
<1>1. PICK n : n = op' /\ n.pc = "idle"
  BY IdleType
<1>2. Kept
  BY <1>1, QuietKept
<1>3. Fits(n, Listed)
  BY <1>1, FitsDone
<1>. QED
  BY <1>1, <1>2, <1>3, NamesGo

LEMMA ChildIs ==
    ASSUME Types, NEW ch \in Chains, Struct(ch), Held(ch), At("descend"),
           NEW x, x = op.dir.at, NEW m, m = op.path[op.i], NEW q, q = Child
    PROVE  /\ x \in Homes /\ op.dir = DirectoryAt(x)
           /\ q # None => q \in Places /\ Enters(ch, x, q) /\ SetAt(q).name = m
           /\ q = None => \A z \in Places : Enters(ch, x, z) => SetAt(z).name # m
<1>1. x \in {Top} \cup Places /\ ch[x] # <<>> /\ op.dir = DirectoryAt(x)
  BY DirectoryIs
<1>2. q = FindChild(DirectoryAt(x), m)
  BY <1>1 DEF Child
<1>3. /\ q # None => Lies(ch, x, q) /\ SetAt(q).used /\ SetAt(q).name = m
      /\ q = None => \A r : Lies(ch, x, r) => ~(SetAt(r).used /\ SetAt(r).name = m)
  BY <1>1, <1>2, ChildFound
<1>4. \A z : ~Hidden(z)
  BY DEF Hidden, At
<1>. QED
  BY <1>1, <1>3, <1>4 DEF Enters, Homes, Lies

LEMMA DescendNames ==
    ASSUME Types, Types', NEW ch \in Chains, Struct(ch), Held(ch), NamesInv, Descend
    PROVE  NamesInv' /\ Kept /\ \E q \in Places : /\ <<SubSeq(op.path, 1, op.i), q>> \in Listed
                                                  /\ SetAt(q).dir /\ q = Child
<1>1. At("descend") /\ UNCHANGED device /\ op.kind = "mkdir"
  BY DEF Descend, Held, CallIs
<1>2. PICK o, x, m, q : o = op /\ x = o.dir.at /\ m = o.path[o.i] /\ q = Child
  OBVIOUS
<1>3. IsDirectory(q) /\ Onward(DirectoryAt(q))
  BY <1>2 DEF Descend
<1>4. q # None
  BY <1>3, PlacesApart DEF IsDirectory
<1>5. x \in Homes /\ q \in Places /\ Enters(ch, x, q) /\ SetAt(q).name = m
  BY <1>1, <1>2, <1>4, ChildIs
<1>6. Fits(o, Listed) /\ o.pc = "descend" /\ o.kind = "mkdir"
  BY <1>1, <1>2 DEF NamesInv, At
<1>7. /\ HomePath(o) \in Seq(AnyName) /\ Len(HomePath(o)) < MaxDepth /\ o.path \in Paths
      /\ o.i \in 1..Len(o.path) /\ HomePath(o) = SubSeq(o.path, 1, o.i - 1)
      /\ SubSeq(o.path, 1, o.i) = Append(SubSeq(o.path, 1, o.i - 1), o.path[o.i])
  BY <1>2, <1>6, CallNames
<1>8. Leads(Listed, HomePath(o), x)
  BY <1>2, <1>6 DEF Fits
<1>9. PICK v \in Seq(AnyName) : v = HomePath(o) /\ Len(v) < MaxDepth
  BY <1>7
<1>10. <<Append(v, m), q>> \in Listed
  BY <1>5, <1>8, <1>9, StepInto
<1>11. <<SubSeq(o.path, 1, o.i), q>> \in Listed
  BY <1>2, <1>7, <1>9, <1>10
<1>12. \/ op' = Idle
       \/ /\ op'.pc = "descend" /\ op'.kind = "mkdir" /\ op'.path = o.path /\ op'.i = o.i + 1
          /\ op'.dir = DirectoryAt(q)
  <2>1. CASE op.i = Len(op.path)
    BY <1>3, <2>1 DEF Onward
  <2>2. CASE op.i # Len(op.path)
    <3>1. op' = [Idle EXCEPT !.pc = "descend", !.kind = "mkdir", !.path = op.path, !.i = op.i + 1,
                             !.dir = DirectoryAt(q)]
      BY <1>3, <2>2 DEF Onward
    <3>. QED
      BY <1>2, <3>1, IdleType DEF OpType
  <2>. QED
    BY <2>1, <2>2
<1>13. op'.pc # "retireOld" /\ op'.pc # "edit"
  BY <1>12, IdleType
<1>14. Kept
  BY <1>1, <1>13, QuietKept DEF At
<1>15. NamesInv'
  <2>1. CASE op' = Idle
    BY <1>1, <2>1, EndedNames DEF At
  <2>2. CASE /\ op'.pc = "descend" /\ op'.kind = "mkdir" /\ op'.path = o.path /\ op'.i = o.i + 1
             /\ op'.dir = DirectoryAt(q)
    <3>1. PICK n : /\ n = op' /\ n.pc = "descend" /\ n.kind = "mkdir" /\ n.path = o.path /\ n.i = o.i + 1
                   /\ n.dir.at = q
      <4>1. DirectoryAt(q).at = q
        BY DEF DirectoryAt
      <4>. QED
        BY <2>2, <4>1, Zenon
    <3>2. HomePath(n) = SubSeq(o.path, 1, o.i)
      <4>1. PICK i \in Nat : i = o.i
        BY <1>7
      <4>2. n.i - 1 = i
        BY <3>1, <4>1
      <4>3. n.path = o.path /\ n.kind = "mkdir"
        BY <3>1
      <4>. QED
        BY <4>1, <4>2, <4>3 DEF HomePath
    <3>3. Fits(n, Listed)
      BY <1>7, <1>11, <3>1, <3>2 DEF Fits, Makes, Leads
    <3>. QED
      BY <1>13, <1>14, <3>1, <3>3, NamesGo
  <2>. QED
    BY <1>12, <2>1, <2>2
<1>16. SetAt(q).dir
  BY <1>3, <1>4, <1>5, PlacesApart DEF IsDirectory
<1>. QED
  BY <1>2, <1>5, <1>11, <1>14, <1>15, <1>16

LEMMA MissingNames ==
    ASSUME Types, Types', NEW ch \in Chains, Struct(ch), Held(ch), NamesInv, Missing
    PROVE  NamesInv'
<1>1. At("descend") /\ UNCHANGED device /\ op.kind = "mkdir" /\ Child = None /\ op' = [op EXCEPT !.pc = "search"]
  BY DEF Missing, Held, CallIs
<1>2. PICK o, x, m : o = op /\ x = o.dir.at /\ m = o.path[o.i]
  OBVIOUS
<1>3. x \in Homes /\ \A z \in Places : Enters(ch, x, z) => SetAt(z).name # m
  BY <1>1, <1>2, ChildIs
<1>4. Fits(o, Listed) /\ o.pc = "descend" /\ o.kind = "mkdir"
  BY <1>1, <1>2 DEF NamesInv, At
<1>5. HomePath(o) \in Seq(AnyName) /\ NewName(o) \in Names /\ NewName(o) = m /\ m \in AnyName
  BY <1>2, <1>4, CallNames DEF AnyName, StoredNames
<1>6. Leads(Listed, HomePath(o), x)
  BY <1>2, <1>4 DEF Fits
<1>7. \A e \in Listed : e[1] # Append(HomePath(o), m)
  <2>1. PICK v \in Seq(AnyName) : v = HomePath(o)
    BY <1>5
  <2>2. Unique(Listed) /\ Leads(Listed, v, x)
    BY <1>6, <2>1 DEF NamesInv
  <2>3. \A e \in Listed : e[1] # Append(v, m)
    BY <1>3, <1>5, <2>2, NoneThere
  <2>. QED
    BY <2>1, <2>3
<1>8. op'.pc = "search" /\ SameCall(op, op')
  BY <1>1 DEF SameCall, Types, OpType
<1>9. PICK n : n = op' /\ n.pc = "search" /\ SameCall(o, n)
  BY <1>2, <1>8, Zenon
<1>10. Kept
  BY <1>1, <1>8, QuietKept DEF At
<1>11. HomePath(n) = HomePath(o) /\ NewName(n) = NewName(o) /\ NewPath(n) = Append(HomePath(o), m)
  BY <1>5, <1>9 DEF SameCall, HomePath, NewName, NewPath
<1>12. Fits(n, Listed)
  BY <1>4, <1>5, <1>7, <1>9, <1>11 DEF Fits, Makes, SameCall
<1>. QED
  BY <1>9, <1>10, <1>12, NamesGo

(* A step on the way to write_entry_set.                                   *)
LEMMA OnNames ==
    ASSUME Types, NamesInv, Kept, NEW o, o = op, Makes(o), NEW n, n = op',
           Makes(n) \/ (n.pc = "retireOld" /\ n.kind = "rename"), SameCall(o, n),
           n.kind # "mkdir" => n.set = o.set, n.kind = "mkdir" /\ n.pc = "write" => n.set.name = NewName(n)
    PROVE  NamesInv'
<1>1. Fits(o, Listed)
  BY DEF NamesInv
<1>2. Fits(n, Listed)
  BY <1>1, FitsOn
<1>3. op'.pc # "edit"
  BY DEF Makes
<1>. QED
  BY <1>2, <1>3, NamesGo

LEMMA SearchNames ==
    ASSUME Types, Types', NEW ch \in Chains, Struct(ch), Held(ch), NamesInv, Search \/ Grow
    PROVE  NamesInv' /\ Kept
<1>1. UNCHANGED device /\ At("search")
  BY DEF Search, Grow
<1>2. /\ op'.pc \in {"claim", "write"} /\ SameCall(op, op') /\ op'.set = op.set
      /\ op'.kind = "mkdir" => op'.pc = "claim"
  <2>1. CASE Grow
    BY <2>1 DEF Grow, SameCall, Types, OpType
  <2>2. CASE Search
    <3>1. PICK g, p : /\ op' = [op EXCEPT !.pc = g, !.place = p] /\ g \in {"claim", "write"}
                      /\ op.kind = "mkdir" => g = "claim"
      BY <2>2 DEF Search, AfterSearch
    <3>. QED
      BY <3>1 DEF SameCall, Types, OpType
  <2>. QED
    BY <2>1, <2>2
<1>3. PICK o, n : /\ o = op /\ n = op' /\ n.pc \in {"claim", "write"} /\ SameCall(o, n) /\ n.set = o.set
                  /\ n.kind = "mkdir" => n.pc = "claim"
  BY <1>2, Zenon
<1>4. Kept
  BY <1>1, <1>2, QuietKept DEF At
<1>. QED
  BY <1>1, <1>3, <1>4, OnNames DEF Makes, At

LEMMA ClaimNames ==
    ASSUME Types, Types', NEW ch \in Chains, Struct(ch), Held(ch), NamesInv, Claim
    PROVE  NamesInv'
<1>1. At("claim") /\ op'.pc = "mark" /\ SameCall(op, op') /\ op'.set = op.set
  BY DEF Claim, SameCall, Types, OpType
<1>2. PICK o, n : o = op /\ n = op' /\ n.pc = "mark" /\ SameCall(o, n) /\ n.set = o.set
  BY <1>1, Zenon
<1>. QED
  BY <1>1, <1>2, ClaimKept, OnNames DEF Makes, At

LEMMA MarkUsedNames ==
    ASSUME Types, Types', NEW ch \in Chains, Struct(ch), Held(ch), NamesInv, MarkUsed
    PROVE  NamesInv'
<1>1. At("mark") /\ op'.pc = "terminate" /\ SameCall(op, op') /\ op'.set = op.set
  BY DEF MarkUsed, SameCall, Types, OpType
<1>2. PICK o, n : o = op /\ n = op' /\ n.pc = "terminate" /\ SameCall(o, n) /\ n.set = o.set
  BY <1>1, Zenon
<1>. QED
  BY <1>1, <1>2, MarkKept, OnNames DEF Makes, At

LEMMA TerminateNames ==
    ASSUME Types, Types', NEW ch \in Chains, Struct(ch), Held(ch), NamesInv, Terminate
    PROVE  NamesInv'
<1>1. At("terminate")
  BY DEF Terminate
<1>2. /\ SameCall(op, op') /\ op'.pc \in {"link", "write"}
      /\ op'.kind # "mkdir" => op'.set = op.set
      /\ op'.kind = "mkdir" /\ op'.pc = "write" => op'.set.name = op'.path[op'.i]
  <2>1. CASE op' = [op EXCEPT !.pc = "link"]
    BY <2>1 DEF SameCall, Types, OpType
  <2>2. CASE ~op.growing /\ op' = [op EXCEPT !.pc = "write", !.set = NewDirectory]
    <3>1. op.kind = "mkdir"
      BY <1>1, <2>2 DEF Held, CallIs, Placed, At
    <3>2. NewDirectory.name = op.path[op.i]
      BY DEF NewDirectory, Set
    <3>3. SameCall(op, op') /\ op'.pc = "write" /\ op'.set = NewDirectory
      BY <2>2 DEF SameCall, Types, OpType
    <3>. QED
      BY <3>1, <3>2, <3>3 DEF SameCall
  <2>. QED
    BY <2>1, <2>2 DEF Terminate
<1>3. PICK o, n : /\ o = op /\ n = op' /\ SameCall(o, n) /\ n.pc \in {"link", "write"}
                  /\ n.kind # "mkdir" => n.set = o.set
                  /\ n.kind = "mkdir" /\ n.pc = "write" => n.set.name = n.path[n.i]
  BY <1>2, Zenon
<1>. QED
  BY <1>1, <1>3, MarkKept, OnNames DEF Makes, At, NewName

LEMMA LinkNames ==
    ASSUME Types, Types', NEW ch \in Chains, Struct(ch), Held(ch), NamesInv, Link
    PROVE  NamesInv'
<1>1. At("link")
  BY DEF Link
<1>2. op'.pc \in {"length", "search"} /\ SameCall(op, op') /\ op'.set = op.set
  BY DEF Link, SameCall, Types, OpType
<1>3. PICK o, n : o = op /\ n = op' /\ n.pc \in {"length", "search"} /\ SameCall(o, n) /\ n.set = o.set
  BY <1>2, Zenon
<1>. QED
  BY <1>1, <1>3, LinkKept, OnNames DEF Makes, At

LEMMA RecordLengthNames ==
    ASSUME Types, Types', NEW ch \in Chains, Struct(ch), Held(ch), NamesInv, RecordLength
    PROVE  NamesInv'
<1>1. At("length")
  BY DEF RecordLength
<1>2. op'.pc = "search" /\ SameCall(op, op') /\ op'.set = op.set
  BY DEF RecordLength, SameCall, Types, OpType, DirType
<1>3. PICK o, n : o = op /\ n = op' /\ n.pc = "search" /\ SameCall(o, n) /\ n.set = o.set
  BY <1>2, Zenon
<1>. QED
  BY <1>1, <1>3, LengthKept, OnNames DEF Makes, At

LEMMA FreedNames ==
    ASSUME Types, Types', NEW ch \in Chains, Struct(ch), Held(ch), NamesInv, FreeLink \/ Unmark
    PROVE  NamesInv' /\ Kept
<1>1. Kept
  BY MarkKept, UnmarkKept
<1>2. op.pc \in {"free", "unmark"}
  BY DEF FreeLink, Unmark, At
<1>3. op'.pc \in {"idle", "free", "unmark"} /\ (op'.pc # "idle" => op'.path = op.path)
  <2>1. CASE FreeLink
    BY <2>1 DEF FreeLink, Types, OpType
  <2>2. CASE Unmark
    <3>1. op' = Idle \/ op' = [op EXCEPT !.pc = "free", !.cl = op.next, !.left = op.left - 1]
      BY <2>2 DEF Unmark, AfterUnmark
    <3>. QED
      BY <3>1, IdleType DEF Types, OpType
  <2>. QED
    BY <2>1, <2>2
<1>4. op.path \in Paths
  BY <1>2 DEF NamesInv, Fits
<1>5. PICK n : n = op' /\ n.pc \in {"idle", "free", "unmark"} /\ (n.pc # "idle" => n.path \in Paths)
  BY <1>3, <1>4, Zenon
<1>6. Fits(n, Listed)
  BY <1>5, FitsDone
<1>. QED
  BY <1>1, <1>5, <1>6, NamesGo
-----------------------------------------------------------------------------
(* The steps that change a listing, and the names after them.              *)
LEMMA MadeIs ==
    ASSUME Types, Types', NEW ch \in Chains, Struct(ch), Held(ch), NamesInv, WriteSet, op.kind # "rename",
           NEW o, o = op
    PROVE  /\ \E p \in Places :
                /\ p = op.place /\ Listed' = Listed \cup {<<NewPath(o), p>>} /\ SetAt(p)'.dir = op.set.dir
                /\ \A e \in Listed : e[2] # p
           /\ o.kind = "mkdir" => op.set.dir /\ NewPath(o) = SubSeq(o.path, 1, o.i)
           /\ o.kind # "mkdir" => o.kind = "create" /\ ~op.set.dir /\ NewPath(o) = o.path
           /\ \A e \in Listed : e[1] # NewPath(o) /\ SetAt(e[2])'.dir = SetAt(e[2]).dir
           /\ Leads(Listed, HomePath(o), op.dir.at) /\ o.path \in Paths
           /\ o.kind = "mkdir" => o.i \in 1..Len(o.path)
<1>1. At("write") /\ Fits(o, Listed) /\ Makes(o) /\ o.pc = "write"
  BY DEF WriteSet, NamesInv, At, Makes
<1>2. /\ Leads(Listed, HomePath(o), o.dir.at) /\ o.set.name = NewName(o) /\ o.path \in Paths
      /\ \A e \in Listed : e[1] # NewPath(o)
  BY <1>1 DEF Fits
<1>3. PICK v \in Seq(AnyName) : v = HomePath(o) /\ Len(v) < MaxDepth
  BY <1>1, CallNames
<1>4. PICK p \in Places : p = op.place
  BY <1>1 DEF Held, PlaceIs, Placed
<1>5. PICK s \in SlotType : s = op.set
  BY DEF Types, OpType
<1>6. /\ Listed' = Listed \cup {<<Append(v, s.name), p>>} /\ SetAt(p)' = s
      /\ \A e \in Listed : e[2] # p /\ SetAt(e[2])'.dir = SetAt(e[2]).dir
  BY <1>2, <1>3, <1>4, <1>5, MadeListed
<1>7. NewPath(o) = Append(v, s.name)
  BY <1>2, <1>3, <1>5 DEF NewPath
<1>8. o.kind = "mkdir" => op.set.dir /\ NewPath(o) = SubSeq(o.path, 1, o.i) /\ o.i \in 1..Len(o.path)
  <2>1. o.kind = "mkdir" => op.set.dir
    BY <1>1 DEF Held, SetIs, At
  <2>2. o.kind = "mkdir" =>
            /\ SubSeq(o.path, 1, o.i) = Append(SubSeq(o.path, 1, o.i - 1), o.path[o.i])
            /\ HomePath(o) = SubSeq(o.path, 1, o.i - 1) /\ NewName(o) = o.path[o.i] /\ o.i \in 1..Len(o.path)
    BY <1>1, CallNames
  <2>. QED
    BY <2>1, <2>2 DEF NewPath
<1>9. o.kind # "mkdir" => o.kind = "create" /\ ~op.set.dir /\ NewPath(o) = o.path
  <2>1. o.kind # "mkdir" => o.kind = "create" /\ ~op.set.dir
    BY <1>1 DEF Held, SetIs, At, Making
  <2>2. PICK path \in Paths : path = o.path
    BY <1>2
  <2>. QED
    BY <2>1, <2>2, PathIs DEF NewPath, HomePath, NewName
<1>. QED
  BY <1>2, <1>4, <1>5, <1>6, <1>7, <1>8, <1>9

LEMMA WriteSetNames ==
    ASSUME Types, Types', NEW ch \in Chains, Struct(ch), Held(ch), NamesInv, WriteSet
    PROVE  NamesInv'
<1>1. At("write")
  BY DEF WriteSet
<1>2. CASE op.kind = "rename"
  <2>1. op' = [op EXCEPT !.pc = "retireOld"]
    BY ZenonT(40), <1>2 DEF WriteSet
  <2>2. op'.pc = "retireOld" /\ op'.kind = "rename" /\ SameCall(op, op') /\ op'.set = op.set
    BY <1>2, <2>1 DEF SameCall, Types, OpType
  <2>3. PICK o, n : o = op /\ n = op' /\ n.pc = "retireOld" /\ n.kind = "rename" /\ SameCall(o, n) /\ n.set = o.set
    BY <2>2, Zenon
  <2>. QED
    BY <1>1, <1>2, <2>3, RenameWritten, OnNames DEF Makes, At
<1>3. CASE op.kind # "rename"
  <2>1. PICK o : o = op
    OBVIOUS
  <2>2. PICK p \in Places : p = op.place /\ Listed' = Listed \cup {<<NewPath(o), p>>}
    BY <1>3, <2>1, MadeIs
  <2>3. /\ o.kind = "mkdir" => NewPath(o) = SubSeq(o.path, 1, o.i) /\ o.i \in 1..Len(o.path)
        /\ \A e \in Listed : e[1] # NewPath(o)
        /\ o.path \in Paths
    BY <1>3, <2>1, MadeIs
  <2>4. Unique(Listed')
    BY <2>2, <2>3, UniqueMore DEF NamesInv
  <2>5. \/ op' = Idle
        \/ /\ op'.pc = "descend" /\ op'.kind = "mkdir" /\ op'.path = o.path /\ op'.i = o.i + 1
           /\ op'.dir.at = p /\ o.kind = "mkdir"
    <3>1. CASE op.kind = "mkdir"
      <4>1. Onward([first |-> op.new, len |-> 1, at |-> op.place])
        BY ZenonT(40), <3>1 DEF WriteSet
      <4>2. CASE op.i = Len(op.path)
        BY <4>1, <4>2 DEF Onward
      <4>3. CASE op.i # Len(op.path)
        <5>1. op' = [Idle EXCEPT !.pc = "descend", !.kind = "mkdir", !.path = op.path, !.i = op.i + 1,
                                 !.dir = [first |-> op.new, len |-> 1, at |-> op.place]]
          BY <4>1, <4>3 DEF Onward
        <5>2. /\ op'.pc = "descend" /\ op'.kind = "mkdir" /\ op'.path = o.path /\ op'.i = o.i + 1
              /\ op'.dir = [first |-> op.new, len |-> 1, at |-> op.place]
          BY <2>1, <5>1, IdleType DEF OpType
        <5>. QED
          BY <2>1, <2>2, <3>1, <5>2
      <4>. QED
        BY <4>2, <4>3
    <3>2. CASE op.kind # "mkdir"
      BY ZenonT(40), <1>3, <3>2 DEF WriteSet
    <3>. QED
      BY <3>1, <3>2
  <2>6. CASE op' = Idle
    <3>1. PICK n : n = op' /\ n.pc = "idle"
      BY <2>6, IdleType
    <3>2. Fits(n, Listed')
      BY <3>1, FitsDone
    <3>. QED
      BY <2>4, <3>1, <3>2 DEF NamesInv, At
  <2>7. CASE /\ op'.pc = "descend" /\ op'.kind = "mkdir" /\ op'.path = o.path /\ op'.i = o.i + 1
             /\ op'.dir.at = p /\ o.kind = "mkdir"
    <3>1. PICK n : /\ n = op' /\ n.pc = "descend" /\ n.kind = "mkdir" /\ n.path = o.path /\ n.i = o.i + 1
                   /\ n.dir.at = p
      BY <2>7, Zenon
    <3>2. HomePath(n) = SubSeq(o.path, 1, o.i)
      <4>1. PICK i \in Nat : i = o.i
        BY <2>3, <2>7
      <4>2. n.i - 1 = i
        BY <3>1, <4>1
      <4>3. n.path = o.path /\ n.kind = "mkdir"
        BY <3>1
      <4>. QED
        BY <4>1, <4>2, <4>3 DEF HomePath
    <3>3. <<SubSeq(o.path, 1, o.i), p>> \in Listed'
      BY <2>2, <2>3, <2>7
    <3>4. Fits(n, Listed')
      BY <2>3, <3>1, <3>2, <3>3 DEF Fits, Makes, Leads
    <3>. QED
      BY <2>4, <3>1, <3>4 DEF NamesInv, At
  <2>. QED
    BY <2>5, <2>6, <2>7
<1>. QED
  BY <1>2, <1>3

RenamedTo(old, n, p, q) ==
    /\ old = op.path /\ n = op.name /\ op.kind = "rename" /\ <<old, p>> \in Listed
    /\ Listed' = Moved(old, n, p, q, Listed)
    /\ \A e \in Listed : e[1] # Append(Parent(old), n)
    /\ SetAt(q)'.dir = op.set.dir /\ SetAt(q)'.first = op.set.first
    /\ \A e \in Listed : SetAt(Changed(p, q, e[2]))'.dir = SetAt(e[2]).dir
    /\ op' = Idle
    /\ p = op.old /\ (At("edit") => q = p) /\ (At("retireOld") => q = op.place)

LEMMA RenamedIt ==
    ASSUME Types, Types', NEW ch \in Chains, Struct(ch), Held(ch), NamesInv,
           EditName \/ (Retire /\ At("retireOld"))
    PROVE  \E old \in Paths, n \in Names, p, q \in Places : RenamedTo(old, n, p, q)
<1>1. PICK o, p : o = op /\ p = op.old
  OBVIOUS
<1>2. Fits(o, Listed) /\ Unique(Listed) /\ o.pc \in {"edit", "retireOld"}
  BY <1>1 DEF NamesInv, EditName, At
<1>3. /\ o.path \in Paths /\ o.kind = "rename" /\ <<o.path, p>> \in Listed
      /\ NewName(o) \in Names /\ \A e \in Listed : e[1] # NewPath(o)
      /\ o.pc = "retireOld" => o.set.name = NewName(o)
  BY <1>1, <1>2 DEF Fits
<1>4. NewName(o) = o.name /\ NewPath(o) = Append(Parent(o.path), o.name)
  BY <1>3 DEF NewName, NewPath, HomePath
<1>5. PICK old \in Paths, n \in Names : old = op.path /\ n = op.name
  BY <1>1, <1>3, <1>4
<1>6. p \in Places
  <2>1. <<o.path, p>>[2] \in Places
    BY <1>3, ListedHome
  <2>. QED
    BY <2>1
<1>7. CASE EditName
  <2>1. op.set = SetAt(p)
    BY <1>1, <1>7 DEF NamesInv, EditName
  <2>2. /\ Listed' = Moved(old, n, p, p, Listed)
        /\ SetAt(p)' = [SetAt(p) EXCEPT !.name = n]
        /\ \A q \in Places : SetAt(q)'.dir = SetAt(q).dir
    BY <1>1, <1>2, <1>3, <1>5, <1>6, <1>7, <2>1, EditListed
  <2>3. SetAt(p) \in SlotType
    BY <1>6, SetTypes
  <2>4. SetAt(p)'.dir = op.set.dir /\ SetAt(p)'.first = op.set.first
    BY <2>1, <2>2, <2>3 DEF SlotType
  <2>5. \A e \in Listed : SetAt(Changed(p, p, e[2]))'.dir = SetAt(e[2]).dir
    BY <2>2, ListedHome DEF Changed
  <2>6. op' = Idle
    BY <1>7, EditPlain
  <2>7. RenamedTo(old, n, p, p)
    BY <1>1, <1>3, <1>4, <1>5, <1>7, <2>2, <2>4, <2>5, <2>6 DEF RenamedTo, EditName, At
  <2>. QED
    BY <1>6, <2>7
<1>8. CASE Retire /\ At("retireOld")
  <2>1. PICK q \in Places, home \in Homes : /\ q = op.place /\ home = op.dir.at /\ In(ch, home, p[1])
                                           /\ In(ch, home, q[1])
    BY <1>1, <1>8 DEF Held, OldIs, Homes
  <2>2. n = op.set.name /\ n \in AnyName
    BY <1>1, <1>3, <1>4, <1>5, <1>8 DEF At, AnyName, StoredNames
  <2>3. /\ Listed' = Moved(old, n, p, q, Listed) /\ SetAt(q)' = op.set
        /\ \A e \in Listed : SetAt(Changed(p, q, e[2]))'.dir = SetAt(e[2]).dir
    BY <1>1, <1>2, <1>3, <1>5, <1>6, <1>8, <2>1, <2>2, MovedListed
  <2>4. op' = Idle
    BY <1>8 DEF Retire
  <2>5. RenamedTo(old, n, p, q)
    BY <1>1, <1>3, <1>4, <1>5, <1>8, <2>1, <2>3, <2>4 DEF RenamedTo, At
  <2>. QED
    BY <1>6, <2>1, <2>5
<1>. QED
  BY <1>7, <1>8

LEMMA RenamedNames ==
    ASSUME Types, Types', NEW ch \in Chains, Struct(ch), Held(ch), NamesInv,
           EditName \/ (Retire /\ At("retireOld"))
    PROVE  NamesInv'
<1>7. PICK old \in Paths, n \in Names, p \in Places, q \in Places : RenamedTo(old, n, p, q)
  BY RenamedIt
<1>1. /\ <<old, p>> \in Listed /\ Listed' = Moved(old, n, p, q, Listed)
      /\ \A e \in Listed : e[1] # Append(Parent(old), n)
      /\ op' = Idle
  BY <1>7 DEF RenamedTo
<1>2. PICK L, R, a : L = Listed /\ R = Inside(ch) /\ a = NameOf /\ Spanned(L, R, a)
  BY ListedIs
<1>3. op' = Idle
  BY <1>1
<1>4. Unique(Moved(old, n, p, q, L))
  <2>1. n \in AnyName /\ Unique(L)
    BY <1>2 DEF AnyName, StoredNames, NamesInv
  <2>. QED
    BY <1>1, <1>2, <2>1, UniqueMoved
<1>5. PICK m : m = op' /\ m.pc = "idle"
  BY <1>3, IdleType
<1>6. Fits(m, Listed')
  BY <1>5, FitsDone
<1>. QED
  BY <1>1, <1>2, <1>4, <1>5, <1>6 DEF NamesInv, At

LEMMA RetireNames ==
    ASSUME Types, Types', NEW ch \in Chains, Struct(ch), Held(ch), NamesInv, Retire, At("retire")
    PROVE  NamesInv'
<1>1. PICK p \in Places : p = op.old
  BY DEF Held, OldIs, At
<1>2. Listed' = {e \in Listed : e[2] # p}
  BY <1>1, RetiredListed
<1>3. Unique(Listed')
  BY <1>2 DEF Unique, NamesInv
<1>4. op'.pc \in {"idle", "free"} /\ (op'.pc # "idle" => op'.path = op.path)
  <2>1. op' = Idle \/ op' = [op EXCEPT !.pc = "free", !.cl = op.set.first, !.left = Released]
    BY DEF Retire
  <2>. QED
    BY <2>1, IdleType DEF Types, OpType
<1>5. op.path \in Paths
  BY DEF NamesInv, Fits, At
<1>6. PICK n : n = op' /\ n.pc \in {"idle", "free"} /\ (n.pc # "idle" => n.path \in Paths)
  BY <1>4, <1>5, Zenon
<1>7. Fits(n, Listed')
  BY <1>6, FitsDone
<1>. QED
  BY <1>3, <1>6, <1>7 DEF NamesInv, At
-----------------------------------------------------------------------------
(* The names are always as they should be.                                 *)
LEMMA InitNames ==
    ASSUME Init, Inv
    PROVE  Listed = {} /\ NamesInv
<1>1. PICK ch \in Chains : Types /\ Struct(ch)
  BY DEF Inv
<1>2. /\ content = [c \in Clusters |-> IF c = Root THEN EmptyCluster ELSE [s \in 1..SlotsPerCluster |-> Stale]]
      /\ fat = [c \in Clusters |-> IF c = Root THEN EndOfChain ELSE Free] /\ op = Idle
  BY DEF Init
<1>3. \A q \in Places : ~SetAt(q).dir /\ (q[1] = Root => ~SetAt(q).used)
  <2>1. ~Stale.dir /\ ~NoSet.dir /\ ~NoSet.used
    BY DEF Stale, NoSet
  <2>. HIDE DEF Stale, NoSet
  <2>. SUFFICES ASSUME NEW q \in Places PROVE ~SetAt(q).dir /\ (q[1] = Root => ~SetAt(q).used)
    OBVIOUS
  <2>2. q[1] \in Clusters /\ q[2] \in 1..SlotsPerCluster
    BY PlacesApart DEF Slots
  <2>3. CASE q[1] = Root
    BY <1>2, <2>1, <2>2, <2>3 DEF SetAt, EmptyCluster
  <2>4. CASE q[1] # Root
    BY <1>2, <2>1, <2>2, <2>4 DEF SetAt
  <2>. QED
    BY <2>3, <2>4
<1>4. \A c : In(ch, Top, c) => c = Root
  <2>1. ch[Top] \in Seq(Clusters) /\ Len(ch[Top]) \in Nat /\ ch[Top][1] = Root /\ Top \in Dirs /\ Top # Hand
    BY <1>1, ChainTypes, PlacesApart DEF Struct, RootChain
  <2>2. ASSUME NEW i \in 1..Len(ch[Top]), i # 1 PROVE FALSE
    <3>1. 1 \in 1..(Len(ch[Top]) - 1) /\ 2 \in 1..Len(ch[Top]) /\ 1 + 1 = 2
      BY <2>1, <2>2
    <3>2. fat[ch[Top][1]] = ch[Top][2]
      BY <1>1, <2>1, <3>1 DEF Struct, Linked, Cut
    <3>3. fat[Root] = EndOfChain
      BY <1>2, Parameters
    <3>4. ch[Top][2] \in Clusters
      BY <2>1, <3>1
    <3>. QED
      BY <2>1, <3>2, <3>3, <3>4, Parameters
  <2>. QED
    BY <2>1, <2>2 DEF In
<1>5. ASSUME NEW x \in Homes, NEW q \in Places, Enters(ch, x, q) PROVE FALSE
  <2>1. ch[x] # <<>>
    BY <1>5, InsideIs
  <2>2. x = Top
    BY <1>1, <1>3, <2>1, HomeDirectory DEF Homes
  <2>. QED
    BY <1>3, <1>4, <1>5, <2>2 DEF Enters, Lies
<1>6. Listed = {}
  BY <1>1, <1>5, ListedHome
<1>7. PICK o : o = op /\ o.pc = "idle"
  BY <1>2, IdleType
<1>. QED
  BY <1>6, <1>7, FitsDone DEF NamesInv, Unique, At

LEMMA StutterNames ==
    ASSUME Inv, NamesInv, UNCHANGED vars
    PROVE  NamesInv' /\ Kept
<1>1. content' = content /\ fat' = fat /\ used' = used /\ op' = op
  BY DEF vars
<1>2. \A p : SetAt(p)' = SetAt(p) /\ (Hidden(p)' <=> Hidden(p))
  BY <1>1 DEF SetAt, Hidden, At
<1>3. PICK ch \in Chains : Types /\ Struct(ch) /\ Types' /\ Struct(ch)'
  <2>1. PICK ch \in Chains : Types /\ Struct(ch)
    BY DEF Inv
  <2>2. \A p : Live(ch, p)' <=> Live(ch, p)
    BY <1>2 DEF Live, Anywhere, In
  <2>3. Disjoint(ch)' /\ Linked(ch)' /\ Marked(ch)' /\ RootChain(ch)' /\ HandEmpty(ch)'
    BY <1>1, <2>1 DEF Struct, Disjoint, Linked, Marked, RootChain, HandEmpty, Cut, At
  <2>4. Records(ch)'
    BY <1>2, <2>1, <2>2, RecordsStay DEF Struct, Alike, SameElsewhere
  <2>5. Types'
    BY StutterInv DEF Inv
  <2>. QED
    BY <2>1, <2>3, <2>4, <2>5 DEF Struct
<1>4. \A x, q : Enters(ch, x, q)' <=> Enters(ch, x, q)
  BY <1>2 DEF Enters, Lies, In
<1>5. Both(ch, ch) /\ NamesStay(ch)
  BY <1>2, <1>3 DEF Both, NamesStay
<1>6. Listed' = Listed
  BY <1>4, <1>5, ListedStill
<1>7. Kept
  BY <1>2, <1>6 DEF Kept
<1>8. (At("edit") => op.set = SetAt(op.old))'
  <2>1. PICK p : p = op.old
    OBVIOUS
  <2>2. SetAt(p)' = SetAt(p) /\ op'.old = p
    BY <1>1, <1>2, <2>1
  <2>. QED
    BY <1>1, <2>1, <2>2 DEF NamesInv, At, SetAt
<1>. QED
  BY <1>1, <1>6, <1>7, <1>8 DEF NamesInv

LEMMA EndedSteps ==
    ASSUME "retireOld" \notin FaultPoints, NotDirectory \/ CannotGrow \/ NoSpace \/ Interrupted
    PROVE  UNCHANGED device /\ op' = Idle /\ ~At("retireOld")
BY DEF NotDirectory, CannotGrow, NoSpace, Interrupted, At

LEMMA StepNames ==
    ASSUME Inv, NamesInv, [Next]_vars, "retireOld" \notin FaultPoints, "renameShorter" \notin Ops,
           "renameNested" \notin Ops
    PROVE  NamesInv'
<1>1. PICK ch \in Chains : Types /\ Types' /\ Struct(ch) /\ Held(ch)
  BY StepInv DEF Inv
<1>2. CASE UNCHANGED vars
  BY <1>2, StutterNames
<1>3. ASSUME NEW path \in Paths, CreateDirAll(path) PROVE NamesInv'
  BY <1>1, <1>3, CreateDirAllNames
<1>4. ASSUME NEW path \in Paths, Create(path) PROVE NamesInv'
  BY <1>1, <1>4, CreateNames
<1>5. ASSUME NEW path \in Paths, Remove(path) PROVE NamesInv'
  BY <1>1, <1>5, RemoveNames
<1>6. ASSUME NEW path \in Paths, NEW n \in Names, n \in Wide => Len(path) = 1, Rename(path, n)
      PROVE  NamesInv'
  BY <1>1, <1>6, RenameNames
<1>7. CASE Descend
  BY <1>1, <1>7, DescendNames
<1>8. CASE NotDirectory \/ CannotGrow \/ NoSpace \/ Interrupted
  BY <1>1, <1>8, EndedSteps, EndedNames
<1>9. CASE Missing
  BY <1>1, <1>9, MissingNames
<1>10. CASE Search \/ Grow
  BY <1>1, <1>10, SearchNames
<1>12. CASE Claim
  BY <1>1, <1>12, ClaimNames
<1>13. CASE MarkUsed
  BY <1>1, <1>13, MarkUsedNames
<1>14. CASE Terminate
  BY <1>1, <1>14, TerminateNames
<1>15. CASE Link
  BY <1>1, <1>15, LinkNames
<1>16. CASE RecordLength
  BY <1>1, <1>16, RecordLengthNames
<1>17. CASE WriteSet
  BY <1>1, <1>17, WriteSetNames
<1>18. CASE EditName
  BY <1>1, <1>18, RenamedNames
<1>19. CASE Retire
  BY <1>1, <1>19, RenamedNames, RetireNames DEF Retire
<1>20. CASE FreeLink \/ Unmark
  BY <1>1, <1>20, FreedNames
<1>. QED
  BY <1>2, <1>3, <1>4, <1>5, <1>6, <1>7, <1>8, <1>9, <1>10, <1>12, <1>13, <1>14, <1>15,
     <1>16, <1>17, <1>18, <1>19, <1>20 DEF Next, Step

LEMMA NamesInvariance ==
    ASSUME "retireOld" \notin FaultPoints, "renameShorter" \notin Ops, "renameNested" \notin Ops
    PROVE  Spec => [](Inv /\ NamesInv)
<1>1. Init => Inv /\ NamesInv
  BY InitInv, InitNames
<1>2. (Inv /\ NamesInv) /\ [Next]_vars => (Inv /\ NamesInv)'
  BY StepInv, StepNames
<1>. QED
  BY <1>1, <1>2, PTL DEF Spec
-----------------------------------------------------------------------------
(* What is there when create_dir_all and rename are done.                  *)
LEMMA PathEnsured ==
    ASSUME Inv, NamesInv, Types', Descend \/ WriteSet, op.kind = "mkdir", op'.pc = "idle"
    PROVE  \E e \in Listed' : e[1] = op.path /\ SetAt(e[2])'.dir
<1>1. PICK ch \in Chains : Types /\ Struct(ch) /\ Held(ch)
  BY DEF Inv
<1>2. PICK o : o = op
  OBVIOUS
<1>3. ASSUME NEW d, Onward(d) PROVE o.i = Len(o.path)
  <2>. SUFFICES ASSUME o.i # Len(o.path) PROVE FALSE
    OBVIOUS
  <2>1. op' = [Idle EXCEPT !.pc = "descend", !.kind = "mkdir", !.path = op.path, !.i = op.i + 1, !.dir = d]
    BY <1>2, <1>3 DEF Onward
  <2>2. op'.pc = "descend"
    BY <2>1, IdleType DEF OpType
  <2>. QED
    BY <2>2
<1>4. CASE Descend
  <2>1. PICK q \in Places : <<SubSeq(op.path, 1, op.i), q>> \in Listed /\ SetAt(q).dir /\ q = Child
    BY <1>1, <1>4, DescendNames
  <2>2. Kept
    BY <1>1, <1>4, DescendNames
  <2>3. o.i = Len(o.path) /\ o.path \in Paths
    BY <1>2, <1>3, <1>4 DEF Descend, NamesInv, Fits, At
  <2>4. SubSeq(o.path, 1, o.i) = o.path
    <3>1. PICK path \in Paths : path = o.path
      BY <2>3
    <3>. QED
      BY <2>3, <3>1, PathIs
  <2>5. PICK e \in Listed : e = <<o.path, q>>
    BY <1>2, <2>1, <2>4
  <2>6. e \in Listed' /\ e[1] = op.path /\ SetAt(e[2])'.dir
    BY <1>2, <2>1, <2>2, <2>5 DEF Kept
  <2>. QED
    BY <2>6
<1>5. CASE WriteSet
  <2>1. op.kind # "rename"
    OBVIOUS
  <2>2. PICK p \in Places : Listed' = Listed \cup {<<NewPath(o), p>>} /\ SetAt(p)'.dir = op.set.dir
    BY <1>1, <1>2, <1>5, <2>1, MadeIs
  <2>3. op.set.dir /\ NewPath(o) = SubSeq(o.path, 1, o.i) /\ o.path \in Paths
    BY <1>1, <1>2, <1>5, <2>1, MadeIs
  <2>4. o.i = Len(o.path)
    BY ZenonT(40), <1>2, <1>3, <1>5 DEF WriteSet
  <2>5. NewPath(o) = o.path
    <3>1. PICK path \in Paths : path = o.path
      BY <2>3
    <3>. QED
      BY <2>3, <2>4, <3>1, PathIs
  <2>6. PICK e \in Listed' : e = <<o.path, p>>
    BY <2>2, <2>5
  <2>7. e[1] = op.path /\ SetAt(e[2])'.dir
    BY <1>2, <2>2, <2>3, <2>6
  <2>. QED
    BY <2>7
<1>. QED
  BY <1>4, <1>5

LEMMA EndRenamed ==
    ASSUME NEW old \in Seq(AnyName), NEW n \in AnyName, NEW path \in Seq(AnyName), NEW m \in AnyName,
           Append(path, m) = old
    PROVE  Renamed(old, n, old) = Append(path, n)
<1>1. /\ Append(path, m) = old => Renamed(old, n, path) = path /\ Renamed(old, n, old) = Append(path, n)
      /\ Append(path, m) # old => Renamed(old, n, Append(path, m)) = Append(Renamed(old, n, path), m)
  BY ONLY RenamedEnds, old \in Seq(AnyName), n \in AnyName, path \in Seq(AnyName), m \in AnyName
<1>. QED
  BY <1>1

LEMMA NameMoved ==
    ASSUME Inv, NamesInv, Types', EditName \/ (Retire /\ At("retireOld"))
    PROVE  \E e \in Listed' :
               /\ e[1] = Append(Parent(op.path), op.name)
               /\ SetAt(e[2])'.dir = op.set.dir /\ SetAt(e[2])'.first = op.set.first
<1>1. PICK ch \in Chains : Types /\ Struct(ch) /\ Held(ch)
  BY DEF Inv
<1>2. PICK old \in Paths, n \in Names, p \in Places, q \in Places : RenamedTo(old, n, p, q)
  BY <1>1, RenamedIt
<1>3. Renamed(old, n, old) = Append(Parent(old), n)
  <2>1. /\ old \in Seq(AnyName) /\ old = Append(Parent(old), Last(old)) /\ Parent(old) \in Seq(AnyName)
        /\ Last(old) \in AnyName /\ n \in AnyName
    BY PathIs DEF AnyName, StoredNames
  <2>2. PICK v \in Seq(AnyName), m \in AnyName : v = Parent(old) /\ m = Last(old)
    BY <2>1
  <2>3. Append(v, m) = old
    BY <2>1, <2>2
  <2>5. PICK o \in Seq(AnyName), k \in AnyName : o = old /\ k = n
    BY <2>1
  <2>6. Append(v, m) = o
    BY <2>3, <2>5
  <2>7. Renamed(o, k, o) = Append(v, k)
    BY ONLY EndRenamed, <2>6, v \in Seq(AnyName), m \in AnyName, o \in Seq(AnyName), k \in AnyName
  <2>4. Renamed(old, n, old) = Append(v, n)
    BY <2>5, <2>7
  <2>. QED
    BY <2>2, <2>4
<1>4. <<Append(Parent(old), n), q>> \in Listed'
  <2>1. PICK e \in Listed : e = <<old, p>>
    BY <1>2 DEF RenamedTo
  <2>2. <<Renamed(old, n, e[1]), Changed(p, q, e[2])>> \in Moved(old, n, p, q, Listed)
    BY DEF Moved
  <2>3. e[1] = old /\ Changed(p, q, e[2]) = q
    BY <2>1 DEF Changed
  <2>. QED
    BY <1>2, <1>3, <2>2, <2>3 DEF RenamedTo
<1>5. PICK e \in Listed' : e = <<Append(Parent(old), n), q>>
  BY <1>4
<1>6. e[1] = Append(Parent(op.path), op.name) /\ SetAt(e[2])'.dir = op.set.dir /\ SetAt(e[2])'.first = op.set.first
  BY <1>2, <1>5 DEF RenamedTo
<1>. QED
  BY <1>6

(* Every UTF-8 path component exists when create_dir_all (src/fs/          *)
(* operations.rs) is done: the path it was given is listed then and leads  *)
(* to a directory, whether the last component was made or was there.       *)
THEOREM PathsEnsured ==
    ASSUME "retireOld" \notin FaultPoints, "renameShorter" \notin Ops, "renameNested" \notin Ops
    PROVE  Spec => EnsuresPath
<1>1. Inv /\ NamesInv /\ [Next]_vars =>
          ((Descend \/ WriteSet) /\ op.kind = "mkdir" /\ op'.pc = "idle" =>
              \E e \in Listed' : e[1] = op.path /\ SetAt(e[2])'.dir)
  <2>1. Inv /\ [Next]_vars => Types'
    BY StepInv DEF Inv
  <2>. QED
    BY <2>1, PathEnsured
<1>2. Spec => [](Inv /\ NamesInv)
  BY NamesInvariance
<1>. QED
  BY <1>1, <1>2, PTL DEF Spec, EnsuresPath

(* A rename moves what it was asked to: when rename (src/fs/operations.rs) *)
(* is done, in place or by writing a new set and retiring the old one, the *)
(* new name in the same directory leads to the clusters the old one had.   *)
THEOREM NamesMove ==
    ASSUME "retireOld" \notin FaultPoints, "renameShorter" \notin Ops, "renameNested" \notin Ops
    PROVE  Spec => RenameMoves
<1>1. Inv /\ NamesInv /\ [Next]_vars =>
          ((EditName \/ (Retire /\ At("retireOld"))) =>
              \E e \in Listed' :
                  /\ e[1] = Append(Parent(op.path), op.name)
                  /\ SetAt(e[2])'.dir = op.set.dir /\ SetAt(e[2])'.first = op.set.first)
  <2>1. Inv /\ [Next]_vars => Types'
    BY StepInv DEF Inv
  <2>. QED
    BY <2>1, NameMoved
<1>2. Spec => [](Inv /\ NamesInv)
  BY NamesInvariance
<1>. QED
  BY <1>1, <1>2, PTL DEF Spec, RenameMoves
-----------------------------------------------------------------------------
(* The map of the paths: T has the paths of L, and those of D are          *)
(* directories.                                                            *)
Shown(T, L, D) ==
    /\ T = [path \in {e[1] : e \in L} |-> T[path]]
    /\ \A e \in L : T[e[1]] = IF e \in D THEN "dir" ELSE "file"

LEMMA ShownIs ==
    ASSUME NEW T, NEW L, NEW D, Shown(T, L, D)
    PROVE  /\ DOMAIN T = {e[1] : e \in L} /\ \A e \in L : e[1] \in DOMAIN T
           /\ \A path \in DOMAIN T : \E e \in L : e[1] = path
           /\ T = [path \in DOMAIN T |-> T[path]]
BY DEF Shown

LEMMA ShownSame ==
    ASSUME NEW T, NEW L, NEW D, Shown(T, L, D), NEW U, NEW E, Shown(U, L, E), \A e \in L : e \in E <=> e \in D
    PROVE  U = T
<1>1. \A path \in {e[1] : e \in L} : U[path] = T[path]
  BY DEF Shown
<1>. QED
  BY <1>1 DEF Shown

(* A path is made below a directory.                                       *)
LEMMA MadeShown ==
    ASSUME NEW T, NEW L, NEW D, Shown(T, L, D), NEW U, NEW M, NEW E, Shown(U, M, E),
           NEW path, NEW p, M = L \cup {<<path, p>>}, \A e \in L : e[1] # path,
           \A e \in L : e \in E <=> e \in D,
           Parent(path) = <<>> \/ \E h \in L : h \in D /\ h[1] = Parent(path)
    PROVE  U \in Promise!Made(T, path, IF <<path, p>> \in E THEN "dir" ELSE "file")
<1>. DEFINE kind == IF <<path, p>> \in E THEN "dir" ELSE "file"
            V == [q \in DOMAIN T \cup {path} |-> IF q = path THEN kind ELSE T[q]]
<1>1. DOMAIN T = {e[1] : e \in L} /\ path \notin DOMAIN T
  BY ShownIs
<1>2. Promise!IsDirectory(T, Promise!Parent(path))
  <2>1. Promise!Parent(path) = Parent(path)
    BY DEF Promise!Parent, Parent
  <2>2. ASSUME NEW h \in L, h \in D, h[1] = Parent(path)
        PROVE  Parent(path) \in DOMAIN T /\ T[Parent(path)] = "dir"
    BY <2>2, <1>1 DEF Shown
  <2>. QED
    BY <2>1, <2>2 DEF Promise!IsDirectory
<1>3. DOMAIN U = DOMAIN T \cup {path}
  <2>1. DOMAIN U = {e[1] : e \in M}
    BY ONLY ShownIs, Shown(U, M, E)
  <2>2. PICK m \in M : m = <<path, p>>
    OBVIOUS
  <2>4. m[1] = path
    BY <2>2
  <2>3. \A e \in M : e \in L \/ e = m
    BY <2>2
  <2>. QED
    BY <1>1, <2>1, <2>2, <2>3, <2>4
<1>4. \A q \in DOMAIN U : U[q] = V[q]
  <2>1. U[path] = kind
    <3>1. PICK e \in M : e = <<path, p>>
      OBVIOUS
    <3>2. e[1] = path
      BY <3>1
    <3>. QED
      BY <3>1, <3>2 DEF Shown
  <2>2. \A e \in L : U[e[1]] = T[e[1]] /\ e[1] # path
    BY DEF Shown
  <2>. QED
    BY <1>1, <1>3, <2>1, <2>2
<1>5. U = V
  <2>1. U = [q \in DOMAIN U |-> U[q]]
    BY ONLY ShownIs, Shown(U, M, E)
  <2>. QED
    BY <1>3, <1>4, <2>1
<1>. HIDE DEF kind
<1>6. V \in Promise!Made(T, path, kind)
  BY <1>1, <1>2 DEF Promise!Made
<1>. QED
  BY <1>5, <1>6 DEF kind

(* A path is gone, one that nothing is below.                              *)
LEMMA RemovedShown ==
    ASSUME NEW T, NEW L, NEW D, Shown(T, L, D), NEW U, NEW M, NEW E, Shown(U, M, E),
           NEW path, NEW d \in L, d[1] = path, M = {e \in L : e[1] # path},
           \A e \in M : e \in E <=> e \in D,
           \A e \in L : Promise!Under(path, e[1]) => e[1] = path
    PROVE  U \in Promise!Removed(T, path)
<1>. DEFINE V == [q \in DOMAIN T \ {path} |-> T[q]]
<1>1. DOMAIN T = {e[1] : e \in L} /\ path \in DOMAIN T
  BY ShownIs
<1>2. Promise!IsLeaf(T, path)
  BY <1>1 DEF Promise!IsLeaf
<1>3. DOMAIN U = DOMAIN T \ {path}
  <2>1. DOMAIN U = {e[1] : e \in M}
    BY ONLY ShownIs, Shown(U, M, E)
  <2>. QED
    BY <1>1, <2>1
<1>4. \A q \in DOMAIN U : U[q] = V[q]
  <2>1. \A e \in M : U[e[1]] = T[e[1]] /\ e[1] # path
    BY DEF Shown
  <2>. QED
    BY <1>1, <1>3, <2>1, ShownIs
<1>5. U = V
  <2>1. U = [q \in DOMAIN U |-> U[q]]
    BY ONLY ShownIs, Shown(U, M, E)
  <2>. QED
    BY <1>3, <1>4, <2>1
<1>6. V \in Promise!Removed(T, path)
  BY <1>1, <1>2 DEF Promise!Removed
<1>. QED
  BY <1>5, <1>6

-----------------------------------------------------------------------------
(* Paths below another one, and what they are called when it moves.        *)
LEMMA Spliced ==
    ASSUME NEW r \in Seq(AnyName), NEW s \in Seq(AnyName), Len(s) >= Len(r), NEW j, j = Len(r)
    PROVE  /\ r \o SubSeq(s, j + 1, Len(s)) \in Seq(AnyName)
           /\ Len(r \o SubSeq(s, j + 1, Len(s))) = Len(s)
           /\ \A k \in 1..Len(s) : (r \o SubSeq(s, j + 1, Len(s)))[k] = IF k <= Len(r) THEN r[k] ELSE s[k]
<1>1. Len(r) \in Nat /\ Len(s) \in Nat /\ j + 1 \in Nat
  OBVIOUS
<1>6. /\ SubSeq(s, j + 1, Len(s)) \in Seq(AnyName) /\ Len(SubSeq(s, j + 1, Len(s))) = Len(s) - j
      /\ \A k \in 1..(Len(s) - j) : SubSeq(s, j + 1, Len(s))[k] = s[k + j]
  BY <1>1
<1>2. PICK t \in Seq(AnyName) : /\ t = SubSeq(s, j + 1, Len(s)) /\ Len(t) = Len(s) - j
                                /\ \A k \in 1..Len(t) : t[k] = s[k + j]
  BY <1>6
<1>3. /\ r \o t \in Seq(AnyName) /\ Len(r \o t) = Len(r) + Len(t)
      /\ \A k \in 1..(Len(r) + Len(t)) : (r \o t)[k] = IF k <= Len(r) THEN r[k] ELSE t[k - Len(r)]
  BY ONLY r \in Seq(AnyName), t \in Seq(AnyName)
<1>4. Len(r \o t) = Len(s)
  BY <1>1, <1>2, <1>3
<1>5. ASSUME NEW k \in 1..Len(s) PROVE (r \o t)[k] = IF k <= Len(r) THEN r[k] ELSE s[k]
  <2>1. CASE k <= Len(r)
    BY <1>1, <1>2, <1>3, <2>1
  <2>2. CASE ~(k <= Len(r))
    <3>1. k - Len(r) \in 1..Len(t) /\ k - Len(r) + j = k /\ k \in 1..(Len(r) + Len(t))
      BY <1>1, <1>2, <2>2
    <3>2. t[k - Len(r)] = s[k]
      BY <1>2, <3>1
    <3>. QED
      BY <1>3, <2>2, <3>1, <3>2
  <2>. QED
    BY <2>1, <2>2
<1>. QED
  BY <1>2, <1>3, <1>4, <1>5

LEMMA UnderIs ==
    ASSUME NEW r \in Seq(AnyName), NEW s \in Seq(AnyName)
    PROVE  Promise!Under(r, s) <=> Begins(r, s)
<1>1. CASE Len(s) >= Len(r)
  <2>1. PICK t \in Seq(AnyName) : /\ t = SubSeq(s, 1, Len(r)) /\ Len(t) = Len(r)
                                  /\ \A k \in 1..Len(r) : t[k] = s[k]
    <3>1. Len(r) \in 0..Len(s)
      BY <1>1
    <3>2. \A j \in 0..Len(s) : /\ SubSeq(s, 1, j) \in Seq(AnyName) /\ Len(SubSeq(s, 1, j)) = j
                               /\ \A k \in 1..j : SubSeq(s, 1, j)[k] = s[k]
      OBVIOUS
    <3>. QED
      BY <3>1, <3>2
  <2>2. t = r <=> \A k \in 1..Len(r) : s[k] = r[k]
    BY <2>1, SamePath
  <2>. QED
    BY <1>1, <2>1, <2>2 DEF Promise!Under, Begins
<1>2. CASE ~(Len(s) >= Len(r))
  BY <1>2 DEF Promise!Under, Begins
<1>. QED
  BY <1>1, <1>2

(* A path and its new name.                                                *)
Renames(old, n, r, s, u) == r = Append(Parent(old), n) /\ u = Renamed(old, n, s)

Rejoined(old, r, s, u) ==
    /\ u = r \o SubSeq(s, Len(old) + 1, Len(s)) /\ Promise!Under(r, u)
    /\ s = old \o SubSeq(u, Len(r) + 1, Len(u))

LEMMA RenamedUnder ==
    ASSUME NEW old \in Seq(AnyName), Len(old) # 0, NEW n \in AnyName, NEW r,
           NEW s \in Seq(AnyName), Begins(old, s), NEW u, Renames(old, n, r, s, u)
    PROVE  Rejoined(old, r, s, u)
<1>1. /\ r \in Seq(AnyName) /\ Len(r) = Len(old)
      /\ \A k \in 1..Len(old) : r[k] = IF k = Len(old) THEN n ELSE old[k]
  BY NewEnd DEF Renames
<1>2. u \in Seq(AnyName) /\ Len(u) = Len(s) /\ \A k \in 1..Len(s) : u[k] = IF k = Len(old) THEN n ELSE s[k]
  BY RenamedIs DEF Renames
<1>3. Len(s) >= Len(old) /\ \A k \in 1..Len(old) : s[k] = old[k]
  BY DEF Begins
<1>4. Len(s) \in Nat /\ Len(old) \in Nat /\ 1..Len(old) \subseteq 1..Len(s)
  BY <1>3
<1>11. /\ r \o SubSeq(s, Len(old) + 1, Len(s)) \in Seq(AnyName)
       /\ Len(r \o SubSeq(s, Len(old) + 1, Len(s))) = Len(s)
       /\ \A k \in 1..Len(s) :
             (r \o SubSeq(s, Len(old) + 1, Len(s)))[k] = IF k <= Len(r) THEN r[k] ELSE s[k]
  BY ONLY SMTT(30), <1>1, <1>3, s \in Seq(AnyName), Spliced
<1>12. /\ old \o SubSeq(u, Len(r) + 1, Len(u)) \in Seq(AnyName)
       /\ Len(old \o SubSeq(u, Len(r) + 1, Len(u))) = Len(u)
       /\ \A k \in 1..Len(u) :
             (old \o SubSeq(u, Len(r) + 1, Len(u)))[k] = IF k <= Len(old) THEN old[k] ELSE u[k]
  <2>1. u \in Seq(AnyName) /\ Len(u) >= Len(old)
    BY <1>2, <1>3
  <2>. QED
    BY ONLY <1>1, <2>1, old \in Seq(AnyName), Spliced
<1>5. PICK x \in Seq(AnyName) : /\ x = r \o SubSeq(s, Len(old) + 1, Len(s)) /\ Len(x) = Len(s)
                                /\ \A k \in 1..Len(s) : x[k] = IF k <= Len(r) THEN r[k] ELSE s[k]
  BY <1>11, Zenon
<1>6. PICK y \in Seq(AnyName) : /\ y = old \o SubSeq(u, Len(r) + 1, Len(u)) /\ Len(y) = Len(u)
                                /\ \A k \in 1..Len(u) : y[k] = IF k <= Len(old) THEN old[k] ELSE u[k]
  BY <1>12, Zenon
<1>13. ASSUME NEW k \in 1..Len(s) PROVE u[k] = x[k] /\ s[k] = y[k]
  <2>1. k \in 1..Len(u) /\ u[k] = IF k = Len(old) THEN n ELSE s[k]
    BY <1>2
  <2>2. x[k] = IF k <= Len(old) THEN r[k] ELSE s[k]
    BY <1>1, <1>5
  <2>3. y[k] = IF k <= Len(old) THEN old[k] ELSE u[k]
    BY <1>6, <2>1
  <2>4. CASE k <= Len(old)
    <3>1. k \in 1..Len(old)
      BY <1>4, <2>4
    <3>2. s[k] = old[k] /\ r[k] = IF k = Len(old) THEN n ELSE old[k]
      BY <1>1, <1>3, <3>1
    <3>. QED
      BY <2>1, <2>2, <2>3, <2>4, <3>2
  <2>5. CASE ~(k <= Len(old))
    <3>1. k # Len(old)
      BY <1>4, <2>5
    <3>. QED
      BY <2>1, <2>2, <2>3, <2>5, <3>1
  <2>. QED
    BY <2>4, <2>5
<1>9. u = x /\ s = y
  BY <1>2, <1>5, <1>6, <1>13, SamePath
<1>10. Begins(r, u)
  BY <1>1, <1>2, <1>3, <1>4 DEF Begins
<1>. QED
  BY <1>1, <1>2, <1>5, <1>6, <1>9, <1>10, UnderIs DEF Rejoined

(* One path of a subtree that moves, or one beside it.                     *)
MovedAs(old, r, s, u) ==
    /\ Promise!Before(old, r, u) = s
    /\ Promise!Under(old, s) => u = r \o SubSeq(s, Len(old) + 1, Len(s))
    /\ ~Promise!Under(old, s) => u = s

LEMMA OneMoved ==
    ASSUME NEW L, NEW R, NEW a, Spanned(L, R, a), NEW old \in Seq(AnyName), Len(old) # 0, NEW n \in AnyName,
           NEW r, \A e \in L : e[1] # r, NEW e \in L, NEW u, Renames(old, n, r, e[1], u)
    PROVE  MovedAs(old, r, e[1], u)
<1>1. PICK s \in Seq(AnyName) : s = e[1] /\ Len(s) \in Nat
  BY SpannedUp
<1>2. r \in Seq(AnyName) /\ Len(r) = Len(old) /\ Len(r) \in Nat \ {0}
  BY NewEnd DEF Renames
<1>3. Promise!Under(old, s) <=> Begins(old, s)
  BY UnderIs
<1>4. CASE Begins(old, s)
  <2>1. Rejoined(old, r, s, u)
    <3>1. Renames(old, n, r, s, u) /\ Len(old) # 0
      BY <1>1
    <3>. QED
      BY ONLY <1>4, <3>1, old \in Seq(AnyName), n \in AnyName, s \in Seq(AnyName), RenamedUnder
  <2>. QED
    BY <1>1, <1>3, <1>4, <2>1 DEF Promise!Before, Rejoined, MovedAs
<1>5. CASE ~Begins(old, s)
  <2>1. u \in Seq(AnyName) /\ Len(u) = Len(s) /\ \A k \in 1..Len(s) : u[k] = s[k]
    BY <1>1, <1>5, RenamedIs DEF Renames
  <2>2. u = s
    BY <1>1, <2>1, SamePath
  <2>3. ~Begins(r, s)
    <3>1. SUFFICES ASSUME Begins(r, s) PROVE FALSE
      OBVIOUS
    <3>2. Len(r) \in 1..Len(e[1])
      BY <1>1, <1>2, <3>1 DEF Begins
    <3>3. PICK f \in L : Len(f[1]) = Len(r) /\ Begins(f[1], e[1])
      BY <3>2, BeginningListed
    <3>4. PICK t \in Seq(AnyName) : t = f[1]
      BY SpannedUp
    <3>5. \A k \in 1..Len(r) : t[k] = r[k]
      BY <1>1, <3>1, <3>3, <3>4 DEF Begins
    <3>6. t = r
      BY <1>2, <3>3, <3>4, <3>5, SamePath
    <3>. QED
      BY <3>4, <3>6
  <2>4. ~Promise!Under(r, u)
    BY <1>2, <2>2, <2>3, UnderIs
  <2>. QED
    BY <1>1, <1>3, <1>5, <2>2, <2>4 DEF Promise!Before, MovedAs
<1>. QED
  BY <1>4, <1>5

LEMMA MovedShown ==
    ASSUME NEW T, NEW L, NEW D, Shown(T, L, D), NEW U, NEW M, NEW E, Shown(U, M, E),
           NEW R, NEW a, Spanned(L, R, a), NEW old \in Seq(AnyName), Len(old) # 0, NEW n \in AnyName,
           NEW p, NEW q, <<old, p>> \in L, M = Moved(old, n, p, q, L),
           \A e \in L : e[1] # Append(Parent(old), n),
           \A e \in L : <<Renamed(old, n, e[1]), Changed(p, q, e[2])>> \in E <=> e \in D
    PROVE  U \in Promise!Moved(T, old, n)
<1>1. PICK r : r = Append(Parent(old), n)
  OBVIOUS
<1>. DEFINE rest == {x \in DOMAIN T : ~Promise!Under(old, x)}
            below == {r \o SubSeq(x, Len(old) + 1, Len(x)) : x \in {z \in DOMAIN T : Promise!Under(old, z)}}
            V == [x \in rest \cup below |-> T[Promise!Before(old, r, x)]]
<1>2. DOMAIN T = {e[1] : e \in L} /\ DOMAIN U = {e[1] : e \in M}
  BY ONLY ShownIs, Shown(T, L, D), Shown(U, M, E)
<1>11. /\ Len(old) # 0 /\ old \in Seq(AnyName) /\ n \in AnyName
       /\ \A e \in L : e[1] # r
  BY <1>1
<1>3. ASSUME NEW e \in L, NEW u, u = Renamed(old, n, e[1])
      PROVE  /\ u \in DOMAIN U /\ u \in rest \cup below /\ MovedAs(old, r, e[1], u) /\ U[u] = T[e[1]]
  <2>1. MovedAs(old, r, e[1], u)
    <3>1. Renames(old, n, r, e[1], u)
      BY <1>1, <1>3 DEF Renames
    <3>. QED
      BY ONLY <3>1, <1>11, Spanned(L, R, a), e \in L, OneMoved
  <2>2. e[1] \in DOMAIN T
    BY <1>2
  <2>3. u \in rest \cup below
    BY <2>1, <2>2 DEF MovedAs
  <2>4. PICK f \in M : f = <<Renamed(old, n, e[1]), Changed(p, q, e[2])>>
    BY DEF Moved
  <2>5. f[1] = u
    BY <1>3, <2>4
  <2>6. u \in DOMAIN U
    BY <1>2, <2>5
  <2>7. U[u] = T[e[1]]
    BY <2>4, <2>5 DEF Shown
  <2>. QED
    BY <2>1, <2>3, <2>6, <2>7
<1>4. ASSUME NEW x \in rest \cup below PROVE \E e \in L : x = Renamed(old, n, e[1])
  <2>1. CASE x \in rest
    <3>1. PICK e \in L : e[1] = x
      BY <1>2, <2>1
    <3>2. ~Promise!Under(old, e[1])
      BY <2>1, <3>1
    <3>3. PICK u : u = Renamed(old, n, e[1])
      OBVIOUS
    <3>4. u = e[1]
      BY <1>3, <3>2, <3>3 DEF MovedAs
    <3>. QED
      BY <3>1, <3>3, <3>4
  <2>2. CASE x \in below
    <3>1. PICK z \in DOMAIN T : Promise!Under(old, z) /\ x = r \o SubSeq(z, Len(old) + 1, Len(z))
      BY <2>2
    <3>2. PICK e \in L : e[1] = z
      BY <1>2
    <3>3. PICK u : u = Renamed(old, n, e[1])
      OBVIOUS
    <3>4. u = r \o SubSeq(e[1], Len(old) + 1, Len(e[1]))
      BY <1>3, <3>1, <3>2, <3>3 DEF MovedAs
    <3>. QED
      BY <3>1, <3>2, <3>3, <3>4
  <2>. QED
    BY <2>1, <2>2
<1>5. ASSUME NEW x \in DOMAIN U PROVE \E e \in L : x = Renamed(old, n, e[1])
  <2>1. PICK f \in M : f[1] = x
    BY <1>2
  <2>2. PICK e \in L : f = <<Renamed(old, n, e[1]), Changed(p, q, e[2])>>
    BY DEF Moved
  <2>. QED
    BY <2>1, <2>2
<1>. HIDE DEF rest, below
<1>6. DOMAIN U = rest \cup below
  BY <1>3, <1>4, <1>5
<1>7. \A x \in DOMAIN U : U[x] = V[x]
  BY <1>3, <1>5, <1>6 DEF MovedAs
<1>8. U = V
  <2>1. U = [x \in DOMAIN U |-> U[x]]
    BY ONLY ShownIs, Shown(U, M, E)
  <2>. QED
    BY <1>6, <1>7, <2>1
<1>9. r = Append(Promise!Parent(old), n) /\ old \in DOMAIN T /\ r \notin DOMAIN T
  <2>1. Promise!Parent(old) = Parent(old)
    BY DEF Promise!Parent, Parent
  <2>2. PICK d \in L : d = <<old, p>>
    OBVIOUS
  <2>. QED
    BY <1>1, <1>2, <2>1, <2>2
<1>. HIDE DEF V
<1>10. V \in Promise!Moved(T, old, n)
  BY <1>9 DEF Promise!Moved, V, rest, below
<1>. QED
  BY <1>8, <1>10

(* Nothing is below a path whose place holds nothing.                      *)
LEMMA LeafListed ==
    ASSUME NEW L, NEW R, NEW a, Spanned(L, R, a), Unique(L), NEW path \in Seq(AnyName), Len(path) # 0,
           NEW p, <<path, p>> \in L, \A q \in Places : <<p, q>> \notin R, NEW e \in L, Begins(path, e[1])
    PROVE  e[1] = path
<1>. SUFFICES ASSUME e[1] # path PROVE FALSE
  OBVIOUS
<1>1. PICK s \in Seq(AnyName) : s = e[1]
  BY SpannedUp
<1>2. Len(s) >= Len(path) /\ \A k \in 1..Len(path) : s[k] = path[k]
  BY <1>1 DEF Begins
<1>3. Len(path) \in Nat /\ Len(s) \in Nat
  OBVIOUS
<1>4. Len(s) # Len(path)
  BY <1>1, <1>2, SamePath
<1>5. Len(path) + 1 \in 1..Len(e[1])
  BY <1>1, <1>2, <1>3, <1>4
<1>6. PICK k \in 1..Len(e[1]) : k = Len(path) + 1
  BY <1>5
<1>7. PICK f \in L : Len(f[1]) = k /\ Begins(f[1], e[1])
  BY <1>6, BeginningListed
<1>8. PICK v \in Seq(AnyName), x \in Homes : Up(L, R, a, f, v, x)
  BY SpannedUp
<1>9. Leads(L, v, x) /\ <<x, f[2]>> \in R /\ f[1] = Append(v, a[f[2]]) /\ a[f[2]] \in AnyName
  BY <1>8, UpLength DEF Up
<1>10. PICK m \in AnyName : m = a[f[2]]
  BY <1>9
<1>11. Len(f[1]) = Len(v) + 1 /\ Len(v) \in Nat /\ \A j \in 1..Len(v) : f[1][j] = v[j]
  BY <1>9, <1>10, PathEnds
<1>12. Len(v) = Len(path)
  BY <1>3, <1>6, <1>7, <1>11
<1>13. \A j \in 1..Len(path) : v[j] = path[j]
  <2>1. ASSUME NEW j \in 1..Len(path) PROVE v[j] = path[j]
    <3>1. f[1][j] = v[j] /\ s[j] = path[j]
      BY <1>2, <1>11, <1>12
    <3>2. j \in 1..Len(f[1])
      BY <1>3, <1>11, <1>12
    <3>3. e[1][j] = f[1][j]
      BY <1>7, <3>2 DEF Begins
    <3>. QED
      BY <1>1, <3>1, <3>3
  <2>. QED
    BY <2>1
<1>14. v = path
  BY <1>12, <1>13, SamePath
<1>15. <<path, x>> \in L
  BY <1>9, <1>14 DEF Leads
<1>16. x = p
  <2>1. PICK g, h \in L : g = <<path, x>> /\ h = <<path, p>>
    BY <1>15
  <2>2. g[1] = h[1] /\ g[2] = x /\ h[2] = p
    BY <2>1
  <2>. QED
    BY <2>2 DEF Unique
<1>17. f[2] \in Places
  BY SpannedUp
<1>. QED
  BY <1>9, <1>16, <1>17

-----------------------------------------------------------------------------
(* The tree of paths of a state.                                           *)
DirEntries == {e \in Listed : SetAt(e[2]).dir}
AllShown == Inv /\ NamesInv => Shown(PathsListed, Listed, DirEntries)

LEMMA PathsShown == AllShown
<1>. SUFFICES ASSUME Inv, NamesInv PROVE Shown(PathsListed, Listed, DirEntries)
  BY DEF AllShown
<1>1. PICK ch \in Chains : Types /\ Struct(ch)
  BY DEF Inv
<1>2. \A e \in Listed : e = <<e[1], e[2]>>
  BY <1>1, ListedHome
<1>3. PathsListed = [path \in {e[1] : e \in Listed} |-> KindOf(CHOOSE e \in Listed : e[1] = path)]
  BY DEF PathsListed
<1>4. ASSUME NEW e \in Listed PROVE PathsListed[e[1]] = IF e \in DirEntries THEN "dir" ELSE "file"
  <2>1. PICK f : f = CHOOSE x \in Listed : x[1] = e[1]
    OBVIOUS
  <2>2. f \in Listed /\ f[1] = e[1]
    BY <2>1
  <2>3. f = e
    BY <1>2, <2>2 DEF NamesInv, Unique
  <2>4. PathsListed[e[1]] = KindOf(e)
    BY <1>3, <2>1, <2>3
  <2>. QED
    BY <2>4 DEF KindOf, DirEntries
<1>. QED
  BY <1>3, <1>4 DEF Shown

(* The trees before and after a step.                                      *)
BothShown(T, L, D, U, M, E) ==
    /\ T = PathsListed /\ L = Listed /\ U = PathsListed' /\ M = Listed'
    /\ Shown(T, L, D) /\ Shown(U, M, E)
    /\ D = {e \in L : SetAt(e[2]).dir} /\ E = {e \in M : SetAt(e[2])'.dir}

LEMMA TwoTrees ==
    ASSUME Inv, NamesInv, Inv', NamesInv'
    PROVE  \E T, L, D, U, M, E : BothShown(T, L, D, U, M, E)
<1>1. AllShown /\ AllShown'
  BY PathsShown, PTL
<1>2. Shown(PathsListed, Listed, DirEntries) /\ Shown(PathsListed', Listed', DirEntries')
  BY <1>1 DEF AllShown
<1>3. DirEntries = {e \in Listed : SetAt(e[2]).dir} /\ DirEntries' = {e \in Listed' : SetAt(e[2])'.dir}
  BY DEF DirEntries
<1>4. PICK T, L, D, U, M, E : /\ T = PathsListed /\ L = Listed /\ U = PathsListed' /\ M = Listed'
                              /\ D = DirEntries /\ E = DirEntries'
  OBVIOUS
<1>. QED
  BY <1>2, <1>3, <1>4 DEF BothShown

LEMMA KeptPaths ==
    ASSUME Inv, NamesInv, Inv', NamesInv', Kept
    PROVE  PathsListed' = PathsListed
<1>1. PICK T, L, D, U, M, E : BothShown(T, L, D, U, M, E)
  BY TwoTrees
<1>2. M = L /\ \A e \in L : e \in E <=> e \in D
  BY <1>1 DEF BothShown, Kept
<1>3. U = T
  BY <1>1, <1>2, ShownSame DEF BothShown
<1>. QED
  BY <1>1, <1>3 DEF BothShown

LEMMA NextStays ==
    ASSUME PathsListed' = PathsListed
    PROVE  Promise!Next
BY DEF Promise!Next

LEMMA NextEffect ==
    ASSUME NEW T, T = PathsListed, NEW U, U = PathsListed', NEW o, o = op, NEW c,
           c = [kind |-> o.kind, path |-> o.path, name |-> o.name], U \in Promise!Effects(T, c)
    PROVE  Promise!Next
BY DEF Promise!Next
-----------------------------------------------------------------------------
(* The steps that change the tree, as the calls' promises.                 *)
LEMMA MadeStep ==
    ASSUME Inv, NamesInv, Inv', NamesInv', WriteSet, op.kind # "rename"
    PROVE  Promise!Next
<1>1. PICK ch \in Chains : Types /\ Types' /\ Struct(ch) /\ Held(ch)
  BY DEF Inv
<1>2. PICK T, L, D, U, M, E : BothShown(T, L, D, U, M, E)
  BY TwoTrees
<1>3. PICK o : o = op
  OBVIOUS
<1>4. PICK p \in Places : Listed' = Listed \cup {<<NewPath(o), p>>} /\ SetAt(p)'.dir = op.set.dir
  BY <1>1, <1>3, MadeIs
<1>5. /\ o.kind = "mkdir" => op.set.dir /\ NewPath(o) = SubSeq(o.path, 1, o.i) /\ o.i \in 1..Len(o.path)
      /\ o.kind # "mkdir" => o.kind = "create" /\ ~op.set.dir /\ NewPath(o) = o.path
      /\ \A e \in Listed : e[1] # NewPath(o) /\ SetAt(e[2])'.dir = SetAt(e[2]).dir
      /\ Leads(Listed, HomePath(o), op.dir.at)
  BY <1>1, <1>3, MadeIs
<1>6. PICK path : path = NewPath(o)
  OBVIOUS
<1>7. M = L \cup {<<path, p>>} /\ \A e \in L : e[1] # path
  BY <1>2, <1>4, <1>5, <1>6 DEF BothShown
<1>8. \A e \in L : e \in E <=> e \in D
  BY <1>2, <1>5, <1>7 DEF BothShown
<1>9. <<path, p>> \in E <=> op.set.dir
  <2>1. PICK e : e = <<path, p>>
    OBVIOUS
  <2>2. e \in M /\ e[2] = p
    BY <1>7, <2>1
  <2>. QED
    BY <1>2, <1>4, <2>1, <2>2 DEF BothShown
<1>10. Parent(path) = <<>> \/ \E h \in L : h \in D /\ h[1] = Parent(path)
  <2>1. At("write") /\ Makes(o) /\ Fits(o, Listed) /\ Making
    BY <1>3 DEF WriteSet, At, Makes, Making, NamesInv
  <2>2. HomePath(o) \in Seq(AnyName) /\ NewName(o) \in AnyName
    BY <1>1, <1>3, <2>1, CallNames
  <2>3. PICK v \in Seq(AnyName), m \in AnyName : v = HomePath(o) /\ m = NewName(o)
    BY <2>2
  <2>4. path = Append(v, m)
    BY <1>6, <2>3 DEF NewPath
  <2>5. Parent(path) = v
    BY <2>4, PathEnds
  <2>6. CASE v = <<>>
    BY <2>5, <2>6
  <2>7. CASE v # <<>>
    <3>1. PICK x : x = op.dir.at
      OBVIOUS
    <3>2. <<v, x>> \in Listed
      BY <1>5, <2>3, <2>7, <3>1 DEF Leads
    <3>3. ch[x] # <<>>
      BY <1>1, <2>1, <3>1, DirectoryIs
    <3>4. PICK h \in Listed : h = <<v, x>>
      BY <3>2
    <3>5. h[2] = x /\ h[1] = v
      BY <3>4
    <3>6. x \in Places
      BY <1>1, <3>5, ListedHome
    <3>7. SetAt(x).dir
      BY <1>1, <3>3, <3>6, HomeDirectory
    <3>8. h \in L /\ h \in D
      BY <1>2, <3>5, <3>7 DEF BothShown
    <3>. QED
      BY <2>5, <3>5, <3>8
  <2>. QED
    BY <2>6, <2>7
<1>11. U \in Promise!Made(T, path, IF <<path, p>> \in E THEN "dir" ELSE "file")
  BY <1>2, <1>7, <1>8, <1>10, MadeShown DEF BothShown
<1>12. PICK c : c = [kind |-> o.kind, path |-> o.path, name |-> o.name]
  OBVIOUS
<1>13. c.kind = o.kind /\ c.path = o.path
  BY <1>12
<1>14. CASE o.kind = "mkdir"
  <2>1. U \in Promise!Made(T, SubSeq(c.path, 1, o.i), "dir") /\ o.i \in 1..Len(c.path)
    BY <1>5, <1>6, <1>9, <1>11, <1>13, <1>14
  <2>2. U \in Promise!Directories(T, c.path)
    BY <2>1 DEF Promise!Directories
  <2>3. U \in Promise!Effects(T, c)
    BY <1>13, <1>14, <2>2 DEF Promise!Effects
  <2>. QED
    BY <1>2, <1>3, <1>12, <2>3, NextEffect DEF BothShown
<1>15. CASE o.kind # "mkdir"
  <2>1. U \in Promise!Made(T, c.path, "file") /\ c.kind = "create"
    BY <1>5, <1>6, <1>9, <1>11, <1>13, <1>15
  <2>2. U \in Promise!Effects(T, c)
    BY <2>1 DEF Promise!Effects
  <2>. QED
    BY <1>2, <1>3, <1>12, <2>2, NextEffect DEF BothShown
<1>. QED
  BY <1>14, <1>15

LEMMA MovedStep ==
    ASSUME Inv, NamesInv, Inv', NamesInv', EditName \/ (Retire /\ At("retireOld"))
    PROVE  Promise!Next
<1>1. PICK ch \in Chains : Types /\ Types' /\ Struct(ch) /\ Held(ch)
  BY DEF Inv
<1>2. PICK T, L, D, U, M, E : BothShown(T, L, D, U, M, E)
  BY TwoTrees
<1>3. PICK old \in Paths, n \in Names, p \in Places, q \in Places : RenamedTo(old, n, p, q)
  BY <1>1, RenamedIt
<1>4. /\ old \in Seq(AnyName) /\ Len(old) # 0 /\ n \in AnyName
      /\ <<old, p>> \in L /\ M = Moved(old, n, p, q, L) /\ \A e \in L : e[1] # Append(Parent(old), n)
  <2>1. old \in Seq(AnyName) /\ old # <<>>
    BY PathIs
  <2>2. Len(old) # 0 /\ n \in AnyName
    BY <2>1 DEF AnyName, StoredNames
  <2>. QED
    BY <1>2, <1>3, <2>1, <2>2 DEF RenamedTo, BothShown
<1>5. \A e \in L : <<Renamed(old, n, e[1]), Changed(p, q, e[2])>> \in E <=> e \in D
  <2>. SUFFICES ASSUME NEW e \in L PROVE <<Renamed(old, n, e[1]), Changed(p, q, e[2])>> \in E <=> e \in D
    OBVIOUS
  <2>1. PICK f : f = <<Renamed(old, n, e[1]), Changed(p, q, e[2])>>
    OBVIOUS
  <2>2. f \in M
    BY <1>4, <2>1 DEF Moved
  <2>3. PICK x : x = Changed(p, q, e[2])
    OBVIOUS
  <2>4. SetAt(x)'.dir = SetAt(e[2]).dir
    BY <1>2, <1>3, <2>3 DEF RenamedTo, BothShown
  <2>5. f[2] = x
    BY <2>1, <2>3
  <2>6. f \in E <=> SetAt(x)'.dir
    BY <1>2, <2>2, <2>5 DEF BothShown
  <2>. QED
    BY <1>2, <2>1, <2>4, <2>6 DEF BothShown
<1>6. PICK R, a : Spanned(L, R, a)
  BY <1>1, <1>2, ListedIs DEF BothShown
<1>7. U \in Promise!Moved(T, old, n)
  BY <1>2, <1>4, <1>5, <1>6, MovedShown DEF BothShown
<1>8. PICK o, c : o = op /\ c = [kind |-> o.kind, path |-> o.path, name |-> o.name]
  OBVIOUS
<1>9. c.kind = "rename" /\ c.path = old /\ c.name = n
  BY <1>3, <1>8 DEF RenamedTo
<1>10. U \in Promise!Effects(T, c)
  BY <1>7, <1>9 DEF Promise!Effects
<1>. QED
  BY <1>2, <1>8, <1>10, NextEffect DEF BothShown

LEMMA RemovedStep ==
    ASSUME Inv, NamesInv, Inv', NamesInv', Retire, At("retire")
    PROVE  Promise!Next
<1>1. PICK ch \in Chains : Types /\ Types' /\ Struct(ch) /\ Held(ch)
  BY DEF Inv
<1>2. PICK T, L, D, U, M, E : BothShown(T, L, D, U, M, E)
  BY TwoTrees
<1>3. PICK o : o = op
  OBVIOUS
<1>4. o.pc = "retire" /\ Fits(o, Listed) /\ Unique(Listed)
  BY <1>3 DEF NamesInv, At
<1>5. o.path \in Paths /\ <<o.path, o.old>> \in Listed /\ o.kind = "remove"
  BY <1>4 DEF Fits
<1>6. PICK path \in Paths, p \in Places : path = o.path /\ p = o.old
  <2>1. PICK e \in Listed : e = <<o.path, o.old>>
    BY <1>5
  <2>2. e[2] \in Places /\ e[2] = o.old
    BY <1>1, <2>1, ListedHome
  <2>. QED
    BY <1>5, <2>2
<1>7. path \in Seq(AnyName) /\ Len(path) # 0
  <2>1. path \in Seq(AnyName) /\ path # <<>>
    BY PathIs
  <2>. QED
    BY <2>1
<1>8. PICK d \in L : d = <<path, p>> /\ d[1] = path /\ d[2] = p
  BY <1>2, <1>5, <1>6 DEF BothShown
<1>9. /\ Listed' = {e \in Listed : e[2] # p} /\ \A q \in Places : ~Enters(ch, p, q)
      /\ \A q \in Places \ {p} : SetAt(q)'.dir = SetAt(q).dir
  BY <1>1, <1>3, <1>6, RetiredListed
<1>10. PICK R, a : R = Inside(ch) /\ a = NameOf
  OBVIOUS
<1>11. Spanned(L, R, a) /\ Apart(R)
  BY <1>1, <1>2, <1>10, ListedIs, InsideApart DEF BothShown
<1>12. \A e \in L : e[2] = p <=> e[1] = path
  <2>. SUFFICES ASSUME NEW e \in L PROVE e[2] = p <=> e[1] = path
    OBVIOUS
  <2>1. e[1] = path => e[2] = p
    BY <1>2, <1>4, <1>8 DEF Unique, BothShown
  <2>2. ASSUME e[2] = p PROVE e[1] = path
    <3>1. e = <<e[1], e[2]>>
      BY <1>11, SpannedUp
    <3>2. Leads(L, e[1], p) /\ Leads(L, path, p)
      BY <1>8, <2>2, <3>1 DEF Leads
    <3>. QED
      BY <1>11, <3>2, OnePath
  <2>. QED
    BY <2>1, <2>2
<1>13. M = {e \in L : e[1] # path}
  BY <1>2, <1>9, <1>12 DEF BothShown
<1>14. \A e \in M : e \in E <=> e \in D
  <2>. SUFFICES ASSUME NEW e \in M PROVE e \in E <=> e \in D
    OBVIOUS
  <2>1. e \in L /\ e[2] # p /\ e[2] \in Places
    BY <1>11, <1>12, <1>13, SpannedUp
  <2>. QED
    BY <1>2, <1>9, <2>1 DEF BothShown
<1>15. ASSUME NEW e \in L, Promise!Under(path, e[1]) PROVE e[1] = path
  <2>1. PICK s \in Seq(AnyName) : s = e[1]
    BY <1>11, SpannedUp
  <2>2. Begins(path, e[1])
    BY <1>7, <1>15, <2>1, UnderIs
  <2>3. \A q \in Places : <<p, q>> \notin R
    BY <1>9, <1>10, InsideIs DEF Homes
  <2>4. <<path, p>> \in L /\ Unique(L)
    BY <1>2, <1>4, <1>8 DEF BothShown
  <2>. QED
    BY <1>7, <1>11, <2>2, <2>3, <2>4, LeafListed
<1>16. U \in Promise!Removed(T, path)
  BY <1>2, <1>8, <1>13, <1>14, <1>15, RemovedShown DEF BothShown
<1>17. PICK c : c = [kind |-> o.kind, path |-> o.path, name |-> o.name]
  OBVIOUS
<1>18. c.kind = "remove" /\ c.path = path
  BY <1>5, <1>6, <1>17
<1>19. U \in Promise!Effects(T, c)
  BY <1>16, <1>18 DEF Promise!Effects
<1>. QED
  BY <1>2, <1>3, <1>17, <1>19, NextEffect DEF BothShown

(* A call that has begun, and the steps that are not seen.                 *)
LEMMA CallKept ==
    ASSUME Types, Types', NEW ch \in Chains, Struct(ch), NEW path \in Paths,
           CreateDirAll(path) \/ Create(path) \/ Remove(path) \/ \E n \in Names : Rename(path, n)
    PROVE  Kept
<1>1. At("idle") /\ UNCHANGED device
  BY DEF CreateDirAll, Create, Remove, Rename
<1>2. op'.pc # "retireOld"
  <2>1. CASE CreateDirAll(path) \/ Create(path) \/ Remove(path)
    BY <2>1, IdleType DEF CreateDirAll, Create, Remove, OpType
  <2>2. ASSUME NEW n \in Names, Rename(path, n) PROVE op'.pc # "retireOld"
    <3>1. PICK s, w, d, b :
             \/ op' = [[Idle EXCEPT !.kind = "rename", !.path = path, !.name = n, !.old = w]
                          EXCEPT !.pc = "search", !.dir = d, !.set = b]
             \/ op' = [[Idle EXCEPT !.kind = "rename", !.path = path, !.name = n, !.old = w]
                          EXCEPT !.pc = "edit", !.set = s]
      BY <2>2 DEF Rename
    <3>. QED
      BY <3>1, IdleType DEF OpType
  <2>. QED
    BY <2>1, <2>2
<1>. QED
  BY <1>1, <1>2, QuietKept DEF At

LEMMA QuietSteps ==
    ASSUME Inv, NamesInv, Inv', NamesInv', "retireOld" \notin FaultPoints,
           \/ Descend \/ NotDirectory \/ Missing \/ Search \/ Grow \/ CannotGrow \/ Claim \/ NoSpace
           \/ MarkUsed \/ Terminate \/ Link \/ RecordLength \/ FreeLink \/ Unmark \/ Interrupted
           \/ (WriteSet /\ op.kind = "rename")
    PROVE  Kept
<1>1. PICK ch \in Chains : Types /\ Types' /\ Struct(ch) /\ Held(ch)
  BY DEF Inv
<1>2. CASE Descend
  BY <1>1, <1>2, DescendNames
<1>3. CASE NotDirectory \/ CannotGrow \/ NoSpace \/ Interrupted
  <2>1. UNCHANGED device /\ op' = Idle /\ ~At("retireOld")
    BY <1>3, EndedSteps
  <2>2. op'.pc # "retireOld"
    BY <2>1, IdleType
  <2>. QED
    BY <1>1, <2>1, <2>2, QuietKept
<1>4. CASE Missing
  <2>1. UNCHANGED device /\ op' = [op EXCEPT !.pc = "search"] /\ ~At("retireOld")
    BY <1>4 DEF Missing, At
  <2>2. op'.pc # "retireOld"
    BY <1>1, <2>1 DEF Types, OpType
  <2>. QED
    BY <1>1, <2>1, <2>2, QuietKept
<1>5. CASE Search \/ Grow
  BY <1>1, <1>5, SearchNames
<1>6. CASE Claim
  BY <1>1, <1>6, ClaimKept
<1>7. CASE MarkUsed \/ Terminate \/ FreeLink
  BY <1>1, <1>7, MarkKept
<1>8. CASE Link
  BY <1>1, <1>8, LinkKept
<1>9. CASE RecordLength
  BY <1>1, <1>9, LengthKept
<1>10. CASE Unmark
  BY <1>1, <1>10, UnmarkKept
<1>11. CASE WriteSet /\ op.kind = "rename"
  BY <1>1, <1>11, RenameWritten
<1>. QED
  BY <1>2, <1>3, <1>4, <1>5, <1>6, <1>7, <1>8, <1>9, <1>10, <1>11

LEMMA TreeStep ==
    ASSUME Inv, NamesInv, Inv', NamesInv', [Next]_vars, "retireOld" \notin FaultPoints
    PROVE  [Promise!Next]_(Promise!vars)
<1>1. PICK ch \in Chains : Types /\ Types' /\ Struct(ch) /\ Held(ch)
  BY DEF Inv
<1>2. SUFFICES Promise!Next
  OBVIOUS
<1>3. CASE UNCHANGED vars
  BY <1>3, StutterNames, KeptPaths, NextStays
<1>4. ASSUME NEW path \in Paths,
             CreateDirAll(path) \/ Create(path) \/ Remove(path) \/ \E n \in Names : Rename(path, n)
      PROVE  Promise!Next
  BY <1>1, <1>4, CallKept, KeptPaths, NextStays
<1>5. CASE \/ Descend \/ NotDirectory \/ Missing \/ Search \/ Grow \/ CannotGrow \/ Claim \/ NoSpace
           \/ MarkUsed \/ Terminate \/ Link \/ RecordLength \/ FreeLink \/ Unmark \/ Interrupted
           \/ (WriteSet /\ op.kind = "rename")
  BY <1>5, QuietSteps, KeptPaths, NextStays
<1>6. CASE WriteSet /\ op.kind # "rename"
  BY <1>6, MadeStep
<1>7. CASE EditName \/ (Retire /\ At("retireOld"))
  BY <1>7, MovedStep
<1>8. CASE Retire /\ At("retire")
  BY <1>8, RemovedStep
<1>9. Retire => At("retire") \/ At("retireOld")
  BY DEF Retire
<1>. QED
  BY <1>3, <1>4, <1>5, <1>6, <1>7, <1>8, <1>9 DEF Next, Step

LEMMA TreeInit ==
    ASSUME Init, Inv
    PROVE  Promise!Init
<1>1. Listed = {}
  BY InitNames
<1>2. PathsListed = [path \in {} |-> KindOf(CHOOSE e \in Listed : e[1] = path)]
  BY <1>1 DEF PathsListed
<1>3. PathsListed = << >>
  BY <1>2
<1>. QED
  BY <1>3 DEF Promise!Init

(* The paths of a volume are a tree on which every call acts at once, as   *)
(* PathTree has it: create_dir_all makes the components of its path one by *)
(* one, create and remove make and remove their leaf, rename moves its     *)
(* subtree, and no other step, no error and no interruption is seen.       *)
THEOREM TreeImplemented ==
    ASSUME "retireOld" \notin FaultPoints, "renameShorter" \notin Ops, "renameNested" \notin Ops
    PROVE  Spec => ImplementsPathTree
<1>1. Init => Promise!Init
  BY InitInv, TreeInit
<1>2. Inv /\ NamesInv /\ (Inv /\ NamesInv)' /\ [Next]_vars => [Promise!Next]_(Promise!vars)
  BY TreeStep
<1>3. Spec => [](Inv /\ NamesInv)
  BY NamesInvariance
<1>. QED
  BY <1>1, <1>2, <1>3, PTL DEF Spec, ImplementsPathTree, Promise!Spec
-----------------------------------------------------------------------------
(* Only an interruption loses clusters: where a step leaves the clusters   *)
(* of each chain.                                                          *)

(* What is in hand, by the program point.                                  *)
HandOf(ch) ==
    /\ Claimed => ch[Hand] = <<op.new>>
    /\ Releasing => /\ op.left \in Nat \ {0} /\ Len(ch[Hand]) = op.left /\ ch[Hand][1] = op.cl
                    /\ At("unmark") /\ op.left # 1 => op.next = ch[Hand][2]
    /\ ~Claimed /\ ~Releasing => ch[Hand] = <<>>

LEMMA HeldHand ==
    ASSUME NEW ch, Held(ch)
    PROVE  HandOf(ch)
BY DEF Held, HandIs, HandOf

LEMMA HandShown ==
    ASSUME Types, NEW ch \in Chains, Struct(ch), HandOf(ch), NEW c, In(ch, Hand, c)
    PROVE  c \in InHand
<1>1. Hand \in Dirs /\ ch[Hand] \in Seq(Clusters) /\ Len(ch[Hand]) \in Nat
  BY PlacesApart, ChainTypes
<1>2. PICK i \in 1..Len(ch[Hand]) : ch[Hand][i] = c
  BY DEF In
<1>3. CASE Claimed
  <2>1. ch[Hand] = <<op.new>>
    BY <1>3 DEF HandOf
  <2>2. c = op.new
    BY <1>2, <2>1
  <2>3. InHand = {op.new}
    BY <1>3 DEF InHand, Claimed, At
  <2>. QED
    BY <2>2, <2>3
<1>4. CASE Releasing
  <2>1. /\ op.left \in Nat \ {0} /\ Len(ch[Hand]) = op.left /\ ch[Hand][1] = op.cl
        /\ At("unmark") /\ op.left # 1 => op.next = ch[Hand][2]
    BY <1>4 DEF HandOf
  <2>2. Len(ch[Hand]) <= ClusterCount /\ ch[Hand] # <<>>
    BY <1>1, <2>1, NotTwice DEF Struct
  <2>3. CASE At("free")
    <3>1. \A k \in 1..(Len(ch[Hand]) - 1) : fat[ch[Hand][k]] = ch[Hand][k + 1]
      BY <1>1, <2>3 DEF Struct, Linked, Cut, At
    <3>2. PICK s \in Seq(Clusters) : s = ch[Hand]
      BY <1>1
    <3>3. s # <<>> /\ Len(s) <= ClusterCount /\ \A k \in 1..(Len(s) - 1) : fat[s[k]] = s[k + 1]
      BY <2>2, <3>1, <3>2
    <3>4. /\ Chain(s[1]) \in Seq(Clusters) /\ Len(s) <= Len(Chain(s[1]))
          /\ \A k \in 1..Len(s) : Chain(s[1])[k] = s[k]
      BY <3>3, ChainLeads
    <3>5. PICK t \in Seq(Clusters) : t = Chain(op.cl) /\ op.left <= Len(t) /\ t[i] = c
      BY <1>2, <2>1, <3>2, <3>4
    <3>6. i \in DOMAIN t \cap (1..op.left)
      BY <1>2, <2>1, <3>5
    <3>7. c \in FirstOf(op.cl, op.left)
      BY <3>5, <3>6 DEF FirstOf
    <3>. QED
      BY <2>3, <3>7 DEF InHand, At
  <2>4. CASE At("unmark")
    <3>1. InHand = {op.cl} \cup (IF op.left = 1 THEN {} ELSE FirstOf(op.next, op.left - 1))
      BY <2>4 DEF InHand, At
    <3>2. CASE i = 1
      BY <1>2, <2>1, <3>1, <3>2
    <3>3. CASE i # 1
      <4>1. PICK t : t = Tail(ch[Hand])
        OBVIOUS
      <4>2. t \in Seq(Clusters) /\ Len(t) = op.left - 1 /\ \A k \in 1..Len(t) : t[k] = ch[Hand][k + 1]
        BY <1>1, <2>1, <2>2, <4>1
      <4>3. op.left # 1 /\ i - 1 \in 1..Len(t) /\ (i - 1) + 1 = i
        BY <1>2, <2>1, <3>3, <4>2
      <4>4. t # <<>> /\ Len(t) <= ClusterCount /\ t[1] = op.next
        <5>1. Len(t) # 0 /\ 1 \in 1..Len(t)
          BY <4>2, <4>3
        <5>2. Len(t) <= ClusterCount
          BY <2>1, <2>2, <4>2, Parameters
        <5>. QED
          BY <2>1, <2>4, <4>2, <4>3, <5>1, <5>2
      <4>5. \A k \in 1..(Len(t) - 1) : fat[t[k]] = t[k + 1]
        <5>. SUFFICES ASSUME NEW k \in 1..(Len(t) - 1) PROVE fat[t[k]] = t[k + 1]
          OBVIOUS
        <5>1. /\ k \in 1..Len(t) /\ k + 1 \in 1..Len(t) /\ k + 1 \in 1..(Len(ch[Hand]) - 1)
              /\ k + 1 # 1
          BY <2>1, <4>2
        <5>2. fat[ch[Hand][k + 1]] = ch[Hand][(k + 1) + 1]
          BY <1>1, <5>1 DEF Struct, Linked, Cut
        <5>. QED
          BY <5>1, <5>2, <4>2
      <4>6. /\ Chain(t[1]) \in Seq(Clusters) /\ Len(t) <= Len(Chain(t[1]))
            /\ \A k \in 1..Len(t) : Chain(t[1])[k] = t[k]
        BY <4>2, <4>4, <4>5, ChainLeads
      <4>7. t[i - 1] = c
        BY <1>2, <4>2, <4>3
      <4>8. PICK u \in Seq(Clusters) : u = Chain(op.next) /\ Len(t) <= Len(u) /\ u[i - 1] = c
        BY <4>3, <4>4, <4>6, <4>7
      <4>9. i - 1 \in DOMAIN u \cap (1..(op.left - 1))
        BY <4>2, <4>3, <4>8
      <4>10. c \in FirstOf(op.next, op.left - 1)
        BY <4>8, <4>9 DEF FirstOf
      <4>. QED
        BY <3>1, <4>3, <4>10
    <3>. QED
      BY <3>2, <3>3
  <2>. QED
    BY <2>3, <2>4, <1>4 DEF Releasing, At
<1>5. CASE ~Claimed /\ ~Releasing
  BY <1>2, <1>5 DEF HandOf
<1>. QED
  BY <1>3, <1>4, <1>5

(* The clusters of the chains that are listed or in hand.                  *)
Accounted == Reached \cup InHand
AllAccounted ==
    \A ch \in Chains : Types /\ Struct(ch) /\ HandOf(ch) =>
        \A x, c : x \in PlacesListed \cup {Hand} /\ In(ch, x, c) => c \in Accounted

LEMMA ChainsAccounted == AllAccounted
<1>. SUFFICES ASSUME Types, NEW ch \in Chains, Struct(ch), HandOf(ch), NEW x \in PlacesListed \cup {Hand},
                     NEW c, In(ch, x, c)
              PROVE  c \in Accounted
  BY DEF AllAccounted
<1>1. CASE x = Hand
  BY <1>1, HandShown DEF Accounted
<1>2. CASE x \in PlacesListed
  <2>1. x \in {Top} \cup Places /\ x \in Dirs /\ (IsDirectory(x) => Owned(x) = {ch[x][i] : i \in 1..Len(ch[x])})
    BY <1>2, OwnedIs
  <2>2. ch[x] # <<>>
    <3>1. PICK i \in 1..Len(ch[x]) : ch[x][i] = c
      BY DEF In
    <3>. QED
      BY <3>1
  <2>3. IsDirectory(x)
    <3>1. x # None
      BY <2>1, PlacesApart
    <3>2. x # Top => SetAt(x).dir
      BY <2>1, <2>2, HomeDirectory
    <3>. QED
      BY <3>1, <3>2 DEF IsDirectory
  <2>4. c \in Owned(x)
    BY <2>1, <2>3 DEF In
  <2>. QED
    BY <1>2, <2>4 DEF Accounted, Reached
<1>. QED
  BY <1>1, <1>2

(* A step that keeps every cluster somewhere, or gives it back.            *)
Stays(w, c) == c \in used' => \E y \in PlacesListed' \cup {Hand} : In(w, y, c)
Lossless(ch, w) ==
    /\ w \in Chains /\ Struct(w)' /\ HandOf(w)'
    /\ \A x, c : x \in PlacesListed \cup {Hand} /\ In(ch, x, c) => Stays(w, c)
    /\ \A c \in used' : c \in used \/ In(w, Hand, c)

LEMMA NoneLost ==
    ASSUME Types, Types', NEW ch \in Chains, Struct(ch), Held(ch), NEW w, Lossless(ch, w)
    PROVE  Lost' \subseteq Lost
<1>1. AllAccounted'
  BY ChainsAccounted, PTL
<1>2. w \in Chains /\ Struct(w)' /\ HandOf(w)'
  BY DEF Lossless
<1>3. \A x, c : x \in PlacesListed' \cup {Hand} /\ In(w, x, c) => c \in Accounted'
  BY <1>1, <1>2 DEF AllAccounted, In
<1>4. ASSUME NEW c \in Accounted PROVE \E x \in PlacesListed \cup {Hand} : In(ch, x, c)
  <2>1. CASE c \in InHand
    BY <2>1, InHandIs
  <2>2. CASE c \in Reached
    <3>1. PICK x \in PlacesListed : c \in Owned(x)
      BY <2>2 DEF Reached
    <3>. QED
      BY <3>1, OwnedIs
  <2>. QED
    BY <2>1, <2>2 DEF Accounted
<1>5. Lost = used \ Accounted /\ Lost' = used' \ Accounted'
  BY DEF Lost, Accounted
<1>6. ASSUME NEW c \in used', c \notin Accounted' PROVE c \in used /\ c \notin Accounted
  <2>1. ~In(w, Hand, c) /\ ~Stays(w, c)
    BY <1>3, <1>6 DEF Stays
  <2>2. c \in used
    BY <2>1 DEF Lossless
  <2>3. c \notin Accounted
    BY <1>4, <2>1 DEF Lossless
  <2>. QED
    BY <2>2, <2>3
<1>. QED
  BY <1>5, <1>6

(* The same chains, and nothing listed is gone.                            *)
LEMMA SameChains ==
    ASSUME NEW ch \in Chains, Struct(ch)', HandOf(ch)', PlacesListed \subseteq PlacesListed',
           \A c \in used' : c \in used \/ In(ch, Hand, c)
    PROVE  Lossless(ch, ch)
BY DEF Lossless, Stays

LEMMA KeptPlaces ==
    ASSUME Kept
    PROVE  PlacesListed' = PlacesListed
BY DEF Kept, PlacesListed

LEMMA EndsLossless ==
    ASSUME Types, Types', NEW ch \in Chains, Struct(ch), Held(ch), UNCHANGED device, Kept,
           op.pc \in {"idle", "descend", "search", "claim"},
           op'.pc \in {"idle", "descend", "search", "claim", "edit", "retire"} \/
           (op'.pc = "write" /\ op'.kind # "mkdir")
    PROVE  Lossless(ch, ch)
<1>1. Struct(ch)'
  BY StructStays
<1>2. ch[Hand] = <<>>
  BY IdleHand
<1>3. HandOf(ch)'
  BY <1>2 DEF HandOf, Claimed, Releasing, At
<1>4. used' = used
  BY DEF device
<1>. QED
  BY <1>1, <1>3, <1>4, KeptPlaces, SameChains

LEMMA ClaimLossless ==
    ASSUME Types, Types', NEW ch \in Chains, Struct(ch), Held(ch), Claim
    PROVE  \E w : Lossless(ch, w)
<1>1. PICK c \in Clusters : /\ op'.new = c /\ Taken(ch, c) \in Chains /\ Struct(Taken(ch, c))'
                            /\ Taken(ch, c)[Hand] = <<c>> /\ SameElsewhere(ch, Taken(ch, c), {Hand})
  BY ClaimStruct
<1>2. PICK w : w = Taken(ch, c)
  OBVIOUS
<1>3. w \in Chains /\ Struct(w)' /\ w[Hand] = <<c>> /\ SameElsewhere(ch, w, {Hand})
  BY <1>1, <1>2
<1>4. ch[Hand] = <<>>
  BY IdleHand DEF Claim, At
<1>5. op'.pc = "mark"
  <2>1. op' = [op EXCEPT !.pc = "mark", !.new = op'.new]
    BY DEF Claim
  <2>. QED
    BY <2>1 DEF Types, OpType
<1>6. HandOf(w)'
  BY <1>1, <1>3, <1>5 DEF HandOf, Claimed, Releasing, At
<1>7. used' = used /\ PlacesListed' = PlacesListed
  BY ClaimKept, KeptPlaces DEF Claim
<1>8. ASSUME NEW x \in PlacesListed \cup {Hand}, NEW d, In(ch, x, d) PROVE Stays(w, d)
  <2>1. x # Hand
    BY <1>4, <1>8 DEF In
  <2>2. x \in Dirs
    BY <2>1, OwnedIs
  <2>3. In(w, x, d)
    BY <1>3, <1>8, <2>1, <2>2 DEF SameElsewhere, In
  <2>. QED
    BY <1>7, <2>3 DEF Stays
<1>9. Lossless(ch, w)
  BY <1>3, <1>6, <1>7, <1>8 DEF Lossless
<1>. QED
  BY <1>9

LEMMA MarkLossless ==
    ASSUME Types, Types', NEW ch \in Chains, Struct(ch), Held(ch), MarkUsed \/ Terminate \/ FreeLink
    PROVE  Lossless(ch, ch)
<1>1. PlacesListed' = PlacesListed
  BY MarkKept, KeptPlaces
<1>2. HandOf(ch)
  BY HeldHand
<1>3. CASE MarkUsed
  <2>1. op' = [op EXCEPT !.pc = "terminate"] /\ used' = used \cup {op.new} /\ At("mark")
    BY <1>3 DEF MarkUsed
  <2>2. op'.pc = "terminate" /\ op'.new = op.new
    BY <2>1 DEF Types, OpType
  <2>3. ch[Hand] = <<op.new>>
    BY <1>2, <2>1 DEF HandOf, Claimed, At
  <2>4. HandOf(ch)'
    BY <2>2, <2>3 DEF HandOf, Claimed, Releasing, At
  <2>5. In(ch, Hand, op.new)
    <3>1. Len(ch[Hand]) = 1 /\ ch[Hand][1] = op.new /\ 1 \in 1..1
      BY <2>3
    <3>. QED
      BY <3>1 DEF In
  <2>. QED
    BY <1>1, <1>3, <2>1, <2>4, <2>5, MarkUsedStruct, SameChains
<1>4. CASE Terminate
  <2>1. /\ op' = IF op.growing THEN [op EXCEPT !.pc = "link"]
                 ELSE [op EXCEPT !.pc = "write", !.set = NewDirectory]
        /\ At("terminate") /\ used' = used
    BY <1>4 DEF Terminate
  <2>2. /\ op'.new = op.new /\ op'.kind = op.kind
        /\ op'.pc = "link" \/ (op'.pc = "write" /\ ~op.growing)
    BY <2>1 DEF Types, OpType
  <2>3. ~op.growing => op.kind = "mkdir"
    BY <2>1 DEF Held, CallIs, Placed, At
  <2>4. ch[Hand] = <<op.new>>
    BY <1>2, <2>1 DEF HandOf, Claimed, At
  <2>5. HandOf(ch)'
    BY <2>2, <2>3, <2>4 DEF HandOf, Claimed, Releasing, At
  <2>. QED
    BY <1>1, <1>4, <2>1, <2>5, TerminateStruct, SameChains
<1>5. CASE FreeLink
  <2>1. op'.pc = "unmark" /\ (op.left # 1 => op'.next = ch[Hand][2]) /\ Struct(ch)'
    BY <1>5, FreeLinkStruct
  <2>2. /\ op' = [op EXCEPT !.pc = "unmark", !.next = IF op.left = 1 THEN 0 ELSE fat[op.cl]]
        /\ At("free") /\ used' = used
    BY <1>5 DEF FreeLink
  <2>3. op'.left = op.left /\ op'.cl = op.cl
    BY <2>2 DEF Types, OpType
  <2>4. op.left \in Nat \ {0} /\ Len(ch[Hand]) = op.left /\ ch[Hand][1] = op.cl
    BY <1>2, <2>2 DEF HandOf, Releasing, At
  <2>5. HandOf(ch)'
    BY <2>1, <2>3, <2>4 DEF HandOf, Claimed, Releasing, At
  <2>. QED
    BY <1>1, <1>5, <2>1, <2>2, <2>5, SameChains
<1>. QED
  BY <1>3, <1>4, <1>5

(* A chain has one more cluster, the one that was in hand.                 *)
LEMMA AttachedLossless ==
    ASSUME NEW ch \in Chains, Disjoint(ch), NEW p \in Dirs \ {Hand}, NEW c \in Clusters, ch[Hand] = <<c>>,
           NEW w, w = Attached(ch, p), Struct(w)', op'.pc \in {"idle", "descend", "search"},
           PlacesListed \subseteq PlacesListed', p \in PlacesListed',
           used' = used, \A x \in PlacesListed : x \in Dirs
    PROVE  Lossless(ch, w)
<1>1. /\ w \in Chains /\ w[Hand] = <<>> /\ SameElsewhere(ch, w, {Hand, p})
      /\ \A d : In(w, p, d) <=> In(ch, p, d) \/ d = c
  BY AttachedIs
<1>2. HandOf(w)'
  BY <1>1 DEF HandOf, Claimed, Releasing, At
<1>3. ASSUME NEW x \in PlacesListed \cup {Hand}, NEW d, In(ch, x, d) PROVE Stays(w, d)
  <2>1. CASE x = Hand
    <3>1. d = c
      BY <1>3, <2>1 DEF In
    <3>2. In(w, p, d)
      BY <1>1, <3>1
    <3>. QED
      BY <3>2 DEF Stays
  <2>2. CASE x = p
    <3>1. In(w, p, d)
      BY <1>1, <1>3, <2>2
    <3>. QED
      BY <3>1 DEF Stays
  <2>3. CASE x # Hand /\ x # p
    <3>1. w[x] = ch[x] /\ x \in PlacesListed'
      BY <1>1, <1>3, <2>3 DEF SameElsewhere
    <3>2. In(w, x, d)
      BY <1>3, <3>1 DEF In
    <3>. QED
      BY <3>1, <3>2 DEF Stays
  <2>. QED
    BY <2>1, <2>2, <2>3
<1>. QED
  BY <1>1, <1>2, <1>3 DEF Lossless

LEMMA LinkLossless ==
    ASSUME Types, Types', NEW ch \in Chains, Struct(ch), Held(ch), Link
    PROVE  \E w : Lossless(ch, w)
<1>1. PlacesListed' = PlacesListed
  BY LinkKept, KeptPlaces
<1>2. At("link") /\ used' = used /\ ch[Hand] = <<op.new>> /\ op.new \in Clusters
  BY DEF Link, Held, HandIs, Claimed, At
<1>3. CASE op.dir.len # 0
  <2>1. op' = [op EXCEPT !.pc = "length"] /\ Struct(ch)'
    BY <1>3, LinkStruct DEF Link
  <2>2. op'.pc = "length" /\ op'.new = op.new
    BY <2>1 DEF Types, OpType
  <2>3. HandOf(ch)'
    BY <1>2, <2>2 DEF HandOf, Claimed, Releasing, At
  <2>. QED
    BY <1>1, <1>2, <2>1, <2>3, SameChains
<1>4. CASE op.dir.len = 0
  <2>1. op' = [op EXCEPT !.pc = "search", !.growing = FALSE, !.new = 0]
    BY <1>4 DEF Link
  <2>2. op'.pc = "search"
    BY <2>1 DEF Types, OpType
  <2>3. PICK w, c : w = Attached(ch, Top) /\ c = op.new
    OBVIOUS
  <2>4. Struct(w)'
    BY <1>4, <2>3, LinkStruct
  <2>5. Top \in PlacesListed' /\ Top \in Dirs \ {Hand} /\ \A x \in PlacesListed : x \in Dirs
    BY PlacesApart, OwnedIs DEF PlacesListed
  <2>6. Lossless(ch, w)
    BY <1>1, <1>2, <2>2, <2>3, <2>4, <2>5, AttachedLossless DEF Struct
  <2>. QED
    BY <2>6
<1>. QED
  BY <1>3, <1>4

LEMMA LengthLossless ==
    ASSUME Types, Types', NEW ch \in Chains, Struct(ch), Held(ch), NamesInv, RecordLength
    PROVE  \E w : Lossless(ch, w)
<1>1. PlacesListed' = PlacesListed
  BY LengthKept, KeptPlaces
<1>2. At("length") /\ used' = used /\ ch[Hand] = <<op.new>> /\ op.new \in Clusters
  BY DEF RecordLength, Held, HandIs, Claimed, At
<1>3. PICK o, q, c : o = op /\ q = op.dir.at /\ c = op.new
  OBVIOUS
<1>4. op' = [op EXCEPT !.pc = "search", !.growing = FALSE, !.new = 0, !.dir.len = @ + 1]
  BY DEF RecordLength
<1>5. op'.pc = "search"
  BY <1>4 DEF Types, OpType
<1>6. q \in PlacesListed
  <2>1. Makes(o) /\ Fits(o, Listed)
    BY <1>2, <1>3 DEF Makes, At, NamesInv
  <2>2. Leads(Listed, HomePath(o), q)
    BY <1>3, <2>1 DEF Fits
  <2>3. q = Top \/ \E e \in Listed : e = <<HomePath(o), q>>
    BY <2>2 DEF Leads
  <2>. QED
    BY <2>3 DEF PlacesListed
<1>7. q \in {Top} \cup Places /\ q \in Dirs \ {Hand} /\ \A x \in PlacesListed : x \in Dirs
  BY <1>6, PlacesApart, OwnedIs
<1>8. PICK w : w = Attached(ch, q)
  OBVIOUS
<1>9. Struct(w)'
  BY <1>3, <1>7, <1>8, RecordLengthStruct
<1>10. Lossless(ch, w)
  BY <1>1, <1>2, <1>3, <1>5, <1>6, <1>7, <1>8, <1>9, AttachedLossless DEF Struct
<1>. QED
  BY <1>10

LEMMA WriteLossless ==
    ASSUME Types, Types', NEW ch \in Chains, Struct(ch), Held(ch), NamesInv, WriteSet
    PROVE  \E w : Lossless(ch, w)
<1>1. At("write") /\ used' = used
  BY DEF WriteSet
<1>2. PICK o : o = op
  OBVIOUS
<1>3. PICK p \in Places, s \in SlotType : p = op.place /\ s = op.set
  BY <1>1 DEF Held, PlaceIs, Placed, Types, OpType
<1>4. \A x \in PlacesListed : x \in Dirs
  BY OwnedIs
<1>5. op.kind # "rename" => PlacesListed' = PlacesListed \cup {p}
  <2>1. SUFFICES ASSUME op.kind # "rename" PROVE PlacesListed' = PlacesListed \cup {p}
    OBVIOUS
  <2>2. PICK q \in Places : q = op.place /\ Listed' = Listed \cup {<<NewPath(o), q>>}
    BY <1>2, <2>1, MadeIs
  <2>3. PICK e \in Listed' : e = <<NewPath(o), q>>
    BY <2>2
  <2>4. e[2] = p /\ Listed' = Listed \cup {e}
    BY <1>3, <2>2, <2>3
  <2>. QED
    BY <2>4 DEF PlacesListed
<1>6. CASE op.kind = "mkdir"
  <2>1. PICK w, c : w = Attached(ch, p) /\ c = op.new
    OBVIOUS
  <2>2. Struct(w)'
    BY <1>3, <1>6, <2>1, MakeStruct
  <2>3. ch[Hand] = <<c>> /\ c \in Clusters
    BY <1>1, <1>6, <2>1 DEF Held, HandIs, Claimed
  <2>4. op'.pc \in {"idle", "descend"}
    <3>1. Onward([first |-> op.new, len |-> 1, at |-> op.place])
      BY ZenonT(40), <1>6 DEF WriteSet
    <3>2. CASE op.i = Len(op.path)
      BY <3>1, <3>2, IdleType DEF Onward
    <3>3. CASE op.i # Len(op.path)
      <4>1. op' = [Idle EXCEPT !.pc = "descend", !.kind = "mkdir", !.path = op.path, !.i = op.i + 1,
                               !.dir = [first |-> op.new, len |-> 1, at |-> op.place]]
        BY <3>1, <3>3 DEF Onward
      <4>. QED
        BY <4>1, IdleType DEF OpType
    <3>. QED
      BY <3>2, <3>3
  <2>5. p \in Dirs \ {Hand}
    BY PlacesApart
  <2>6. PlacesListed \subseteq PlacesListed' /\ p \in PlacesListed'
    BY <1>5, <1>6
  <2>7. Lossless(ch, w)
    BY <1>1, <1>4, <2>1, <2>2, <2>3, <2>4, <2>5, <2>6, AttachedLossless DEF Struct
  <2>. QED
    BY <2>7
<1>7. CASE op.kind # "mkdir"
  <2>1. /\ Struct(ch)' /\ ch[Hand] = <<>>
        /\ op' = Idle \/ (op.kind = "rename" /\ op' = [op EXCEPT !.pc = "retireOld"])
    BY <1>3, <1>7, WriteStruct
  <2>2. op'.pc \in {"idle", "retireOld"}
    BY <2>1, IdleType DEF Types, OpType
  <2>3. HandOf(ch)'
    BY <2>1, <2>2 DEF HandOf, Claimed, Releasing, At
  <2>4. PlacesListed \subseteq PlacesListed'
    BY <1>5, RenameWritten, KeptPlaces
  <2>5. Lossless(ch, ch)
    BY <1>1, <2>1, <2>3, <2>4, SameChains
  <2>. QED
    BY <2>5
<1>. QED
  BY <1>6, <1>7

LEMMA RenamedLossless ==
    ASSUME Types, Types', NEW ch \in Chains, Struct(ch), Held(ch), NamesInv,
           EditName \/ (Retire /\ At("retireOld"))
    PROVE  \E w : Lossless(ch, w)
<1>1. PICK old \in Paths, n \in Names, p \in Places, q \in Places : RenamedTo(old, n, p, q)
  BY RenamedIt
<1>2. /\ Listed' = Moved(old, n, p, q, Listed) /\ op' = Idle
      /\ p = op.old /\ (At("edit") => q = p) /\ (At("retireOld") => q = op.place)
  BY <1>1 DEF RenamedTo
<1>3. used' = used /\ op'.pc = "idle"
  BY <1>2, IdleType DEF EditName, Retire
<1>4. ASSUME NEW x \in PlacesListed PROVE Changed(p, q, x) \in PlacesListed'
  <2>1. CASE x = Top
    BY <2>1, PlacesApart DEF Changed, PlacesListed
  <2>2. ASSUME NEW e \in Listed, x = e[2] PROVE Changed(p, q, x) \in PlacesListed'
    <3>1. PICK f \in Listed' : f = <<Renamed(old, n, e[1]), Changed(p, q, e[2])>>
      BY <1>2 DEF Moved
    <3>2. f[2] = Changed(p, q, x)
      BY <2>2, <3>1
    <3>. QED
      BY <3>2 DEF PlacesListed
  <2>. QED
    BY <2>1, <2>2 DEF PlacesListed
<1>5. CASE EditName
  <2>1. Struct(ch)' /\ ch[Hand] = <<>>
    BY <1>2, <1>5, EditStruct
  <2>2. HandOf(ch)'
    BY <1>3, <2>1 DEF HandOf, Claimed, Releasing, At
  <2>3. q = p
    BY <1>2, <1>5 DEF EditName
  <2>4. PlacesListed \subseteq PlacesListed'
    BY <1>4, <2>3 DEF Changed
  <2>5. Lossless(ch, ch)
    BY <1>3, <2>1, <2>2, <2>4, SameChains
  <2>. QED
    BY <2>5
<1>6. CASE Retire /\ At("retireOld")
  <2>1. PICK w : w = Shifted(ch, p, q)
    OBVIOUS
  <2>2. w \in Chains /\ Struct(w)' /\ w[Hand] = <<>>
    BY <1>2, <1>6, <2>1, RenamedStruct
  <2>3. p # q /\ ch[q] = <<>> /\ p \in Dirs /\ q \in Dirs /\ ch[Hand] = <<>>
    <3>1. Hidden(q)
      BY <1>2, <1>6 DEF Hidden
    <3>2. ch[q] = <<>>
      BY <3>1, NoChain
    <3>3. ~Hidden(p)
      BY <1>2, <1>6 DEF Held, OldIs, Live, At
    <3>4. ch[Hand] = <<>>
      BY <1>6, IdleHand DEF At
    <3>. QED
      BY <3>1, <3>2, <3>3, <3>4, PlacesApart
  <2>4. w[q] = ch[p] /\ SameElsewhere(ch, w, {p, q})
    BY <2>1, <2>3, ShiftedIs DEF Struct
  <2>5. HandOf(w)'
    BY <1>3, <2>2 DEF HandOf, Claimed, Releasing, At
  <2>6. ASSUME NEW x \in PlacesListed \cup {Hand}, NEW c, In(ch, x, c) PROVE Stays(w, c)
    <3>1. x # Hand /\ x # q
      BY <2>3, <2>6 DEF In
    <3>2. x \in PlacesListed /\ x \in Dirs
      BY <3>1, OwnedIs
    <3>3. In(w, Changed(p, q, x), c)
      BY <2>4, <2>6, <3>1, <3>2 DEF Changed, SameElsewhere, In
    <3>. QED
      BY <1>4, <3>2, <3>3 DEF Stays
  <2>7. Lossless(ch, w)
    BY <1>3, <2>2, <2>5, <2>6 DEF Lossless
  <2>. QED
    BY <2>7
<1>. QED
  BY <1>5, <1>6

LEMMA RetireLossless ==
    ASSUME Types, Types', NEW ch \in Chains, Struct(ch), Held(ch), Retire, At("retire")
    PROVE  \E w : Lossless(ch, w)
<1>1. PICK p \in Places : p = op.old
  BY DEF Held, OldIs, At
<1>2. PICK w : w = Shifted(ch, p, Hand)
  OBVIOUS
<1>3. /\ w \in Chains /\ Struct(w)' /\ w[Hand] = ch[p]
      /\ ch[p] # <<>> => Len(ch[p]) = op.set.len /\ ch[p][1] = op.set.first
      /\ ch[p] = <<>> => op.set.len = 0
  BY <1>1, <1>2, RetireStruct
<1>4. ch[Hand] = <<>> /\ p \in Dirs /\ p # Hand /\ Hand \in Dirs /\ ch[p] \in Seq(Clusters)
  BY IdleHand, PlacesApart, ChainTypes DEF At
<1>5. SameElsewhere(ch, w, {p, Hand})
  BY <1>2, <1>4, ShiftedIs DEF Struct
<1>6. op' = (IF op.set.len = 0 THEN Idle ELSE [op EXCEPT !.pc = "free", !.cl = op.set.first, !.left = op.set.len])
      /\ used' = used
  BY DEF Retire, Released, At
<1>7. HandOf(w)'
  <2>1. CASE op.set.len = 0
    <3>1. op'.pc = "idle"
      BY <1>6, <2>1, IdleType
    <3>2. ch[p] = <<>>
      BY <1>3, <1>4, <2>1
    <3>. QED
      BY <1>3, <3>1, <3>2 DEF HandOf, Claimed, Releasing, At
  <2>2. CASE op.set.len # 0
    <3>1. op' = [op EXCEPT !.pc = "free", !.cl = op.set.first, !.left = op.set.len]
      BY <1>6, <2>2
    <3>2. op'.pc = "free" /\ op'.cl = op.set.first /\ op'.left = op.set.len
      BY <3>1 DEF Types, OpType
    <3>3. op.set.len \in Nat \ {0}
      <4>1. op.set.len \in 0..ClusterCount
        BY DEF Types, OpType, SlotType
      <4>. QED
        BY <2>2, <4>1, Parameters
    <3>4. Len(w[Hand]) = op.set.len /\ w[Hand][1] = op.set.first
      BY <1>3, <2>2
    <3>. QED
      BY <3>2, <3>3, <3>4 DEF HandOf, Claimed, Releasing, At
  <2>. QED
    BY <2>1, <2>2
<1>8. PlacesListed \ {p} \subseteq PlacesListed'
  <2>1. Listed' = {e \in Listed : e[2] # p}
    BY <1>1, RetiredListed
  <2>. QED
    BY <2>1 DEF PlacesListed
<1>9. ASSUME NEW x \in PlacesListed \cup {Hand}, NEW c, In(ch, x, c) PROVE Stays(w, c)
  <2>1. x # Hand
    BY <1>4, <1>9 DEF In
  <2>2. CASE x = p
    <3>1. In(w, Hand, c)
      BY <1>3, <1>9, <2>2 DEF In
    <3>. QED
      BY <3>1 DEF Stays
  <2>3. CASE x # p
    <3>1. x \in Dirs /\ x \in PlacesListed'
      BY <1>8, <2>1, <2>3, OwnedIs
    <3>2. In(w, x, c)
      BY <1>5, <1>9, <2>1, <2>3, <3>1 DEF SameElsewhere, In
    <3>. QED
      BY <3>1, <3>2 DEF Stays
  <2>. QED
    BY <2>2, <2>3
<1>10. Lossless(ch, w)
  BY <1>3, <1>6, <1>7, <1>9 DEF Lossless
<1>. QED
  BY <1>10

LEMMA UnmarkLossless ==
    ASSUME Types, Types', NEW ch \in Chains, Struct(ch), Held(ch), Unmark
    PROVE  \E w : Lossless(ch, w)
<1>1. PICK w : w = Dropped(ch)
  OBVIOUS
<1>2. /\ w \in Chains /\ Struct(w)' /\ Len(w[Hand]) = op.left - 1 /\ op.left \in Nat \ {0}
      /\ op.left # 1 => /\ w[Hand][1] = op.next /\ op.next \in Clusters
                        /\ op' = [op EXCEPT !.pc = "free", !.cl = op.next, !.left = @ - 1]
      /\ op.left = 1 => op' = Idle
  BY <1>1, UnmarkStruct
<1>3. At("unmark") /\ used' = used \ {op.cl}
  BY DEF Unmark
<1>4. Len(ch[Hand]) = op.left /\ ch[Hand][1] = op.cl
  BY <1>3 DEF Held, HandIs, Releasing, At
<1>5. Hand \in Dirs /\ w[Hand] \in Seq(Clusters) /\ ch[Hand] # <<>>
  <2>1. Hand \in Dirs
    BY PlacesApart
  <2>. QED
    BY <1>2, <1>4, <2>1, ChainTypes
<1>6. /\ \A i \in 1..(Len(ch[Hand]) - 1) : w[Hand][i] = ch[Hand][i + 1]
      /\ SameElsewhere(ch, w, {Hand})
  BY <1>1, <1>5, DroppedIs DEF Struct
<1>7. HandOf(w)'
  <2>1. CASE op.left = 1
    <3>1. op'.pc = "idle"
      BY <1>2, <2>1, IdleType
    <3>2. w[Hand] = <<>>
      BY <1>2, <1>5, <2>1
    <3>. QED
      BY <3>1, <3>2 DEF HandOf, Claimed, Releasing, At
  <2>2. CASE op.left # 1
    <3>1. op'.pc = "free" /\ op'.cl = op.next /\ op'.left = op.left - 1
      BY <1>2, <2>2 DEF Types, OpType
    <3>2. op.left - 1 \in Nat \ {0}
      BY <1>2, <2>2
    <3>. QED
      BY <1>2, <2>2, <3>1, <3>2 DEF HandOf, Claimed, Releasing, At
  <2>. QED
    BY <2>1, <2>2
<1>8. PlacesListed' = PlacesListed
  BY UnmarkKept, KeptPlaces
<1>9. ASSUME NEW x \in PlacesListed \cup {Hand}, NEW c, In(ch, x, c) PROVE Stays(w, c)
  <2>1. CASE x = Hand
    <3>1. PICK i \in 1..Len(ch[Hand]) : ch[Hand][i] = c
      BY <1>9, <2>1 DEF In
    <3>2. CASE i = 1
      BY <1>3, <1>4, <3>1, <3>2 DEF Stays
    <3>3. CASE i # 1
      <4>1. i - 1 \in 1..(Len(ch[Hand]) - 1) /\ (i - 1) + 1 = i /\ i - 1 \in 1..Len(w[Hand])
        <5>1. PICK n \in Nat \ {0} : n = op.left
          BY <1>2
        <5>2. Len(ch[Hand]) = n /\ Len(w[Hand]) = n - 1 /\ i \in 1..n
          BY <1>2, <1>4, <5>1
        <5>3. i - 1 \in 1..(n - 1) /\ (i - 1) + 1 = i
          BY <3>3, <5>2
        <5>. QED
          BY <5>2, <5>3
      <4>2. w[Hand][i - 1] = c
        BY <1>6, <3>1, <4>1
      <4>3. In(w, Hand, c)
        BY <4>1, <4>2 DEF In
      <4>. QED
        BY <4>3 DEF Stays
    <3>. QED
      BY <3>2, <3>3
  <2>2. CASE x # Hand
    <3>1. x \in PlacesListed /\ x \in Dirs
      BY <2>2, OwnedIs
    <3>2. In(w, x, c)
      BY <1>6, <1>9, <2>2, <3>1 DEF SameElsewhere, In
    <3>. QED
      BY <1>8, <3>1, <3>2 DEF Stays
  <2>. QED
    BY <2>1, <2>2
<1>10. Lossless(ch, w)
  BY <1>2, <1>3, <1>7, <1>9 DEF Lossless
<1>. QED
  BY <1>10

(* The calls, and the steps that write nothing.                            *)
LEMMA CallLossless ==
    ASSUME Types, Types', NEW ch \in Chains, Struct(ch), Held(ch), NEW path \in Paths,
           CreateDirAll(path) \/ Create(path) \/ Remove(path) \/ \E n \in Names : Rename(path, n)
    PROVE  Lossless(ch, ch)
<1>1. At("idle") /\ UNCHANGED device
  BY DEF CreateDirAll, Create, Remove, Rename
<1>2. op'.pc \in {"idle", "descend", "search", "claim", "edit", "retire"}
  <2>1. CASE CreateDirAll(path) \/ Create(path) \/ Remove(path)
    BY <2>1, IdleType DEF CreateDirAll, Create, Remove, OpType
  <2>2. ASSUME NEW n \in Names, Rename(path, n) PROVE op'.pc \in {"search", "edit"}
    <3>1. PICK s, w, d, b :
             \/ op' = [[Idle EXCEPT !.kind = "rename", !.path = path, !.name = n, !.old = w]
                          EXCEPT !.pc = "search", !.dir = d, !.set = b]
             \/ op' = [[Idle EXCEPT !.kind = "rename", !.path = path, !.name = n, !.old = w]
                          EXCEPT !.pc = "edit", !.set = s]
      BY <2>2 DEF Rename
    <3>. QED
      BY <3>1, IdleType DEF OpType
  <2>. QED
    BY <2>1, <2>2
<1>. QED
  BY <1>1, <1>2, CallKept, EndsLossless DEF At

LEMMA QuietLossless ==
    ASSUME Types, Types', NEW ch \in Chains, Struct(ch), Held(ch), NamesInv,
           Descend \/ NotDirectory \/ Missing \/ Search \/ Grow \/ CannotGrow \/ NoSpace
    PROVE  Lossless(ch, ch)
<1>1. UNCHANGED device /\ op.pc \in {"descend", "search", "claim"}
  BY DEF Descend, NotDirectory, Missing, Search, Grow, CannotGrow, NoSpace, At
<1>2. \/ op'.pc \in {"idle", "descend", "search", "claim"}
      \/ op'.pc = "write" /\ op'.kind # "mkdir"
  <2>1. CASE NotDirectory \/ CannotGrow \/ NoSpace
    BY <2>1, IdleType DEF NotDirectory, CannotGrow, NoSpace
  <2>2. CASE Missing \/ Grow
    BY <2>2 DEF Missing, Grow, Types, OpType
  <2>3. CASE Search
    BY <2>3 DEF Search, AfterSearch, Types, OpType
  <2>4. CASE Descend
    <3>1. op' = Idle \/ op'.pc = "descend"
      <4>1. op' = Idle \/ \E d : op' = [Idle EXCEPT !.pc = "descend", !.kind = "mkdir", !.path = op.path,
                                                    !.i = op.i + 1, !.dir = d]
        BY <2>4 DEF Descend, Onward
      <4>. QED
        BY <4>1, IdleType DEF OpType
    <3>. QED
      BY <3>1, IdleType
  <2>. QED
    BY <2>1, <2>2, <2>3, <2>4
<1>3. Kept
  <2>1. op.pc # "retireOld" /\ op'.pc # "retireOld"
    BY <1>1, <1>2
  <2>. QED
    BY <1>1, <2>1, QuietKept DEF At
<1>. QED
  BY <1>1, <1>2, <1>3, EndsLossless

LEMMA StepLossless ==
    ASSUME Inv, NamesInv, Inv', Next, ~Interrupted
    PROVE  Lost' \subseteq Lost
<1>1. PICK ch \in Chains : Types /\ Types' /\ Struct(ch) /\ Held(ch)
  BY DEF Inv
<1>2. SUFFICES \E w : Lossless(ch, w)
  BY <1>1, NoneLost
<1>3. ASSUME NEW path \in Paths,
             CreateDirAll(path) \/ Create(path) \/ Remove(path) \/ \E n \in Names : Rename(path, n)
      PROVE  \E w : Lossless(ch, w)
  BY <1>1, <1>3, CallLossless
<1>4. CASE Descend \/ NotDirectory \/ Missing \/ Search \/ Grow \/ CannotGrow \/ NoSpace
  BY <1>1, <1>4, QuietLossless
<1>5. CASE Claim
  BY <1>1, <1>5, ClaimLossless
<1>6. CASE MarkUsed \/ Terminate \/ FreeLink
  BY <1>1, <1>6, MarkLossless
<1>7. CASE Link
  BY <1>1, <1>7, LinkLossless
<1>8. CASE RecordLength
  BY <1>1, <1>8, LengthLossless
<1>9. CASE WriteSet
  BY <1>1, <1>9, WriteLossless
<1>10. CASE EditName \/ (Retire /\ At("retireOld"))
  BY <1>1, <1>10, RenamedLossless
<1>11. CASE Retire /\ At("retire")
  BY <1>1, <1>11, RetireLossless
<1>12. CASE Unmark
  BY <1>1, <1>12, UnmarkLossless
<1>13. Retire => At("retire") \/ At("retireOld")
  BY DEF Retire
<1>. QED
  BY <1>3, <1>4, <1>5, <1>6, <1>7, <1>8, <1>9, <1>10, <1>11, <1>12, <1>13 DEF Next, Step

(* Only a power cut or a dropped future loses clusters: every step of the  *)
(* operations (src/fs/operations.rs) leaves each cluster whose allocation  *)
(* bit is set in a listed directory or in the hands of the operation, or   *)
(* clears its bit.                                                         *)
THEOREM ClustersKept ==
    ASSUME "retireOld" \notin FaultPoints, "renameShorter" \notin Ops, "renameNested" \notin Ops
    PROVE  Spec => NothingLost
<1>1. (Inv /\ NamesInv) /\ (Inv /\ NamesInv)' /\ [Next]_vars => [Interrupted \/ Lost' \subseteq Lost]_vars
  BY StepLossless
<1>2. Spec => [](Inv /\ NamesInv)
  BY NamesInvariance
<1>. QED
  BY <1>1, <1>2, PTL DEF Spec, NothingLost
====
