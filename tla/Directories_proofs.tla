--------------------------- MODULE Directories_proofs ---------------------------
(***************************************************************************)
(* What holds of every directory, with any names, sectors and clusters.    *)
(***************************************************************************)
EXTENDS Directories, TLAPS

Seqs == INSTANCE SequenceTheorems
Numbers == INSTANCE Induction

-----------------------------------------------------------------------------
(* Constants, and evaluation.                                              *)

(* The constants as the proofs use them.                                   *)
LEMMA Parameters ==
    /\ SlotsPerSector \in Nat \ {0} /\ SectorsPerCluster \in Nat \ {0}
    /\ SlotsPerCluster \in Nat \ {0} /\ SlotsPerSector <= SlotsPerCluster
    /\ UnitsPerEntry \in Nat \ {0}
    /\ \A n \in Names : Units[n] \in Nat \ {0} /\ NameEntries(n) \in Nat \ {0} /\ SetSize(n) \in Nat \ {0, 1, 2}
<1>1. /\ SlotsPerSector \in Nat \ {0} /\ SectorsPerCluster \in Nat \ {0}
      /\ UnitsPerEntry \in Nat \ {0} /\ \A n \in Names : Units[n] \in Nat \ {0}
  BY DirectoryAssumption
<1>. DEFINE a == SlotsPerSector
            b == SectorsPerCluster
<1>2. a * b \in Nat /\ a * b >= a
  <2>1. a \in Nat \ {0} /\ b \in Nat \ {0}
    BY <1>1
  <2>2. b - 1 \in Nat /\ a * b = a * (b - 1) + a
    BY <2>1
  <2>3. a * (b - 1) \in Nat
    BY <2>1, <2>2
  <2>. QED
    BY <2>1, <2>2, <2>3
<1>3. ASSUME NEW n \in Names PROVE NameEntries(n) \in Nat \ {0}
  <2>. DEFINE u == Units[n]
              e == UnitsPerEntry
  <2>1. u \in Nat \ {0} /\ e \in Nat \ {0}
    BY <1>1
  <2>2. u + e - 1 \in Nat /\ u + e - 1 >= e
    BY <2>1
  <2>3. (u + e - 1) \div e \in Nat \ {0}
    BY <2>1, <2>2
  <2>. QED
    BY <2>3 DEF NameEntries
<1>. QED
  BY <1>1, <1>2, <1>3 DEF SlotsPerCluster, SetSize

-----------------------------------------------------------------------------
(* Scans, slot by slot.                                                    *)

IsSeq(t) == \E S : t \in Seq(S)

(* Whatever is appended to a sequence.                                     *)
LEMMA Appended ==
    ASSUME NEW t, IsSeq(t), NEW x
    PROVE  /\ IsSeq(Append(t, x)) /\ Len(t) \in Nat /\ Len(Append(t, x)) = Len(t) + 1
           /\ Append(t, x)[Len(t) + 1] = x
           /\ \A i \in 1..Len(t) : Append(t, x)[i] = t[i]
<1>1. PICK S : t \in Seq(S)
  BY DEF IsSeq
<1>. DEFINE T == S \cup {x}
<1>2. t \in Seq(T) /\ x \in T
  BY <1>1, Seqs!SeqMonotonic
<1>. HIDE DEF T
<1>3. Append(t, x) \in Seq(T) /\ Len(t) \in Nat
  BY <1>2
<1>. QED
  BY <1>2, <1>3 DEF IsSeq

(* The decoder before and after each slot: t is what a scan goes through.  *)
Scans(d, view, n, t) ==
    /\ IsSeq(t) /\ Len(t) = n + 1
    /\ t[1] = d
    /\ \A i \in 1..n : t[i + 1] = Advance(t[i], i, view[i])

(* Trace unfolded.                                                         *)
LEMMA TraceScans ==
    ASSUME NEW d, NEW view, Len(view) \in Nat
    PROVE  Scans(d, view, Len(view), Trace(d, view))
<1>. DEFINE n == Len(view)
            G(i, before) == Append(before, Advance(before[i], i, view[i]))
            Eval(i, v) == CHOOSE r \in {G(i, before) : before \in {v}} : TRUE
            Rec(t) == [i \in 0..n |-> IF i = 0 THEN <<d>> ELSE Eval(i, t[i - 1])]
            trace == CHOOSE t : t = Rec(t)
            Over(scanned) ==
                (CHOOSE t : t = [i \in 0..Len(scanned) |->
                    IF i = 0 THEN <<d>>
                    ELSE CHOOSE r \in {Append(before, Advance(before[i], i, scanned[i])) :
                                           before \in {t[i - 1]}} : TRUE])[Len(scanned)]
            Begun(f, m) == f = [i \in 0..m |-> f[i]] /\ f[0] = <<d>> /\ \A i \in 1..m : f[i] = G(i, f[i - 1])
            T == {m \in 0..n : \E f : Begun(f, m)}
<1>1. Trace(d, view) = trace[n]
  <2>1. Trace(d, view) = CHOOSE r \in {Over(scanned) : scanned \in {view}} : TRUE
    BY DEF Trace, Apply
  <2>2. Over(view) = trace[n]
    OBVIOUS
  <2>. HIDE DEF Over, trace
  <2>. DEFINE R == {Over(scanned) : scanned \in {view}}
  <2>3. R = {trace[n]}
    BY <2>2
  <2>4. Trace(d, view) = CHOOSE r \in R : TRUE
    BY <2>1
  <2>. HIDE DEF R
  <2>5. (CHOOSE r \in R : TRUE) \in R
    BY <2>3
  <2>. QED
    BY <2>3, <2>4, <2>5
<1>2. \A i, v : Eval(i, v) = G(i, v)
  <2>. SUFFICES ASSUME NEW i, NEW v PROVE Eval(i, v) = G(i, v)
    OBVIOUS
  <2>. DEFINE R == {G(i, before) : before \in {v}}
  <2>1. R = {G(i, v)}
    OBVIOUS
  <2>2. Eval(i, v) = CHOOSE r \in R : TRUE
    OBVIOUS
  <2>. HIDE DEF R, Eval
  <2>3. (CHOOSE r \in R : TRUE) \in R
    BY <2>1
  <2>. QED
    BY <2>1, <2>2, <2>3
<1>. HIDE DEF Eval, G
<1>3. n \in Nat
  OBVIOUS
<1>. HIDE DEF n
<1>4. \E f : Begun(f, 0)
  <2>. DEFINE f == [i \in 0..0 |-> <<d>>]
  <2>1. Begun(f, 0)
    OBVIOUS
  <2>. QED
    BY <2>1
<1>5. ASSUME NEW m \in 1..n, NEW f, Begun(f, m - 1) PROVE \E g : Begun(g, m)
  <2>. DEFINE g == [i \in 0..m |-> IF i = m THEN G(m, f[m - 1]) ELSE f[i]]
  <2>1. m \in Nat /\ m # 0 /\ 0 \in 0..m
    BY <1>3
  <2>9. f[0] = <<d>> /\ \A i \in 1..(m - 1) : f[i] = G(i, f[i - 1])
    BY <1>5
  <2>2. g[0] = <<d>>
    BY <2>9, <2>1
  <2>3. ASSUME NEW i \in 1..m PROVE g[i] = G(i, g[i - 1])
    <3>1. i - 1 \in 0..m /\ i - 1 # m /\ g[i - 1] = f[i - 1]
      BY <2>1
    <3>2. CASE i = m
      BY <3>1, <3>2, <2>1
    <3>3. CASE i # m
      <4>1. i \in 1..(m - 1)
        BY <3>3, <2>1
      <4>. QED
        BY <4>1, <3>1, <3>3, <2>1, <2>9
    <3>. QED
      BY <3>2, <3>3
  <2>4. Begun(g, m)
    BY <2>2, <2>3
  <2>. QED
    BY <2>4
<1>. HIDE DEF Begun
<1>6. 0 \in T /\ \A m \in 1..n : m - 1 \in T => m \in T
  BY <1>3, <1>4, <1>5
<1>. HIDE DEF T
<1>7. n \in T
  BY <1>3, <1>6, Numbers!IntervalInduction
<1>8. PICK f : Begun(f, n)
  BY <1>7 DEF T
<1>. USE DEF Begun
<1>9. f = Rec(f)
  <2>1. \A i \in 0..n : f[i] = IF i = 0 THEN <<d>> ELSE Eval(i, f[i - 1])
    BY <1>2, <1>3, <1>8
  <2>. QED
    BY <2>1, <1>8
<1>10. trace = Rec(trace)
  BY <1>9
<1>. HIDE DEF trace
<1>11. trace[0] = <<d>> /\ \A i \in 1..n : trace[i] = G(i, trace[i - 1])
  BY <1>2, <1>3, <1>10
<1>. DEFINE U == {m \in 0..n : Scans(d, view, m, trace[m])}
<1>12. 0 \in U
  <2>1. IsSeq(<<d>>) /\ Len(<<d>>) = 1 /\ <<d>>[1] = d
    <3>1. <<d>> \in Seq({d})
      OBVIOUS
    <3>. QED
      BY <3>1 DEF IsSeq
  <2>. QED
    BY <2>1, <1>3, <1>11 DEF Scans
<1>13. ASSUME NEW m \in 1..n, m - 1 \in U PROVE m \in U
  <2>. DEFINE b == trace[m - 1]
              x == Advance(b[m], m, view[m])
  <2>1. IsSeq(b) /\ Len(b) = m /\ b[1] = d /\ \A i \in 1..(m - 1) : b[i + 1] = Advance(b[i], i, view[i])
    BY <1>13, <1>3 DEF Scans
  <2>2. trace[m] = Append(b, x)
    BY <1>11 DEF G
  <2>. HIDE DEF b
  <2>3. /\ IsSeq(Append(b, x)) /\ Len(Append(b, x)) = m + 1
        /\ Append(b, x)[m + 1] = x
        /\ \A i \in 1..m : Append(b, x)[i] = b[i]
    BY <2>1, Appended
  <2>. DEFINE c == Append(b, x)
  <2>. HIDE DEF c
  <2>4. IsSeq(c) /\ Len(c) = m + 1 /\ c[m + 1] = Advance(b[m], m, view[m]) /\ \A i \in 1..m : c[i] = b[i]
    BY <2>3 DEF c
  <2>5. \A i \in 1..m : c[i + 1] = Advance(c[i], i, view[i])
    <3>1. ASSUME NEW i \in 1..m PROVE c[i + 1] = Advance(c[i], i, view[i])
      <4>1. CASE i = m
        BY <4>1, <2>4, <1>3
      <4>2. CASE i # m
        <5>1. i \in 1..(m - 1) /\ i + 1 \in 1..m
          BY <4>2, <1>3
        <5>. QED
          BY <5>1, <2>1, <2>4
      <4>. QED
        BY <4>1, <4>2
    <3>. QED
      BY <3>1
  <2>6. c[1] = d
    BY <2>1, <2>4, <1>3
  <2>7. Scans(d, view, m, c)
    BY <2>4, <2>5, <2>6 DEF Scans
  <2>8. Scans(d, view, m, trace[m])
    BY <2>2, <2>7 DEF c
  <2>. QED
    BY <2>8, <1>3
<1>. HIDE DEF U
<1>14. n \in U
  <2>1. \A m \in 1..n : m - 1 \in U => m \in U
    BY <1>13
  <2>. QED
    BY <2>1, <1>3, <1>12, Numbers!IntervalInduction
<1>. QED
  BY <1>1, <1>14 DEF U, n

-----------------------------------------------------------------------------
(* Slots and decoders.                                                     *)

(* What a slot of each kind has.                                           *)
LEMMA SlotFields ==
    ASSUME NEW s \in Slot
    PROVE  /\ s.tag \in {"end", "pad", "system", "primary", "stream", "name"} /\ s.used \in BOOLEAN
           /\ s.tag = "end" => ~s.used
           /\ s.tag = "primary" => s.secondaries \in Nat /\ s.sum \in Seq(Contents)
           /\ s.tag = "stream" => s.len \in Nat /\ s.stream \in Stream
           /\ s.tag = "name" => s.part \in Parts
<1>. DEFINE C == Contents
            B == BOOLEAN
            Q == Seq(C)
<1>1. /\ s \in C \/ s \in [tag : {"primary"}, used : B, secondaries : Nat, sum : Q]
      /\ <<>> \in Q
  BY DEF Slot
<1>2. s \in C => \/ s \in [tag : {"end"}, used : {FALSE}]
                 \/ s \in [tag : {"pad", "system"}, used : B]
                 \/ s \in [tag : {"primary"}, used : B, secondaries : Nat, sum : {<<>>}]
                 \/ s \in [tag : {"stream"}, used : B, len : Nat, stream : Stream]
                 \/ s \in [tag : {"name"}, used : B, part : Parts]
  BY DEF Contents
<1>. HIDE DEF C, Q
<1>3. CASE s \in [tag : {"end"}, used : {FALSE}]
  BY <1>3
<1>4. CASE s \in [tag : {"pad", "system"}, used : B]
  BY <1>4
<1>5. CASE s \in [tag : {"primary"}, used : B, secondaries : Nat, sum : {<<>>}]
  <2>1. s.sum \in Q
    BY <1>1, <1>5
  <2>. QED
    BY <1>5, <2>1 DEF C, Q
<1>6. CASE s \in [tag : {"stream"}, used : B, len : Nat, stream : Stream]
  BY <1>6
<1>7. CASE s \in [tag : {"name"}, used : B, part : Parts]
  BY <1>7
<1>8. CASE s \in [tag : {"primary"}, used : B, secondaries : Nat, sum : Q]
  BY <1>8 DEF C, Q
<1>. QED
  BY <1>1, <1>2, <1>3, <1>4, <1>5, <1>6, <1>7, <1>8

(* A checksum covers contents.                                             *)
LEMMA ContentType == ASSUME NEW s \in Slot PROVE Content(s) \in Contents
<1>. DEFINE Q == Seq(Contents)
            bare == [tag : {"primary"}, used : BOOLEAN, secondaries : Nat, sum : {<<>>}]
            full == [tag : {"primary"}, used : BOOLEAN, secondaries : Nat, sum : Q]
<1>1. s \in Contents \/ s \in full
  BY DEF Slot
<1>2. bare \subseteq Contents
  BY DEF Contents
<1>3. s \in Contents /\ s.tag = "primary" => s \in bare
  BY DEF Contents
<1>. HIDE DEF Q
<1>4. s \in full \/ s \in bare => [s EXCEPT !.sum = <<>>] \in bare /\ s.tag = "primary"
  OBVIOUS
<1>. HIDE DEF full, bare
<1>. QED
  BY <1>1, <1>2, <1>3, <1>4 DEF Content

(* What a decoder never loses.                                             *)
DecoderOK(d) ==
    /\ d \in DecoderType
    /\ d.seen => d.stream \in Stream
    /\ (d.left # 0 /\ ~d.ignored) \/ d.out = "entry" => Len(d.locs) + d.left >= 3
    /\ d.out = "entry" => d.seen /\ d.left = 0
    /\ \A k \in DOMAIN d.locs : slots[d.locs[k]].tag # "end"

LEMMA FreshOK == DecoderOK(FreshDecoder)
BY DEF DecoderOK, DecoderType, FreshDecoder

(* A slot taken into the set.                                              *)
LEMMA TakenOK ==
    ASSUME slots \in Seq(Slot), NEW d, DecoderOK(d), NEW i \in DOMAIN slots, slots[i].tag # "end",
           d.left # 0, ~d.ignored
    PROVE  /\ Taken(d, i, slots[i]) \in DecoderType
           /\ Taken(d, i, slots[i]).out = "none"
           /\ Taken(d, i, slots[i]).left = d.left - 1
           /\ ~Taken(d, i, slots[i]).ignored
           /\ Taken(d, i, slots[i]).locs = Append(d.locs, i)
           /\ Taken(d, i, slots[i]).sum = Append(d.sum, Content(slots[i]))
           /\ Taken(d, i, slots[i]).seen = d.seen
           /\ Taken(d, i, slots[i]).len = d.len
           /\ Taken(d, i, slots[i]).name = d.name
           /\ Taken(d, i, slots[i]).stream = d.stream
           /\ Taken(d, i, slots[i]).expect = d.expect
<1>. DEFINE s == slots[i]
            D == DOMAIN slots
            C == Contents
            L == Seq(D)
            Q == Seq(C)
            P == Seq(Parts)
            T == Stream \cup {None}
            Type == [left : Nat, ignored : BOOLEAN, seen : BOOLEAN, len : Nat, name : P,
                     stream : T, locs : L, sum : Q, expect : Q,
                     out : {"none", "entry", "corrupt", "end", "absent"}]
            a == Append(d.locs, i)
            b == Append(d.sum, Content(s))
<1>1. Content(s) \in C /\ d \in Type /\ i \in D /\ d.locs \in L /\ d.sum \in Q
  BY ContentType DEF DecoderOK, DecoderType
<1>2. DecoderType = Type
  BY DEF DecoderType
<1>. HIDE DEF D, C
<1>3. a \in L /\ b \in Q /\ d.left - 1 \in Nat
  BY <1>1
<1>4. Taken(d, i, s) = [d EXCEPT !.left = @ - 1, !.locs = a, !.sum = b, !.out = "none"]
  BY DEF Taken
<1>. HIDE DEF L, Q, P, T, a, b, s
<1>5. /\ [d EXCEPT !.left = @ - 1, !.locs = a, !.sum = b, !.out = "none"] \in Type
      /\ ~d.ignored
  BY <1>1, <1>3
<1>6. Taken(d, i, s) \in Type /\ Taken(d, i, s).locs = a /\ Taken(d, i, s).sum = b
  BY <1>1, <1>4, <1>5
<1>7. /\ Taken(d, i, s).out = "none" /\ Taken(d, i, s).left = d.left - 1 /\ ~Taken(d, i, s).ignored
      /\ Taken(d, i, s).seen = d.seen /\ Taken(d, i, s).len = d.len /\ Taken(d, i, s).name = d.name
      /\ Taken(d, i, s).stream = d.stream /\ Taken(d, i, s).expect = d.expect
  BY <1>1, <1>4, <1>5
<1>. QED
  BY <1>2, <1>6, <1>7, Zenon DEF a, b, s

(* The ways a decoder changes.                                             *)
WithOut(d, x) == [d EXCEPT !.out = x]
Skipped(d, x) == [d EXCEPT !.left = @ - 1, !.ignored = x, !.out = "none"]
WithStream(d, n, s) == [d EXCEPT !.seen = TRUE, !.len = n, !.stream = s]
WithName(d, p) == [d EXCEPT !.name = Append(@, p)]
Begun(i, n, x, c) == [FreshDecoder EXCEPT !.left = n, !.expect = x, !.locs = <<i>>, !.sum = <<c>>]

(* The fields of a decoder, edited.                                        *)
LEMMA OutEdited ==
    ASSUME NEW d \in DecoderType, NEW x \in {"none", "entry", "corrupt", "end", "absent"},
           NEW e, e = WithOut(d, x)
    PROVE  /\ e \in DecoderType /\ e.out = x /\ e.left = d.left /\ e.ignored = d.ignored
           /\ e.seen = d.seen /\ e.len = d.len /\ e.name = d.name /\ e.stream = d.stream
           /\ e.locs = d.locs /\ e.sum = d.sum /\ e.expect = d.expect
BY DEF DecoderType, WithOut

LEMMA IgnoredEdited ==
    ASSUME NEW d \in DecoderType, d.left # 0, NEW x \in BOOLEAN,
           NEW e, e = Skipped(d, x)
    PROVE  /\ e \in DecoderType /\ e.out = "none" /\ e.left = d.left - 1 /\ e.ignored = x
           /\ e.seen = d.seen /\ e.stream = d.stream /\ e.locs = d.locs
<1>. DEFINE k == d.left - 1
<1>1. k \in Nat /\ e = [d EXCEPT !.left = k, !.ignored = x, !.out = "none"]
  BY DEF DecoderType, Skipped
<1>. HIDE DEF k
<1>2. e \in DecoderType
  BY <1>1 DEF DecoderType
<1>3. /\ e.out = "none" /\ e.left = k /\ e.ignored = x
      /\ e.seen = d.seen /\ e.stream = d.stream /\ e.locs = d.locs
  BY <1>1 DEF DecoderType
<1>. QED
  BY <1>2, <1>3, Zenon DEF k

LEMMA NameEdited ==
    ASSUME NEW d \in DecoderType, NEW p \in Parts,
           NEW e, e = WithName(d, p)
    PROVE  /\ e \in DecoderType /\ e.out = d.out /\ e.left = d.left /\ e.ignored = d.ignored
           /\ e.seen = d.seen /\ e.len = d.len /\ e.name = Append(d.name, p) /\ e.stream = d.stream
           /\ e.locs = d.locs /\ e.sum = d.sum /\ e.expect = d.expect
<1>. DEFINE P == Parts
            a == Append(d.name, p)
<1>1. d.name \in Seq(P) /\ p \in P
  BY DEF DecoderType
<1>. HIDE DEF P
<1>2. a \in Seq(P) /\ e = [d EXCEPT !.name = a]
  BY <1>1 DEF WithName
<1>. HIDE DEF a
<1>3. e \in DecoderType
  BY <1>2 DEF DecoderType, P
<1>4. /\ e.out = d.out /\ e.left = d.left /\ e.ignored = d.ignored
      /\ e.seen = d.seen /\ e.len = d.len /\ e.name = a /\ e.stream = d.stream
      /\ e.locs = d.locs /\ e.sum = d.sum /\ e.expect = d.expect
  BY <1>2 DEF DecoderType
<1>. QED
  BY <1>3, <1>4, Zenon DEF a

LEMMA BegunDecoder ==
    ASSUME NEW i \in DOMAIN slots, NEW n \in Nat, NEW x \in Seq(Contents), NEW c \in Contents,
           NEW e, e = Begun(i, n, x, c)
    PROVE  /\ e \in DecoderType /\ e.out = "none" /\ e.left = n /\ ~e.ignored /\ ~e.seen
           /\ e.len = 0 /\ e.name = <<>> /\ e.locs = <<i>> /\ e.sum = <<c>> /\ e.expect = x
<1>. DEFINE D == DOMAIN slots
            C == Contents
            a == <<i>>
            b == <<c>>
            L == Seq(D)
            Q == Seq(C)
            P == Seq(Parts)
            T == Stream \cup {None}
            Type == [left : Nat, ignored : BOOLEAN, seen : BOOLEAN, len : Nat, name : P,
                     stream : T, locs : L, sum : Q, expect : Q,
                     out : {"none", "entry", "corrupt", "end", "absent"}]
<1>1. i \in D /\ c \in C /\ x \in Q
  OBVIOUS
<1>. HIDE DEF D, C
<1>2. a \in L /\ b \in Q /\ e = [FreshDecoder EXCEPT !.left = n, !.expect = x, !.locs = a, !.sum = b]
  BY <1>1 DEF Begun
<1>3. FreshDecoder \in Type /\ DecoderType = Type
  BY FreshOK DEF DecoderOK, DecoderType, D, C
<1>. HIDE DEF a, b, L, Q, P, T
<1>4. /\ e.out = "none" /\ e.left = n /\ ~e.ignored /\ ~e.seen
      /\ e.len = 0 /\ e.name = <<>> /\ e.locs = a /\ e.sum = b /\ e.expect = x
  BY <1>2 DEF FreshDecoder
<1>5. e \in DecoderType
  BY <1>1, <1>2, <1>3
<1>. QED
  BY <1>4, <1>5, Zenon DEF a, b

(* What a scan returns, changed.                                           *)
LEMMA OutOK ==
    ASSUME NEW d, DecoderOK(d), NEW x \in {"none", "corrupt", "end", "absent"}
    PROVE  DecoderOK([d EXCEPT !.out = x])
<1>1. PICK e : e = WithOut(d, x)
  OBVIOUS
<1>2. d \in DecoderType
  BY DEF DecoderOK
<1>3. /\ e \in DecoderType /\ e.out = x /\ e.left = d.left /\ e.ignored = d.ignored
      /\ e.seen = d.seen /\ e.stream = d.stream /\ e.locs = d.locs
  BY <1>1, <1>2, OutEdited
<1>4. DecoderOK(e)
  BY <1>3 DEF DecoderOK
<1>. QED
  BY <1>1, <1>4 DEF WithOut

(* A set completed or refused.                                             *)
LEMMA CompleteOK ==
    ASSUME NEW d, DecoderOK(d), d.out = "none", d.seen, Len(d.locs) + d.left >= 3
    PROVE  DecoderOK(Complete(d))
<1>9. PICK x \in {"none", "entry", "corrupt", "end", "absent"} : x = "entry"
  OBVIOUS
<1>1. PICK e : e = WithOut(d, x)
  OBVIOUS
<1>2. d \in DecoderType
  BY DEF DecoderOK
<1>3. /\ e \in DecoderType /\ e.out = x /\ e.left = d.left /\ e.ignored = d.ignored
      /\ e.seen = d.seen /\ e.stream = d.stream /\ e.locs = d.locs
  BY ONLY x \in {"none", "entry", "corrupt", "end", "absent"}, <1>1, <1>2, OutEdited
<1>4. d.left = 0 => DecoderOK(e)
  BY <1>9, <1>3 DEF DecoderOK
<1>5. DecoderOK([d EXCEPT !.out = "corrupt"])
  BY OutOK
<1>. QED
  BY <1>9, <1>1, <1>4, <1>5 DEF Complete, WithOut

(* A slot that makes the decoder ignore the rest of the set, or is ignored. *)
LEMMA IgnoredOK ==
    ASSUME NEW d, DecoderOK(d), d.left # 0, NEW x \in BOOLEAN, x \/ d.left = 1,
           NEW e, e = Skipped(d, x)
    PROVE  DecoderOK(e)
<1>1. d \in DecoderType
  BY DEF DecoderOK
<1>2. /\ e \in DecoderType /\ e.out = "none" /\ e.left = d.left - 1 /\ e.ignored = x
      /\ e.seen = d.seen /\ e.stream = d.stream /\ e.locs = d.locs
  BY <1>1, IgnoredEdited
<1>. QED
  BY <1>2 DEF DecoderOK

(* A slot pushed into a decoder leaves it fit for the next one.            *)
LEMMA PushOK ==
    ASSUME slots \in Seq(Slot), NEW d, DecoderOK(d), NEW i \in DOMAIN slots, slots[i].tag # "end"
    PROVE  DecoderOK(Push(d, i, slots[i]))
<1>1. PICK s : s = slots[i]
  OBVIOUS
<1>2. d \in DecoderType /\ s \in Slot /\ d.left \in Nat
  BY <1>1 DEF DecoderOK, DecoderType
<1>3. CASE s.tag = "primary" /\ s.used
  <2>1. CASE d.left # 0 \/ s.secondaries < 2
    BY <1>1, <1>3, <2>1, OutOK DEF Push
  <2>2. CASE ~(d.left # 0 \/ s.secondaries < 2)
    <3>1. s.secondaries \in Nat /\ s.sum \in Seq(Contents) /\ Content(s) \in Contents /\ s.secondaries >= 2
      BY <1>2, <1>3, <2>2, SlotFields, ContentType
    <3>2. PICK e : e = Begun(i, s.secondaries, s.sum, Content(s))
      OBVIOUS
    <3>3. e \in DecoderType /\ e.out = "none" /\ e.left = s.secondaries /\ ~e.ignored /\ ~e.seen /\ e.locs = <<i>>
      BY <3>1, <3>2, BegunDecoder
    <3>4. Push(d, i, s) = e
      BY <1>3, <2>2, <3>2 DEF Push, Begun
    <3>5. Len(e.locs) = 1 /\ DOMAIN e.locs = {1} /\ e.locs[1] = i
      BY <3>3
    <3>6. DecoderOK(e)
      BY <1>1, <3>1, <3>3, <3>5 DEF DecoderOK
    <3>. QED
      BY <1>1, <3>4, <3>6
  <2>. QED
    BY <2>1, <2>2
<1>4. CASE ~(s.tag = "primary" /\ s.used) /\ d.left = 0
  BY <1>1, <1>4, OutOK DEF Push
<1>5. CASE ~(s.tag = "primary" /\ s.used) /\ d.left # 0 /\ d.ignored
  <2>1. PICK e : e = Skipped(d, d.left # 1)
    OBVIOUS
  <2>2. Push(d, i, s) = e
    BY <1>5, <2>1 DEF Push, Skipped
  <2>3. DecoderOK(e)
    BY <1>5, <2>1, IgnoredOK
  <2>. QED
    BY <1>1, <2>2, <2>3
<1>6. CASE ~(s.tag = "primary" /\ s.used) /\ d.left # 0 /\ ~d.ignored
  <2>1. PICK t : t = Taken(d, i, s)
    OBVIOUS
  <2>2. /\ t \in DecoderType /\ t.out = "none" /\ t.left = d.left - 1 /\ ~t.ignored
        /\ t.locs = Append(d.locs, i) /\ t.seen = d.seen /\ t.stream = d.stream
    BY <1>1, <1>6, <2>1, TakenOK
  <2>3. Len(t.locs) + t.left >= 3 /\ \A k \in DOMAIN t.locs : slots[t.locs[k]].tag # "end"
    <3>. DEFINE D == DOMAIN slots
    <3>1. PICK l : l = d.locs
      OBVIOUS
    <3>2. l \in Seq(D) /\ i \in D /\ Len(l) + d.left >= 3 /\ \A k \in DOMAIN l : slots[l[k]].tag # "end"
      BY <1>6, <3>1 DEF DecoderOK, DecoderType
    <3>. HIDE DEF D
    <3>3. Len(Append(l, i)) = Len(l) + 1 /\ Len(l) \in Nat
      BY <3>2
    <3>4. \A k \in DOMAIN Append(l, i) : (k \in DOMAIN l /\ Append(l, i)[k] = l[k]) \/ Append(l, i)[k] = i
      BY <3>2
    <3>5. \A k \in DOMAIN Append(l, i) : slots[Append(l, i)[k]].tag # "end"
      BY <3>2, <3>4
    <3>6. t.locs = Append(l, i)
      BY <2>2, <3>1
    <3>. QED
      BY <1>2, <2>2, <3>2, <3>3, <3>5, <3>6
  <2>4. CASE s.tag = "stream" /\ s.used /\ ~d.seen /\ Len(d.locs) = 1
    <3>1. s.len \in Nat /\ s.stream \in Stream
      BY <1>2, <2>4, SlotFields
    <3>9. PICK n \in Nat, x \in Stream : n = s.len /\ x = s.stream
      BY <3>1
    <3>8. t \in DecoderType
      BY <2>2
    <3>2. PICK e : e = WithStream(t, n, x)
      OBVIOUS
    <3>3. /\ e \in DecoderType /\ e.out = t.out /\ e.left = t.left /\ e.ignored = t.ignored
          /\ e.seen /\ e.stream = x /\ e.locs = t.locs
      BY ONLY n \in Nat, x \in Stream, <3>8, <3>2 DEF DecoderType, WithStream
    <3>4. Push(d, i, s) = Complete(e)
      BY <1>6, <2>1, <2>4, <3>9, <3>2 DEF Push, WithStream
    <3>5. DecoderOK(e)
      BY <2>2, <2>3, <3>3 DEF DecoderOK
    <3>. QED
      BY <1>1, <2>2, <2>3, <3>3, <3>4, <3>5, CompleteOK
  <2>5. CASE s.tag = "name" /\ s.used /\ d.seen /\ Len(d.name) * UnitsPerEntry < d.len
    <3>1. s.part \in Parts
      BY <1>2, <2>5, SlotFields
    <3>2. PICK e : e = WithName(t, s.part)
      OBVIOUS
    <3>3. /\ e \in DecoderType /\ e.out = t.out /\ e.left = t.left /\ e.ignored = t.ignored
          /\ e.seen = t.seen /\ e.stream = t.stream /\ e.locs = t.locs
      BY <2>2, <3>1, <3>2, NameEdited
    <3>4. Push(d, i, s) = Complete(e)
      BY <1>6, <2>1, <2>5, <3>2 DEF Push, WithName
    <3>5. DecoderOK(e) /\ e.seen
      BY <2>2, <2>3, <2>5, <3>3 DEF DecoderOK
    <3>. QED
      BY <1>1, <2>2, <2>3, <3>3, <3>4, <3>5, CompleteOK
  <2>6. CASE /\ ~(s.tag = "stream" /\ s.used /\ ~d.seen /\ Len(d.locs) = 1)
             /\ ~(s.tag = "name" /\ s.used /\ d.seen /\ Len(d.name) * UnitsPerEntry < d.len)
    <3>1. PICK e : e = Skipped(d, TRUE)
      OBVIOUS
    <3>2. Push(d, i, s) = e
      BY <1>6, <2>6, <3>1 DEF Push, Skipped
    <3>3. DecoderOK(e)
      BY <1>6, <3>1, IgnoredOK
    <3>. QED
      BY <1>1, <3>2, <3>3
  <2>. QED
    BY <2>4, <2>5, <2>6
<1>. QED
  BY <1>3, <1>4, <1>5, <1>6

LEMMA AdvanceOK ==
    ASSUME slots \in Seq(Slot), NEW d, DecoderOK(d), NEW i \in DOMAIN slots
    PROVE  DecoderOK(Advance(d, i, slots[i]))
BY OutOK, PushOK DEF Advance
-----------------------------------------------------------------------------
(* Scans that end.                                                         *)

(* What a scan looks at is the chain, or a part of it from the front.      *)
ViewOK(view) ==
    /\ Len(view) \in Nat /\ Len(view) <= Len(slots) /\ DOMAIN view = 1..Len(view)
    /\ \A i \in 1..Len(view) : view[i] = slots[i]

LEMMA TraceOK ==
    ASSUME slots \in Seq(Slot), NEW d, DecoderOK(d), NEW view, ViewOK(view), NEW t, t = Trace(d, view)
    PROVE  /\ IsSeq(t) /\ Len(t) = Len(view) + 1 /\ \A i \in 1..Len(t) : DecoderOK(t[i])
<1>. DEFINE n == Len(view)
            T == {m \in 0..n : DecoderOK(t[m + 1])}
<1>1. n \in Nat /\ n <= Len(slots) /\ DOMAIN slots = 1..Len(slots) /\ Len(slots) \in Nat
  BY DEF ViewOK
<1>2. /\ IsSeq(t) /\ Len(t) = n + 1 /\ t[1] = d
      /\ \A i \in 1..n : t[i + 1] = Advance(t[i], i, view[i])
  BY <1>1, TraceScans DEF Scans
<1>3. 0 \in T
  BY <1>1, <1>2
<1>4. ASSUME NEW m \in 1..n, m - 1 \in T PROVE m \in T
  <2>1. DecoderOK(t[m]) /\ m \in DOMAIN slots /\ view[m] = slots[m]
    BY <1>1, <1>4 DEF ViewOK
  <2>2. t[m + 1] = Advance(t[m], m, slots[m])
    BY <1>2, <2>1
  <2>3. DecoderOK(t[m + 1])
    BY <2>1, <2>2, AdvanceOK
  <2>. QED
    BY <1>1, <2>3
<1>. HIDE DEF T, n
<1>5. \A m \in 0..n : m \in T
  BY <1>1, <1>3, <1>4, Numbers!IntervalInduction
<1>6. ASSUME NEW i \in 1..(n + 1) PROVE DecoderOK(t[i])
  <2>1. i - 1 \in 0..n /\ (i - 1) + 1 = i
    BY <1>1
  <2>2. DecoderOK(t[(i - 1) + 1])
    BY <1>5, <2>1 DEF T
  <2>. QED
    BY <2>1, <2>2
<1>. QED
  BY <1>2, <1>6 DEF n

(* What a lookup answers.                                                  *)
LEMMA ScanOK ==
    ASSUME slots \in Seq(Slot), NEW d, DecoderOK(d), NEW view, ViewOK(view), NEW n
    PROVE  DecoderOK(ScanFor(d, view, n))
<1>1. PICK t : t = Trace(d, view)
  OBVIOUS
<1>2. IsSeq(t) /\ Len(t) \in Nat \ {0} /\ \A i \in 1..Len(t) : DecoderOK(t[i])
  BY <1>1, TraceOK DEF ViewOK
<1>3. DOMAIN t = 1..Len(t)
  BY <1>2 DEF IsSeq
<1>. DEFINE hits == {i \in DOMAIN t : t[i].out = "entry" /\ IsNamed(t[i], n)}
            last == t[Len(t)]
<1>4. ASSUME hits # {} PROVE DecoderOK(t[Least(hits)])
  <2>1. hits \subseteq 1..Len(t) /\ hits \subseteq Nat
    BY <1>2, <1>3
  <2>. HIDE DEF hits
  <2>2. \E x \in hits : \A y \in hits : x <= y
    BY <1>4, <2>1, Numbers!LeastNumber
  <2>3. Least(hits) \in hits
    BY <2>2 DEF Least
  <2>. QED
    BY <1>2, <2>1, <2>3
<1>5. DecoderOK(last)
  BY <1>2
<1>. HIDE DEF last
<1>6. DecoderOK([last EXCEPT !.out = "corrupt"]) /\ DecoderOK([last EXCEPT !.out = "absent"])
  BY <1>5, OutOK
<1>7. ScanFor(d, view, n) = IF hits # {} THEN t[Least(hits)]
                            ELSE [last EXCEPT !.out = IF last.out = "corrupt" THEN last.out ELSE "absent"]
  BY <1>1 DEF ScanFor, last
<1>. HIDE DEF hits
<1>8. last.out = "corrupt" \/ last.out # "corrupt"
  OBVIOUS
<1>. QED
  BY <1>4, <1>6, <1>7, <1>8

(* The chain, as long as the record says at least.                         *)
ChainOK ==
    /\ slots \in Seq(Slot) /\ Len(slots) >= SlotsPerCluster
    /\ length \in Nat
    /\ Kind # "root" => length * SlotsPerCluster <= Len(slots)

LEMMA PrefixOK ==
    ASSUME slots \in Seq(Slot), NEW n \in Nat, n <= Len(slots)
    PROVE  ViewOK(SubSeq(slots, 1, n)) /\ Len(SubSeq(slots, 1, n)) = n
BY DEF ViewOK

LEMMA ClustersOK ==
    ASSUME ChainOK, NEW n \in Nat, n * SlotsPerCluster <= Len(slots)
    PROVE  ViewOK(Clusters(n)) /\ Len(Clusters(n)) = n * SlotsPerCluster
<1>. DEFINE m == n * SlotsPerCluster
<1>1. m \in Nat
  BY Parameters
<1>2. slots \in Seq(Slot) /\ m <= Len(slots)
  BY DEF ChainOK
<1>. HIDE DEF m
<1>3. ViewOK(SubSeq(slots, 1, m)) /\ Len(SubSeq(slots, 1, m)) = m
  BY <1>1, <1>2, PrefixOK
<1>. QED
  BY <1>3 DEF m, Clusters

LEMMA ViewsOK ==
    ASSUME ChainOK
    PROVE  ViewOK(LookupSlots) /\ ViewOK(ListSlots)
<1>1. ViewOK(slots)
  BY DEF ViewOK, ChainOK
<1>2. ViewOK(Clusters(1))
  BY Parameters, ClustersOK DEF ChainOK
<1>3. Kind # "root" => ViewOK(Clusters(length))
  BY ClustersOK DEF ChainOK
<1>4. Kind \in {"root", "chained", "contiguous"}
  BY DirectoryAssumption
<1>. QED
  BY <1>1, <1>2, <1>3, <1>4 DEF LookupSlots, ListSlots

LEMMA LookupOK ==
    ASSUME ChainOK, NEW d, DecoderOK(d), NEW n
    PROVE  DecoderOK(Lookup(d, n))
<1>1. DecoderOK(ScanFor(d, LookupSlots, n))
  BY ViewsOK, ScanOK DEF ChainOK
<1>2. DecoderOK([d EXCEPT !.out = "corrupt"])
  BY OutOK
<1>. QED
  BY <1>1, <1>2 DEF Lookup

LEMMA LeftOK ==
    ASSUME NEW d, DecoderOK(d)
    PROVE  DecoderOK(Left(d))
<1>1. DecoderOK([d EXCEPT !.out = "none"])
  BY OutOK
<1>. QED
  BY <1>1, FreshOK DEF Left

-----------------------------------------------------------------------------
(* Slots, edited one at a time.                                            *)

(* A slot is what it was but for its in-use bit, its checksum, its length  *)
(* or its stream.                                                          *)
Unused(s) == [s EXCEPT !.used = FALSE]
WithSum(s, q) == [s EXCEPT !.sum = q]
WithLen(s, n) == [s EXCEPT !.len = n]
WithData(s, x) == [s EXCEPT !.stream = x]

LEMMA SlotEdited ==
    ASSUME NEW s \in Slot
    PROVE  /\ Unused(s) \in Slot /\ Unused(s).tag = s.tag
           /\ \A q \in Seq(Contents) : WithSum(s, q) \in Slot /\ WithSum(s, q).tag = s.tag
           /\ \A n \in Nat : WithLen(s, n) \in Slot /\ WithLen(s, n).tag = s.tag
           /\ \A x \in Stream : WithData(s, x) \in Slot /\ WithData(s, x).tag = s.tag
<1>. DEFINE C == Contents
            B == BOOLEAN
            Q == Seq(C)
            S1 == [tag : {"end"}, used : {FALSE}]
            S2 == [tag : {"pad", "system"}, used : B]
            S3 == [tag : {"primary"}, used : B, secondaries : Nat, sum : {<<>>}]
            S4 == [tag : {"stream"}, used : B, len : Nat, stream : Stream]
            S5 == [tag : {"name"}, used : B, part : Parts]
            S6 == [tag : {"primary"}, used : B, secondaries : Nat, sum : Q]
            Kept(r) == r \in Slot /\ r.tag = s.tag
            Goal == /\ Kept([s EXCEPT !.used = FALSE])
                    /\ \A q \in Q : Kept([s EXCEPT !.sum = q])
                    /\ \A n \in Nat : Kept([s EXCEPT !.len = n])
                    /\ \A x \in Stream : Kept([s EXCEPT !.stream = x])
<1>1. s \in C \/ s \in S6
  BY DEF Slot
<1>2. C = S1 \cup S2 \cup S3 \cup S4 \cup S5
  BY DEF Contents
<1>3. Slot = C \cup S6 /\ <<>> \in Q
  BY DEF Slot
<1>. HIDE DEF C, Q
<1>4. ASSUME s \in S1 PROVE Goal
  BY <1>2, <1>3, <1>4
<1>5. ASSUME s \in S2 PROVE Goal
  BY <1>2, <1>3, <1>5
<1>6. ASSUME s \in S3 PROVE Goal
  BY <1>2, <1>3, <1>6
<1>7. ASSUME s \in S4 PROVE Goal
  BY <1>2, <1>3, <1>7
<1>8. ASSUME s \in S5 PROVE Goal
  BY <1>2, <1>3, <1>8
<1>9. ASSUME s \in S6 PROVE Goal
  BY <1>2, <1>3, <1>9
<1>. HIDE DEF S1, S2, S3, S4, S5, S6, Goal
<1>10. Goal
  BY <1>1, <1>2, <1>4, <1>5, <1>6, <1>7, <1>8, <1>9
<1>. QED
  BY <1>10 DEF Goal, Q, C, Unused, WithSum, WithLen, WithData

(* Slots that are there.                                                   *)
Present(l) == \A k \in DOMAIN l : slots[l[k]].tag # "end"

(* A step that shortens no chain and makes no slot an end marker.          *)
SlotsKept ==
    /\ slots \in Seq(Slot) /\ slots' \in Seq(Slot)
    /\ Len(slots) <= Len(slots')
    /\ \A i \in DOMAIN slots : slots[i].tag # "end" => slots'[i].tag # "end"

LEMMA SameKept == slots \in Seq(Slot) /\ slots' = slots => SlotsKept
BY DEF SlotsKept

LEMMA EditKept ==
    ASSUME slots \in Seq(Slot), NEW i \in DOMAIN slots, NEW s \in Slot, slots[i].tag # "end" => s.tag # "end",
           slots' = [slots EXCEPT ![i] = s]
    PROVE  /\ SlotsKept /\ Len(slots') = Len(slots)
           /\ slots'[i] = s /\ \A j \in DOMAIN slots : j # i => slots'[j] = slots[j]
<1>. DEFINE S == Slot
<1>1. slots \in Seq(S) /\ s \in S
  OBVIOUS
<1>. HIDE DEF S
<1>2. /\ slots' \in Seq(S) /\ Len(slots') = Len(slots) /\ slots'[i] = s
      /\ \A j \in DOMAIN slots : j # i => slots'[j] = slots[j]
  BY <1>1
<1>3. \A j \in DOMAIN slots : slots[j].tag # "end" => slots'[j].tag # "end"
  BY <1>2
<1>. QED
  BY <1>1, <1>2, <1>3 DEF SlotsKept, S

(* What such a step leaves as it was.                                      *)
LEMMA Keeping ==
    ASSUME SlotsKept
    PROVE  /\ Seq(DOMAIN slots) \subseteq Seq(DOMAIN slots)'
           /\ Locators \subseteq Locators' /\ DecoderType \subseteq DecoderType' /\ OpType \subseteq OpType'
           /\ \A d : DecoderOK(d) => DecoderOK(d)'
           /\ \A l \in Seq(DOMAIN slots) : Present(l) => Present(l)'
<1>. DEFINE D == DOMAIN slots
            E == DOMAIN slots'
<1>1. D \subseteq E
  BY DEF SlotsKept
<1>2. Seq(D) \subseteq Seq(E)
  <2>. HIDE DEF D, E
  <2>. QED
    BY <1>1, Seqs!SeqMonotonic
<1>. HIDE DEF D, E
<1>3. Locators \subseteq Locators'
  BY <1>2 DEF Locators, D, E
<1>4. DecoderType \subseteq DecoderType'
  <2>. DEFINE L == Seq(D)
              M == Seq(E)
              P == Seq(Parts)
              Q == Seq(Contents)
              T == Stream \cup {None}
              Type(X) ==
                  [left : Nat, ignored : BOOLEAN, seen : BOOLEAN, len : Nat, name : P,
                   stream : T, locs : X, sum : Q, expect : Q,
                   out : {"none", "entry", "corrupt", "end", "absent"}]
  <2>1. DecoderType = Type(L) /\ DecoderType' = Type(M)
    BY DEF DecoderType, D, E
  <2>. HIDE DEF L, M, P, Q, T
  <2>2. L \subseteq M
    BY <1>2 DEF L, M
  <2>3. Type(L) \subseteq Type(M)
    BY <2>2
  <2>. QED
    BY <2>1, <2>3
<1>5. OpType \subseteq OpType'
  <2>. DEFINE Q == Seq(Slot)
  <2>. HIDE DEF Q
  <2>. QED
    BY <1>3 DEF OpType, Q
<1>6. ASSUME NEW l \in Seq(D), Present(l) PROVE Present(l)'
  <2>1. \A k \in DOMAIN l : l[k] \in D
    OBVIOUS
  <2>. QED
    BY <2>1, <1>6 DEF Present, SlotsKept, D
<1>7. ASSUME NEW d, DecoderOK(d) PROVE DecoderOK(d)'
  <2>1. d \in DecoderType /\ d.locs \in Seq(D) /\ Present(d.locs)
    BY <1>7 DEF DecoderOK, DecoderType, Present, D
  <2>2. d \in DecoderType' /\ Present(d.locs)'
    BY <2>1, <1>4, <1>6
  <2>. QED
    BY <1>7, <2>2 DEF DecoderOK, Present
<1>. QED
  BY <1>2, <1>3, <1>4, <1>5, <1>6, <1>7 DEF D, E

-----------------------------------------------------------------------------
(* Room for a new set.                                                     *)

(* The free slots a view ends with.                                        *)
LEMMA TailOK ==
    ASSUME NEW view, ViewOK(view), slots \in Seq(Slot)
    PROVE  /\ TailRun(view) \in 0..Len(view)
           /\ \A j \in (Len(view) - TailRun(view) + 1)..Len(view) : ~view[j].used
           /\ TailRun(view) < Len(view) => view[Len(view) - TailRun(view)].used
<1>. DEFINE n == Len(view)
            Last(i) == view[i].used /\ \A j \in (i + 1)..n : ~view[j].used
            T == {m \in 0..(n - 1) : view[n - m].used}
<1>1. n \in Nat /\ DOMAIN view = 1..n
  BY DEF ViewOK
<1>2. CASE \A i \in DOMAIN view : ~view[i].used
  BY <1>1, <1>2 DEF TailRun
<1>3. CASE ~ \A i \in DOMAIN view : ~view[i].used
  <2>1. PICK i \in 1..n : view[i].used
    BY <1>3
  <2>2. n - i \in T /\ T \subseteq Nat
    BY <1>1, <2>1
  <2>3. PICK m \in T : \A y \in T : m <= y
    <3>. HIDE DEF T
    <3>. QED
      BY <2>2, Numbers!LeastNumber
  <2>4. n - m \in 1..n /\ Last(n - m)
    <3>1. ASSUME NEW j \in (n - m + 1)..n, view[j].used PROVE FALSE
      <4>1. n - j \in T /\ n - j < m
        BY <1>1, <2>3, <3>1
      <4>2. m \in Nat /\ n - j \in Nat
        BY <2>3, <4>1
      <4>. HIDE DEF T
      <4>3. m <= n - j
        BY <2>3, <4>1
      <4>. HIDE DEF n
      <4>. QED
        BY <4>1, <4>2, <4>3
    <3>. QED
      BY <1>1, <2>3, <3>1
  <2>5. PICK k : k = CHOOSE x \in DOMAIN view : Last(x)
    OBVIOUS
  <2>6. k \in 1..n /\ Last(k)
    BY <1>1, <2>4, <2>5
  <2>7. TailRun(view) = n - k
    BY <1>3, <2>5 DEF TailRun
  <2>. QED
    BY <1>1, <2>6, <2>7
<1>. QED
  BY <1>2, <1>3

(* The first run of free slots of the wanted size.                         *)
LEMMA FirstFree ==
    ASSUME NEW view, FreeStarts(view) # {}, NEW first, first = Least(FreeStarts(view))
    PROVE  first \in FreeStarts(view) /\ \A i \in FreeStarts(view) : first <= i
<1>1. FreeStarts(view) \subseteq Nat
  BY DEF FreeStarts
<1>2. \E x \in FreeStarts(view) : \A y \in FreeStarts(view) : x <= y
  BY <1>1, Numbers!LeastNumber
<1>. QED
  BY <1>2 DEF Least

(* A set is written to consecutive slots.                                  *)
LEMMA WritingOK ==
    ASSUME slots \in Seq(Slot), op \in OpType, op.name \in Names,
           NEW first \in Nat \ {0}, first + Wanted - 1 <= Len(slots), NEW o, o = StartWriting(first)
    PROVE  /\ o \in OpType /\ o.pc = "write" /\ o.i = 1 /\ o.name = op.name /\ o.kind = op.kind
           /\ o.old = op.old /\ o.stream = op.stream /\ o.before = op.before
           /\ Wanted \in Nat \ {0, 1, 2} /\ Len(o.locs) = Wanted /\ DOMAIN o.locs = 1..Wanted
           /\ \A k \in 1..Wanted : o.locs[k] = first + k - 1
<1>. DEFINE w == Wanted
            l == [k \in 1..w |-> first + k - 1]
            D == DOMAIN slots
<1>1. w \in Nat \ {0, 1, 2}
  BY Parameters DEF Wanted
<1>2. D = 1..Len(slots) /\ Len(slots) \in Nat /\ first + w - 1 <= Len(slots)
  OBVIOUS
<1>. HIDE DEF w, D
<1>3. \A k \in 1..w : first + k - 1 \in D
  BY <1>1, <1>2
<1>4. l \in Seq(D) /\ Len(l) = w /\ DOMAIN l = 1..w
  BY <1>1, <1>3
<1>5. o = [op EXCEPT !.pc = "write", !.i = 1, !.run = 0, !.locs = l]
  BY DEF StartWriting, w
<1>6. l \in Locators
  BY <1>1, <1>4 DEF Locators, D
<1>7. \A k \in 1..w : l[k] = first + k - 1
  OBVIOUS
<1>. HIDE DEF l
<1>8. /\ o \in OpType /\ o.pc = "write" /\ o.i = 1 /\ o.name = op.name /\ o.kind = op.kind
      /\ o.old = op.old /\ o.stream = op.stream /\ o.before = op.before /\ o.locs = l
  BY ONLY op \in OpType, <1>5, <1>6 DEF OpType
<1>. QED
  BY <1>1, <1>4, <1>7, <1>8 DEF w

-----------------------------------------------------------------------------
(* Type correctness.                                                       *)

(* The inductive invariant, in parts: the device, *)
DeviceOK ==
    /\ slots \in Seq(Slot) /\ Len(slots) % SlotsPerCluster = 0 /\ Len(slots) >= SlotsPerCluster
    /\ length \in Nat /\ sealedLength \in Nat
    /\ Kind # "root" => length * SlotsPerCluster <= Len(slots) /\ sealedLength <= length

(* the handles, whose slots were in use, so that none becomes an end       *)
(* marker again,                                                           *)
HandlesOK == handle \in [Names -> Locators] /\ \A n \in Names : Present(handle[n])

(* the room that a search has found or growth has made for a set,          *)
RoomOK ==
    /\ At("link") => op.run <= Len(slots)
    /\ op.pc \in {"pad", "length", "sealLength"} => op.run <= OldEnd /\ Len(slots) >= 2 * SlotsPerCluster
    /\ At("link") /\ Kind # "root" => Len(slots) = length * SlotsPerCluster
    /\ op.pc \in {"pad", "length"} /\ Kind # "root" => Len(slots) = length * SlotsPerCluster + SlotsPerCluster

(* and the operation, which has a slot to work on.                         *)
OpOK ==
    /\ op \in OpType /\ Present(op.old)
    /\ op.pc # "idle" => op.name \in Names
    /\ At("write") => /\ op.i \in DOMAIN op.locs /\ Len(op.locs) = Wanted
                      /\ \A k \in 1..(op.i - 1) : slots[op.locs[k]].tag # "end"
    /\ At("seal") => op.locs # <<>> /\ Present(op.locs)
    /\ At("retire") => op.i \in DOMAIN op.old
    /\ At("rename") => op.i + 2 \in DOMAIN op.old
    /\ op.pc \in {"restream", "stream", "reseal"} \/ op.kind = "rename" => op.old # <<>>
    /\ RoomOK

TypeInv == DeviceOK /\ DecoderOK(decoder) /\ HandlesOK /\ OpOK

LEMMA TypeInvImplies == TypeInv => TypeOK /\ ChainOK
BY DEF TypeInv, DeviceOK, HandlesOK, OpOK, DecoderOK, TypeOK, ChainOK

(* Whole clusters, one more.                                               *)
LEMMA OneMore ==
    ASSUME NEW a \in Nat, NEW b \in Nat \ {0}
    PROVE  /\ a % b = 0 => (a + b) % b = 0
           /\ a % b = 0 /\ a # 0 => a >= b
<1>. DEFINE q == a \div b
            r == a % b
            p == a + b
<1>1. a = b * q + r /\ q \in Nat /\ r \in Nat
  OBVIOUS
<1>. HIDE DEF q, r
<1>2. PICK x \in Nat : x = q + 1
  BY <1>1
<1>3. PICK e \in 0..(b - 1) : e = 0
  OBVIOUS
<1>4. r = 0 => p = b * x + e
  BY <1>1, <1>2, <1>3
<1>5. p \in Nat
  OBVIOUS
<1>. HIDE DEF p
<1>6. ASSUME r = 0 PROVE p % b = 0
  <2>1. p = b * x + e
    BY <1>4, <1>6
  <2>2. b \in Nat \ {0}
    OBVIOUS
  <2>3. p \div b = x /\ p % b = e
    BY ONLY <1>5, <2>1, <2>2, x \in Nat, e \in 0..(b - 1)
  <2>. QED
    BY <1>3, <2>3
<1>7. a < b => r = a
  BY DEF r
<1>. QED
  BY <1>6, <1>7 DEF r, p

LEMMA IdleOK == Idle \in OpType /\ Idle.pc = "idle" /\ Idle.kind = "none" /\ Idle.old = <<>> /\ Idle.locs = <<>>
BY DirectoryAssumption, ContentsAssumption DEF Idle, OpType, Locators

LEMMA TypeInit == Init => TypeInv
<1>. SUFFICES ASSUME Init PROVE TypeInv
  OBVIOUS
<1>. DEFINE n == Len(InitialSlots)
<1>1. slots \in Seq(Slot) /\ slots # <<>> /\ n = Len(slots) /\ n \in Nat /\ n # 0
  BY ContentsAssumption DEF Init
<1>2. SlotsPerCluster \in Nat \ {0} /\ n % SlotsPerCluster = 0
  BY Parameters, DirectoryAssumption DEF SlotsPerCluster
<1>. HIDE DEF n
<1>3. /\ n >= SlotsPerCluster /\ n \div SlotsPerCluster \in Nat
      /\ (n \div SlotsPerCluster) * SlotsPerCluster <= n
  BY <1>1, <1>2
<1>4. /\ length \in Nat /\ sealedLength = length /\ length * SlotsPerCluster <= Len(slots)
      /\ Len(slots) % SlotsPerCluster = 0 /\ Len(slots) >= SlotsPerCluster
  BY <1>1, <1>2, <1>3 DEF Init, n
<1>5. <<>> \in Locators /\ handle \in [Names -> Locators] /\ \A x \in Names : handle[x] = <<>>
  BY DEF Init, Locators
<1>6. op = Idle /\ decoder = FreshDecoder
  BY DEF Init
<1>7. decoder \in DecoderType /\ DecoderOK(decoder)
  BY <1>6, FreshOK DEF DecoderOK
<1>8. DeviceOK /\ HandlesOK
  BY <1>1, <1>4, <1>5 DEF DeviceOK, HandlesOK, Present
<1>9. OpOK
  BY <1>6, IdleOK DEF OpOK, RoomOK, At, Present
<1>. QED
  BY <1>7, <1>8, <1>9 DEF TypeInv

(* Nothing is written.                                                     *)
LEMMA DeviceKept ==
    ASSUME DeviceOK, UNCHANGED device
    PROVE  /\ DeviceOK' /\ SlotsKept
           /\ slots' = slots /\ length' = length /\ sealedLength' = sealedLength
BY SameKept DEF DeviceOK, device

LEMMA DecoderKept ==
    ASSUME SlotsKept, DecoderOK(decoder), decoder' = decoder
    PROVE  DecoderOK(decoder)'
BY Keeping

LEMMA HandlesKept ==
    ASSUME SlotsKept, HandlesOK, handle' = handle
    PROVE  HandlesOK'
<1>1. Locators \subseteq Locators' /\ \A l \in Seq(DOMAIN slots) : Present(l) => Present(l)'
  BY Keeping
<1>2. \A n \in Names : handle[n] \in Locators /\ handle[n] \in Seq(DOMAIN slots)
  BY DEF HandlesOK, Locators
<1>3. handle' \in [Names -> Locators']
  BY <1>1 DEF HandlesOK
<1>4. \A n \in Names : Present(handle[n])'
  BY <1>1, <1>2 DEF HandlesOK
<1>. QED
  BY <1>3, <1>4 DEF HandlesOK

LEMMA LeaveOK ==
    ASSUME slots \in Seq(Slot), slots' = slots, DecoderOK(decoder), NEW d, DecoderOK(d), Leave(d)
    PROVE  DecoderOK(decoder)'
<1>1. DecoderOK(Left(d)) /\ \A e : DecoderOK(e) => DecoderOK(e)'
  BY LeftOK, SameKept, Keeping
<1>2. PICK e : e = decoder' /\ DecoderOK(e)
  BY <1>1 DEF Leave
<1>. QED
  BY <1>1, <1>2

(* The slots that locators name.                                           *)
LEMMA SlotsAtOK ==
    ASSUME slots \in Seq(Slot), NEW l \in Seq(DOMAIN slots)
    PROVE  /\ SlotsAt(l) \in Seq(Slot) /\ DOMAIN SlotsAt(l) = DOMAIN l
           /\ \A k \in DOMAIN l : SlotsAt(l)[k] = slots[l[k]]
<1>. DEFINE D == DOMAIN slots
            S == Slot
<1>1. slots \in Seq(S) /\ l \in Seq(D) /\ D = DOMAIN slots
  OBVIOUS
<1>. HIDE DEF D, S
<1>2. [k \in DOMAIN l |-> slots[l[k]]] \in Seq(S)
  BY <1>1
<1>. QED
  BY <1>2 DEF SlotsAt, S

(* What the calls that begin with a lookup are given.                      *)
LEMMA FoundOK ==
    ASSUME TypeInv, NEW n, NEW d, d = Begin(n)
    PROVE  /\ DecoderOK(d)
           /\ d.out = "entry" => /\ d.locs \in Locators /\ d.locs # <<>> /\ Len(d.locs) >= 3
                                 /\ Present(d.locs) /\ d.stream \in Stream
                                 /\ SlotsAt(d.locs) \in Seq(Slot)
<1>1. DecoderOK(d)
  BY TypeInvImplies, LookupOK DEF TypeInv, Begin
<1>2. ASSUME d.out = "entry"
      PROVE  /\ d.locs \in Seq(DOMAIN slots) /\ Len(d.locs) >= 3 /\ d.stream \in Stream
             /\ Present(d.locs)
  BY <1>1, <1>2 DEF DecoderOK, DecoderType, Present
<1>3. ASSUME NEW l \in Seq(DOMAIN slots), Len(l) >= 3
      PROVE  l \in Locators /\ l # <<>> /\ SlotsAt(l) \in Seq(Slot)
  <2>1. slots \in Seq(Slot)
    BY DEF TypeInv, DeviceOK
  <2>. QED
    BY <1>3, <2>1, SlotsAtOK DEF Locators
<1>. QED
  BY <1>1, <1>2, <1>3

(* Calls that are over with their lookup.                                  *)
LEMMA TypeLookups ==
    ASSUME TypeInv, NEW n \in Names,
           \/ Open(n) \/ Close(n) \/ LookupFails(n) \/ \E k \in Nat : LookupIoError(n, k)
    PROVE  TypeInv'
<1>1. /\ DeviceOK /\ DecoderOK(decoder) /\ HandlesOK /\ OpOK /\ ChainOK /\ slots \in Seq(Slot)
  BY TypeInvImplies DEF TypeInv, DeviceOK
<1>2. UNCHANGED device /\ op' = op
  BY DEF Open, Close, LookupFails, LookupIoError
<1>3. DeviceOK' /\ SlotsKept /\ slots' = slots /\ length' = length
  BY <1>1, <1>2, DeviceKept
<1>4. OpOK'
  BY <1>1, <1>2, <1>3 DEF OpOK, RoomOK, OpType, Locators, Present, At, Wanted, OldEnd
<1>5. CASE Open(n)
  <2>1. PICK d : d = Begin(n)
    OBVIOUS
  <2>2. d.out = "entry" /\ handle' = [handle EXCEPT ![n] = d.locs] /\ Leave(d)
    BY <1>5, <2>1 DEF Open
  <2>3. DecoderOK(d) /\ d.locs \in Locators /\ Present(d.locs)
    BY <2>1, <2>2, FoundOK
  <2>4. DecoderOK(decoder)'
    BY <1>1, <1>3, <2>2, <2>3, LeaveOK
  <2>5. handle' \in [Names -> Locators] /\ \A m \in Names : Present(handle'[m])
    BY <1>1, <2>2, <2>3 DEF HandlesOK
  <2>6. HandlesOK'
    BY <1>3, <2>5 DEF HandlesOK, Locators, Present
  <2>. QED
    BY <1>3, <1>4, <2>4, <2>6 DEF TypeInv
<1>6. CASE Close(n)
  <2>1. handle' = [handle EXCEPT ![n] = <<>>] /\ decoder' = decoder
    BY <1>6 DEF Close
  <2>2. <<>> \in Locators /\ Present(<<>>)
    BY DEF Locators, Present
  <2>3. handle' \in [Names -> Locators] /\ \A m \in Names : Present(handle'[m])
    BY <1>1, <2>1, <2>2 DEF HandlesOK
  <2>4. HandlesOK'
    BY <1>3, <2>3 DEF HandlesOK, Locators, Present
  <2>. QED
    BY <1>1, <1>3, <1>4, <2>1, <2>4, DecoderKept DEF TypeInv
<1>7. CASE LookupFails(n)
  <2>1. Leave(Begin(n)) /\ handle' = handle
    BY <1>7 DEF LookupFails
  <2>2. DecoderOK(Begin(n))
    BY FoundOK
  <2>. QED
    BY <1>1, <1>3, <1>4, <2>1, <2>2, LeaveOK, HandlesKept DEF TypeInv
<1>8. ASSUME NEW k \in Nat, LookupIoError(n, k) PROVE TypeInv'
  <2>. DEFINE m == k * SlotsPerSector
              view == SubSeq(LookupSlots, 1, m)
  <2>1. m \in Nat /\ m < Len(LookupSlots)
    BY <1>8, Parameters DEF LookupIoError
  <2>2. ViewOK(LookupSlots)
    BY <1>1, ViewsOK
  <2>3. ViewOK(view)
    <3>. HIDE DEF m
    <3>1. Len(LookupSlots) \in Nat
      BY <2>2 DEF ViewOK
    <3>2. Len(view) = m /\ DOMAIN view = 1..m /\ \A i \in 1..m : view[i] = LookupSlots[i]
      BY <2>1, <3>1
    <3>. QED
      BY <2>1, <2>2, <3>2 DEF ViewOK
  <2>4. Leave(ScanFor(decoder, view, n)) /\ handle' = handle
    BY <1>8 DEF LookupIoError
  <2>5. DecoderOK(ScanFor(decoder, view, n))
    BY <1>1, <2>3, ScanOK
  <2>. HIDE DEF view
  <2>. QED
    BY <1>1, <1>3, <1>4, <2>4, <2>5, LeaveOK, HandlesKept DEF TypeInv
<1>. QED
  BY <1>5, <1>6, <1>7, <1>8

(* What an operation begins with.                                          *)
LEMMA BegunOK ==
    ASSUME TypeInv, UNCHANGED device, handle' = handle, DecoderOK(decoder)',
           op' \in OpType, Present(op'.old), op'.name \in Names,
           op'.pc \in {"search", "restream", "stream", "retire"},
           op'.pc # "search" \/ op'.kind = "rename" => op'.old # <<>>,
           op'.pc = "retire" => op'.i = 1
    PROVE  TypeInv'
<1>1. DeviceOK /\ HandlesOK
  BY DEF TypeInv
<1>2. DeviceOK' /\ SlotsKept /\ slots' = slots /\ length' = length
  BY <1>1, DeviceKept
<1>3. op'.old # <<>> => 1 \in DOMAIN op'.old
  <2>1. PICK l \in Locators : l = op'.old
    BY DEF OpType
  <2>2. l # <<>> => 1 \in DOMAIN l
    BY DEF Locators
  <2>. QED
    BY <2>1, <2>2
<1>4. OpOK'
  BY <1>2, <1>3 DEF OpOK, RoomOK, OpType, Locators, Present, At
<1>. QED
  BY <1>1, <1>2, <1>4, HandlesKept DEF TypeInv

LEMMA TypeBegins ==
    ASSUME TypeInv, NEW n \in Names,
           \/ CreateAbsent(n) \/ CreateExisting(n) \/ Remove(n) \/ \E s \in Streams : Update(n, s)
    PROVE  TypeInv'
<1>1. DeviceOK /\ DecoderOK(decoder) /\ HandlesOK /\ slots \in Seq(Slot) /\ <<>> \in Locators
  BY DEF TypeInv, DeviceOK, Locators
<1>2. UNCHANGED device /\ handle' = handle
  BY DEF CreateAbsent, CreateExisting, Remove, Update
<1>3. DeviceOK' /\ SlotsKept /\ slots' = slots
  BY <1>1, <1>2, DeviceKept
<1>4. PICK d : d = Begin(n)
  OBVIOUS
<1>5. DecoderOK(d) /\ (d.out = "entry" => d.locs \in Locators /\ d.locs # <<>> /\ Present(d.locs)
                                          /\ SlotsAt(d.locs) \in Seq(Slot))
  BY <1>4, FoundOK
<1>6. Empty \in Stream /\ <<>> \in Seq(Slot)
  BY DirectoryAssumption, ContentsAssumption
<1>7. CASE CreateAbsent(n)
  <2>1. op' = [Idle EXCEPT !.pc = "search", !.kind = "create", !.name = n] /\ Leave(d)
    BY <1>4, <1>7 DEF CreateAbsent
  <2>2. op' \in OpType /\ op'.pc = "search" /\ op'.kind = "create" /\ op'.name = n /\ op'.old = <<>>
    BY ONLY <1>1, <1>6, <2>1, n \in Names DEF Idle, OpType
  <2>3. Present(op'.old) /\ DecoderOK(decoder)'
    BY <1>1, <1>3, <1>5, <2>1, <2>2, LeaveOK DEF Present
  <2>. QED
    BY <1>2, <2>2, <2>3, BegunOK
<1>8. CASE CreateExisting(n)
  <2>1. /\ op' = [Idle EXCEPT !.pc = "stream", !.kind = "create", !.name = n, !.old = d.locs,
                              !.before = SlotsAt(d.locs)]
        /\ d.out = "entry" /\ Leave(d)
    BY <1>4, <1>8 DEF CreateExisting
  <2>. DEFINE b == SlotsAt(d.locs)
              l == d.locs
  <2>2. b \in Seq(Slot) /\ l \in Locators /\ l # <<>> /\ Present(l)
    BY <1>5, <2>1
  <2>. HIDE DEF b, l
  <2>3. op' = [Idle EXCEPT !.pc = "stream", !.kind = "create", !.name = n, !.old = l, !.before = b]
    BY <2>1 DEF b, l
  <2>4. op' \in OpType /\ op'.pc = "stream" /\ op'.name = n /\ op'.old = l
    BY ONLY <1>1, <1>6, <2>2, <2>3, n \in Names DEF Idle, OpType
  <2>5. DecoderOK(decoder)'
    BY <1>1, <1>3, <1>5, <2>1, LeaveOK
  <2>. QED
    BY <1>2, <2>2, <2>4, <2>5, BegunOK
<1>9. CASE Remove(n)
  <2>1. /\ op' = [Idle EXCEPT !.pc = "retire", !.kind = "remove", !.name = n, !.old = d.locs,
                              !.before = SlotsAt(d.locs), !.i = 1]
        /\ d.out = "entry" /\ Leave(d)
    BY <1>4, <1>9 DEF Remove
  <2>. DEFINE b == SlotsAt(d.locs)
              l == d.locs
  <2>2. b \in Seq(Slot) /\ l \in Locators /\ l # <<>> /\ Present(l)
    BY <1>5, <2>1
  <2>. HIDE DEF b, l
  <2>3. op' = [Idle EXCEPT !.pc = "retire", !.kind = "remove", !.name = n, !.old = l, !.before = b, !.i = 1]
    BY <2>1 DEF b, l
  <2>4. op' \in OpType /\ op'.pc = "retire" /\ op'.name = n /\ op'.old = l /\ op'.i = 1
    BY ONLY <1>1, <1>6, <2>2, <2>3, n \in Names DEF Idle, OpType
  <2>5. DecoderOK(decoder)'
    BY <1>1, <1>3, <1>5, <2>1, LeaveOK
  <2>. QED
    BY <1>2, <2>2, <2>4, <2>5, BegunOK
<1>10. ASSUME NEW s \in Streams, Update(n, s) PROVE TypeInv'
  <2>. DEFINE b == SlotsAt(handle[n])
              l == handle[n]
  <2>1. l \in Locators /\ l # <<>> /\ Present(l)
    BY <1>1, <1>10 DEF Update, HandlesOK
  <2>2. b \in Seq(Slot)
    BY <1>1, <2>1, SlotsAtOK DEF Locators
  <2>3. s \in Stream
    BY ContentsAssumption
  <2>. HIDE DEF b, l
  <2>4. op' = [Idle EXCEPT !.pc = "stream", !.kind = "update", !.name = n, !.stream = s, !.old = l, !.before = b]
    BY <1>10 DEF Update, b, l
  <2>5. op' \in OpType /\ op'.pc = "stream" /\ op'.name = n /\ op'.old = l
    BY ONLY <1>1, <1>6, <2>1, <2>2, <2>3, <2>4, n \in Names DEF Idle, OpType
  <2>6. DecoderOK(decoder)'
    BY <1>1, <1>3, <1>10, DecoderKept DEF Update
  <2>. QED
    BY <1>2, <2>1, <2>5, <2>6, BegunOK
<1>. QED
  BY <1>7, <1>8, <1>9, <1>10

LEMMA TypeRename ==
    ASSUME TypeInv, NEW n \in Names, NEW m \in Names, Rename(n, m)
    PROVE  TypeInv'
<1>1. DeviceOK /\ DecoderOK(decoder) /\ slots \in Seq(Slot) /\ <<>> \in Locators
  BY DEF TypeInv, DeviceOK, Locators
<1>2. UNCHANGED device /\ handle' = handle
  BY DEF Rename
<1>3. slots' = slots
  BY <1>1, <1>2, DeviceKept
<1>4. PICK d : d = Begin(n)
  OBVIOUS
<1>5. /\ d.out = "entry" /\ Leave(d)
      /\ op' = IF SetSize(m) > Len(d.locs)
               THEN [[Idle EXCEPT !.kind = "rename", !.name = m, !.old = d.locs, !.before = SlotsAt(d.locs)]
                        EXCEPT !.pc = "search", !.stream = Relocated(d.stream)]
               ELSE [[Idle EXCEPT !.kind = "rename", !.name = m, !.old = d.locs, !.before = SlotsAt(d.locs)]
                        EXCEPT !.pc = "restream"]
  BY <1>4 DEF Rename
<1>. DEFINE b == SlotsAt(d.locs)
            l == d.locs
            r == Relocated(d.stream)
<1>6. DecoderOK(d) /\ l \in Locators /\ l # <<>> /\ Present(l) /\ b \in Seq(Slot) /\ d.stream \in Stream
  BY <1>4, <1>5, FoundOK
<1>7. r \in Stream
  BY <1>6 DEF Relocated, Stream
<1>8. Empty \in Stream /\ <<>> \in Seq(Slot)
  BY DirectoryAssumption, ContentsAssumption
<1>. HIDE DEF b, l, r
<1>9. \/ op' = [Idle EXCEPT !.kind = "rename", !.name = m, !.old = l, !.before = b, !.pc = "search", !.stream = r]
      \/ op' = [Idle EXCEPT !.kind = "rename", !.name = m, !.old = l, !.before = b, !.pc = "restream"]
  BY <1>5 DEF b, l, r, Idle
<1>12. ASSUME op' = [Idle EXCEPT !.kind = "rename", !.name = m, !.old = l, !.before = b, !.pc = "search", !.stream = r]
       PROVE  op' \in OpType /\ op'.pc = "search" /\ op'.name = m /\ op'.old = l
  BY ONLY <1>1, <1>6, <1>7, <1>8, <1>12, m \in Names DEF Idle, OpType
<1>13. ASSUME op' = [Idle EXCEPT !.kind = "rename", !.name = m, !.old = l, !.before = b, !.pc = "restream"]
       PROVE  op' \in OpType /\ op'.pc = "restream" /\ op'.name = m /\ op'.old = l
  BY ONLY <1>1, <1>6, <1>8, <1>13, m \in Names DEF Idle, OpType
<1>10. op' \in OpType /\ op'.pc \in {"search", "restream"} /\ op'.name = m /\ op'.old = l
  BY <1>9, <1>12, <1>13
<1>11. DecoderOK(decoder)'
  BY <1>1, <1>3, <1>5, <1>6, LeaveOK
<1>. QED
  BY <1>2, <1>6, <1>10, <1>11, BegunOK

(* A search that ends writes to the first free slots of those it reads.    *)
LEMMA SearchOK ==
    ASSUME TypeInv, Search
    PROVE  /\ op' \in OpType /\ op'.name = op.name /\ op'.kind = op.kind /\ op'.old = op.old
           /\ op'.stream = op.stream /\ op'.before = op.before /\ op'.pc = "write" /\ op'.i = 1
           /\ Wanted \in Nat \ {0, 1, 2} /\ Len(op'.locs) = Wanted /\ DOMAIN op'.locs = 1..Wanted
           /\ ViewOK(LookupSlots)
           /\ \E first \in FreeStarts(LookupSlots) :
                  /\ first \in Nat \ {0} /\ first + Wanted - 1 <= Len(LookupSlots)
                  /\ \A k \in 1..Wanted : op'.locs[k] = first + k - 1
                  /\ \A j \in first..(first + Wanted - 1) : ~slots[j].used
                  /\ \A i \in FreeStarts(LookupSlots) : first <= i
<1>1. /\ slots \in Seq(Slot) /\ op \in OpType /\ op.name \in Names /\ ViewOK(LookupSlots)
  BY TypeInvImplies, ViewsOK DEF TypeInv, DeviceOK, OpOK, Search, At
<1>2. Wanted \in Nat
  BY <1>1, Parameters DEF Wanted
<1>3. PICK first : first = Least(FreeStarts(LookupSlots))
  OBVIOUS
<1>4. op' = StartWriting(first) /\ first \in FreeStarts(LookupSlots) /\ \A i \in FreeStarts(LookupSlots) : first <= i
  BY <1>3, FirstFree DEF Search
<1>5. /\ first \in 1..Len(LookupSlots) /\ first + Wanted - 1 <= Len(LookupSlots)
      /\ \A j \in first..(first + Wanted - 1) : ~LookupSlots[j].used
  BY <1>4 DEF FreeStarts
<1>6. /\ Len(LookupSlots) \in Nat /\ Len(LookupSlots) <= Len(slots) /\ Len(slots) \in Nat
      /\ \A j \in 1..Len(LookupSlots) : LookupSlots[j] = slots[j]
  BY <1>1 DEF ViewOK
<1>7. /\ first \in Nat \ {0} /\ first + Wanted - 1 <= Len(slots)
      /\ \A j \in first..(first + Wanted - 1) : j \in 1..Len(LookupSlots)
  BY <1>2, <1>5, <1>6
<1>8. \A j \in first..(first + Wanted - 1) : ~slots[j].used
  BY <1>5, <1>6, <1>7
<1>9. /\ op' \in OpType /\ op'.name = op.name /\ op'.kind = op.kind /\ op'.old = op.old
      /\ op'.stream = op.stream /\ op'.before = op.before /\ op'.pc = "write" /\ op'.i = 1
      /\ Wanted \in Nat \ {0, 1, 2} /\ Len(op'.locs) = Wanted /\ DOMAIN op'.locs = 1..Wanted
      /\ \A k \in 1..Wanted : op'.locs[k] = first + k - 1
  BY <1>1, <1>4, <1>7, WritingOK
<1>. QED
  BY <1>1, <1>4, <1>5, <1>7, <1>8, <1>9

(* Searching and growing.                                                  *)
LEMMA TypeSearch ==
    ASSUME TypeInv, Search \/ ReachEnd \/ NoSpace \/ IoError
    PROVE  TypeInv'
<1>1. DeviceOK /\ DecoderOK(decoder) /\ HandlesOK /\ OpOK /\ slots \in Seq(Slot) /\ op \in OpType /\ ChainOK
  BY TypeInvImplies DEF TypeInv, DeviceOK, OpOK
<1>2. UNCHANGED device /\ decoder' = decoder /\ handle' = handle
  BY DEF Search, ReachEnd, NoSpace, IoError
<1>3. DeviceOK' /\ SlotsKept /\ slots' = slots /\ length' = length
  BY <1>1, <1>2, DeviceKept
<1>4. ViewOK(LookupSlots)
  BY <1>1, ViewsOK
<1>5. ASSUME OpOK' PROVE TypeInv'
  BY <1>1, <1>2, <1>3, <1>5, DecoderKept, HandlesKept DEF TypeInv
<1>6. CASE Search
  <2>1. /\ op' \in OpType /\ op'.pc = "write" /\ op'.i = 1 /\ op'.name = op.name
        /\ op'.kind = op.kind /\ op'.old = op.old
        /\ Wanted \in Nat \ {0, 1, 2} /\ Len(op'.locs) = Wanted /\ DOMAIN op'.locs = 1..Wanted
    BY <1>6, SearchOK
  <2>2. op.name \in Names /\ Present(op.old) /\ (op.kind = "rename" => op.old # <<>>)
    BY <1>1, <1>6 DEF Search, At, OpOK
  <2>3. OpOK'
    BY <1>3, <2>1, <2>2 DEF OpOK, RoomOK, OpType, Locators, Present, At, Wanted
  <2>. QED
    BY <1>5, <2>3
<1>7. CASE ReachEnd
  <2>1. op' = [op EXCEPT !.pc = "link", !.run = TailRun(LookupSlots)] /\ CanGrow
        /\ op.name \in Names /\ Present(op.old) /\ (op.kind = "rename" => op.old # <<>>)
    BY <1>1, <1>7 DEF ReachEnd, OpOK, At
  <2>2. TailRun(LookupSlots) \in Nat /\ TailRun(LookupSlots) <= Len(slots)
    BY <1>1, <1>4, TailOK DEF ViewOK
  <2>. DEFINE r == TailRun(LookupSlots)
  <2>. HIDE DEF r
  <2>3. op' \in OpType /\ op'.pc = "link" /\ op'.run = r /\ op'.name = op.name /\ op'.kind = op.kind /\ op'.old = op.old
    BY ONLY <1>1, <2>1, <2>2 DEF OpType, r
  <2>4. Kind # "root" => Len(slots) = length * SlotsPerCluster
    BY <2>1 DEF CanGrow
  <2>5. OpOK'
    BY <1>3, <2>1, <2>2, <2>3, <2>4 DEF OpOK, RoomOK, OpType, Locators, Present, At, r
  <2>. QED
    BY <1>5, <2>5
<1>8. CASE NoSpace \/ IoError
  <2>1. op' = Idle
    BY <1>8 DEF NoSpace, IoError
  <2>2. OpOK'
    BY <1>3, <2>1, IdleOK DEF OpOK, RoomOK, OpType, Locators, Present, At
  <2>. QED
    BY <1>5, <2>2
<1>. QED
  BY <1>6, <1>7, <1>8

(* After growth an operation writes from the old tail on, or searches      *)
(* again.                                                                  *)
LEMMA GrowthOK ==
    ASSUME TypeInv, op.pc \in {"pad", "sealLength"}, op' = AfterGrowth
    PROVE  /\ op' \in OpType /\ op'.name = op.name /\ op'.kind = op.kind /\ op'.old = op.old
           /\ op'.stream = op.stream /\ op'.before = op.before
           /\ \/ op'.pc = "search"
              \/ /\ op'.pc = "write" /\ op'.i = 1
                 /\ Wanted \in Nat \ {0, 1, 2} /\ Len(op'.locs) = Wanted /\ DOMAIN op'.locs = 1..Wanted
                 /\ FirstLocator \in 1..OldEnd /\ FirstLocator + Wanted - 1 <= Len(slots)
                 /\ FirstLocator = OldEnd - op.run + 1
                 /\ \A k \in 1..Wanted : op'.locs[k] = FirstLocator + k - 1
<1>1. /\ op \in OpType /\ op.name \in Names /\ slots \in Seq(Slot)
      /\ op.run <= Len(slots) - SlotsPerCluster /\ Len(slots) >= 2 * SlotsPerCluster
  BY DEF TypeInv, OpOK, RoomOK, DeviceOK, OldEnd
<1>2. op.run \in Nat /\ Len(slots) \in Nat /\ Wanted \in Nat /\ SlotsPerSector <= SlotsPerCluster
  BY <1>1, Parameters DEF OpType, Wanted
<1>3. CASE op.run # 0 /\ Wanted - op.run <= SlotsPerSector
  <2>1. op.run <= Len(slots) - SlotsPerCluster /\ Len(slots) >= 2 * SlotsPerCluster
    BY <1>1
  <2>2. FirstLocator \in Nat \ {0} /\ FirstLocator \in 1..OldEnd /\ FirstLocator + Wanted - 1 <= Len(slots)
    BY ONLY <1>2, <1>3, <2>1, Parameters DEF FirstLocator, OldEnd
  <2>3. op' = StartWriting(FirstLocator)
    BY <1>3 DEF AfterGrowth
  <2>4. FirstLocator = OldEnd - op.run + 1
    BY DEF FirstLocator
  <2>. QED
    BY <1>1, <2>2, <2>3, <2>4, WritingOK
<1>4. CASE ~(op.run # 0 /\ Wanted - op.run <= SlotsPerSector)
  <2>1. op' = [op EXCEPT !.pc = "search", !.run = 0]
    BY <1>4 DEF AfterGrowth
  <2>2. /\ op' \in OpType /\ op'.pc = "search" /\ op'.name = op.name /\ op'.kind = op.kind
        /\ op'.old = op.old /\ op'.stream = op.stream /\ op'.before = op.before
    BY ONLY <1>1, <2>1 DEF OpType
  <2>. QED
    BY <2>2
<1>. QED
  BY <1>3, <1>4

LEMMA GrownOK ==
    ASSUME TypeInv, op.pc \in {"pad", "sealLength"}, SlotsKept, Len(slots') = Len(slots), op' = AfterGrowth
    PROVE  OpOK'
<1>1. /\ op \in OpType /\ op.name \in Names /\ Present(op.old) /\ (op.kind = "rename" => op.old # <<>>)
  BY DEF TypeInv, OpOK
<1>2. PICK l \in Seq(DOMAIN slots) : l = op.old
  BY <1>1 DEF OpType, Locators
<1>3. OpType \subseteq OpType' /\ Present(l)'
  BY <1>1, <1>2, Keeping
<1>4. /\ op' \in OpType /\ op'.name = op.name /\ op'.kind = op.kind /\ op'.old = op.old
      /\ \/ op'.pc = "search"
         \/ /\ op'.pc = "write" /\ op'.i = 1
            /\ Wanted \in Nat \ {0, 1, 2} /\ Len(op'.locs) = Wanted /\ DOMAIN op'.locs = 1..Wanted
  BY GrowthOK
<1>. QED
  BY <1>1, <1>2, <1>3, <1>4 DEF OpOK, RoomOK, Present, At, Wanted

LEMMA TypeLink ==
    ASSUME TypeInv, LinkCluster
    PROVE  TypeInv'
<1>1. /\ op \in OpType /\ op.name \in Names /\ Present(op.old) /\ (op.kind = "rename" => op.old # <<>>) /\ op.run <= Len(slots)
      /\ slots \in Seq(Slot) /\ DecoderOK(decoder) /\ HandlesOK /\ DeviceOK
      /\ Kind # "root" => Len(slots) = length * SlotsPerCluster
  BY DEF TypeInv, OpOK, RoomOK, DeviceOK, LinkCluster, At
<1>. DEFINE b == SlotsPerCluster
            e == [i \in 1..b |-> EndSlot]
            S == Slot
<1>2. b \in Nat \ {0} /\ EndSlot \in S
  BY Parameters DEF EndSlot, Slot, Contents
<1>3. slots' = slots \o e /\ slots \in Seq(S)
  BY <1>1 DEF LinkCluster
<1>. HIDE DEF b, S
<1>4. e \in Seq(S) /\ Len(e) = b
  BY <1>2
<1>. HIDE DEF e
<1>5. slots' \in Seq(S) /\ Len(slots') = Len(slots) + b /\ \A i \in DOMAIN slots : slots'[i] = slots[i]
  <2>1. PICK s \in Seq(S), t \in Seq(S) : s = slots /\ t = e
    BY <1>3, <1>4
  <2>2. /\ s \o t \in Seq(S) /\ Len(s \o t) = Len(s) + Len(t)
        /\ \A i \in 1..(Len(s) + Len(t)) : (s \o t)[i] = IF i <= Len(s) THEN s[i] ELSE t[i - Len(s)]
    BY ONLY s \in Seq(S), t \in Seq(S), Seqs!ConcatProperties
  <2>3. Len(s) \in Nat /\ Len(t) \in Nat /\ DOMAIN s = 1..Len(s)
    OBVIOUS
  <2>4. \A i \in DOMAIN s : (s \o t)[i] = s[i]
    BY <2>2, <2>3
  <2>. QED
    BY <1>3, <1>4, <2>1, <2>2, <2>4
<1>6. SlotsKept
  BY <1>1, <1>2, <1>5 DEF SlotsKept, S
<1>7. Len(slots) \in Nat /\ Len(slots') >= Len(slots)
  BY <1>2, <1>3, <1>5
<1>8. DeviceOK'
  <2>1. UNCHANGED <<length, sealedLength>> /\ Len(slots') % b = 0
    BY <1>1, <1>2, <1>5, <1>7, OneMore DEF LinkCluster, DeviceOK, b
  <2>2. length * b \in Nat
    BY <1>1, <1>2 DEF DeviceOK
  <2>. QED
    BY <1>1, <1>2, <1>5, <1>7, <2>1, <2>2 DEF DeviceOK, S, b
<1>9. op' = [op EXCEPT !.pc = "pad"]
  BY DEF LinkCluster
<1>10. /\ op' \in OpType /\ op'.pc = "pad" /\ op'.name = op.name /\ op'.kind = op.kind /\ op'.old = op.old /\ op'.run = op.run
       /\ op.run \in Nat /\ op.old \in Seq(DOMAIN slots)
  <2>1. op.old \in Locators /\ op.run \in Nat
    BY ONLY <1>1 DEF OpType
  <2>2. op' \in OpType /\ op'.pc = "pad" /\ op'.name = op.name /\ op'.kind = op.kind /\ op'.old = op.old /\ op'.run = op.run
    BY ONLY <1>1, <1>9 DEF OpType
  <2>. QED
    BY <2>1, <2>2 DEF Locators
<1>11. op' \in OpType' /\ Present(op.old)'
  BY <1>1, <1>6, <1>10, Keeping
<1>12. OpOK'
  <2>1. OldEnd' = Len(slots)
    BY <1>2, <1>5, <1>7 DEF OldEnd, b
  <2>2. length' = length /\ Present(op.old)'
    BY <1>11 DEF LinkCluster
  <2>3. Len(slots') >= 2 * b
    BY <1>1, <1>2, <1>5, <1>7 DEF DeviceOK, b
  <2>. QED
    BY <1>1, <1>5, <1>10, <1>11, <2>1, <2>2, <2>3 DEF OpOK, RoomOK, Present, At, b
<1>. QED
  BY <1>1, <1>6, <1>8, <1>12, DecoderKept, HandlesKept DEF TypeInv, LinkCluster

(* Padding changes end markers alone.                                      *)
LEMMA PaddedKept ==
    ASSUME slots \in Seq(Slot), slots' = [i \in DOMAIN slots |-> Padded(i)]
    PROVE  /\ SlotsKept /\ Len(slots') = Len(slots) /\ DOMAIN slots' = DOMAIN slots
           /\ \A i \in DOMAIN slots : slots'[i] = Padded(i)
<1>. DEFINE S == Slot
            n == Len(slots)
<1>1. slots \in Seq(S) /\ n \in Nat /\ DOMAIN slots = 1..n /\ \A i \in 1..n : slots[i] \in S
  OBVIOUS
<1>2. PadSlot \in S
  BY DEF PadSlot, Slot, Contents
<1>. HIDE DEF S, n
<1>3. \A i \in 1..n : Padded(i) \in S
  BY <1>1, <1>2 DEF Padded
<1>4. slots' = [i \in 1..n |-> Padded(i)]
  BY <1>1
<1>5. slots' \in Seq(S) /\ Len(slots') = n /\ DOMAIN slots' = 1..n /\ \A i \in 1..n : slots'[i] = Padded(i)
  BY <1>1, <1>3, <1>4
<1>6. \A i \in 1..n : slots[i].tag # "end" => slots'[i].tag # "end"
  BY <1>5 DEF Padded
<1>. QED
  BY <1>1, <1>5, <1>6 DEF SlotsKept, S, n

LEMMA TypePad ==
    ASSUME TypeInv, PadOldTail
    PROVE  TypeInv'
<1>1. /\ DeviceOK /\ DecoderOK(decoder) /\ HandlesOK /\ slots \in Seq(Slot) /\ op \in OpType /\ At("pad")
      /\ op.name \in Names /\ Present(op.old) /\ (op.kind = "rename" => op.old # <<>>) /\ RoomOK
  BY DEF TypeInv, DeviceOK, OpOK, PadOldTail, At
<1>2. /\ slots' = [i \in DOMAIN slots |-> Padded(i)] /\ op' = AfterPad
      /\ UNCHANGED <<length, sealedLength, decoder, handle>>
  BY DEF PadOldTail
<1>3. SlotsKept /\ Len(slots') = Len(slots)
  BY <1>1, <1>2, PaddedKept
<1>4. slots' \in Seq(Slot) /\ OldEnd' = OldEnd
  BY <1>3 DEF SlotsKept, OldEnd
<1>5. DeviceOK'
  BY <1>1, <1>2, <1>3, <1>4 DEF DeviceOK
<1>6. CASE Kind = "root"
  <2>1. op' = AfterGrowth
    BY <1>2, <1>6 DEF AfterPad
  <2>2. OpOK'
    BY <1>1, <1>3, <2>1, GrownOK DEF At
  <2>. QED
    BY <1>1, <1>2, <1>3, <1>5, <2>2, DecoderKept, HandlesKept DEF TypeInv
<1>7. CASE Kind # "root"
  <2>1. op' = [op EXCEPT !.pc = "length"]
    BY <1>2, <1>7 DEF AfterPad
  <2>2. op' \in OpType /\ op'.pc = "length" /\ op'.name = op.name /\ op'.kind = op.kind /\ op'.old = op.old /\ op'.run = op.run
    BY ONLY <1>1, <2>1 DEF OpType
  <2>3. PICK l \in Seq(DOMAIN slots) : l = op.old
    BY <1>1 DEF OpType, Locators
  <2>4. op' \in OpType' /\ Present(l)'
    BY <1>1, <1>3, <2>2, <2>3, Keeping
  <2>5. Len(slots) \in Nat
    BY <1>1
  <2>6. OpOK'
    BY <1>1, <1>2, <1>3, <1>4, <2>2, <2>3, <2>4, <2>5 DEF OpOK, RoomOK, Present, At
  <2>. QED
    BY <1>1, <1>2, <1>3, <1>5, <2>6, DecoderKept, HandlesKept DEF TypeInv
<1>. QED
  BY <1>6, <1>7

(* The record of a longer directory.                                       *)
LEMMA TypeRecord ==
    ASSUME TypeInv, RecordLength \/ SealLength
    PROVE  TypeInv'
<1>1. /\ DeviceOK /\ DecoderOK(decoder) /\ HandlesOK /\ slots \in Seq(Slot) /\ op \in OpType
      /\ op.name \in Names /\ Present(op.old) /\ (op.kind = "rename" => op.old # <<>>) /\ RoomOK /\ op.pc \in {"length", "sealLength"}
  BY DEF TypeInv, DeviceOK, OpOK, RecordLength, SealLength, At
<1>2. slots' = slots /\ decoder' = decoder /\ handle' = handle
  BY DEF RecordLength, SealLength
<1>3. SlotsKept /\ Len(slots') = Len(slots)
  BY <1>1, <1>2, SameKept
<1>4. CASE RecordLength
  <2>1. length' = length + 1 /\ op' = [op EXCEPT !.pc = "sealLength"] /\ sealedLength' = sealedLength /\ At("length")
    BY <1>4 DEF RecordLength
  <2>2. op' \in OpType /\ op'.pc = "sealLength" /\ op'.name = op.name /\ op'.kind = op.kind /\ op'.old = op.old /\ op'.run = op.run
    BY ONLY <1>1, <2>1 DEF OpType
  <2>3. DeviceOK'
    <3>. DEFINE b == SlotsPerCluster
    <3>1. length \in Nat /\ b \in Nat
      BY <1>1, Parameters DEF DeviceOK
    <3>2. (length + 1) * b = length * b + b
      BY <3>1
    <3>. QED
      BY <1>1, <1>2, <2>1, <3>1, <3>2 DEF DeviceOK, RoomOK, At
  <2>4. OpOK'
    BY <1>1, <1>2, <2>2 DEF OpOK, RoomOK, OpType, Locators, Present, At, OldEnd
  <2>. QED
    BY <1>1, <1>2, <1>3, <2>3, <2>4, DecoderKept, HandlesKept DEF TypeInv
<1>5. CASE SealLength
  <2>1. sealedLength' = length /\ length' = length /\ op' = AfterGrowth /\ At("sealLength")
    BY <1>5 DEF SealLength
  <2>2. OpOK'
    BY <1>3, <2>1, GrownOK DEF At
  <2>3. DeviceOK'
    BY <1>1, <1>2, <2>1 DEF DeviceOK
  <2>. QED
    BY <1>1, <1>2, <1>3, <2>2, <2>3, DecoderKept, HandlesKept DEF TypeInv
<1>. QED
  BY <1>4, <1>5

(* The slots of a new set.                                                 *)
LEMMA NewSetOK ==
    ASSUME NEW n \in Names, NEW s \in Stream, NEW set, set = NewSet(n, s)
    PROVE  /\ set \in Seq(Slot) /\ Len(set) = SetSize(n) /\ DOMAIN set = 1..SetSize(n)
           /\ \A i \in 1..SetSize(n) : set[i].tag # "end"
           /\ Checksum(set) \in Seq(Contents)
<1>. DEFINE w == SetSize(n)
            C == Contents
            S == Slot
            item(i) == CASE i = 1 -> Primary(Secondaries(n), <<>>)
                         [] i = 2 -> StreamSlot(Units[n], s)
                         [] OTHER -> NameSlot(NamePart(n, i - 2))
<1>1. w \in Nat \ {0, 1, 2} /\ Secondaries(n) \in Nat /\ Units[n] \in Nat
  BY Parameters DEF Secondaries
<1>2. Primary(Secondaries(n), <<>>) \in S
  BY <1>1 DEF Primary, Slot, Contents
<1>3. StreamSlot(Units[n], s) \in S
  BY <1>1 DEF StreamSlot, Slot, Contents
<1>4. \A p \in Parts : NameSlot(p) \in S
  BY DEF NameSlot, Slot, Contents
<1>5. \A i \in Nat : NamePart(n, i) \in Parts
  BY DEF NamePart, Parts
<1>6. /\ Primary(Secondaries(n), <<>>).tag = "primary" /\ StreamSlot(Units[n], s).tag = "stream"
      /\ \A p : NameSlot(p).tag = "name"
  BY DEF Primary, StreamSlot, NameSlot
<1>7. set = [i \in 1..w |-> item(i)]
  BY DEF NewSet
<1>8. \A x \in S : Content(x) \in C
  BY ContentType
<1>. HIDE DEF w, S, C
<1>9. \A i \in 1..w : item(i) \in S /\ item(i).tag # "end"
  <2>1. \A i \in 1..w : i = 1 \/ i = 2 \/ i - 2 \in Nat
    BY <1>1
  <2>. QED
    BY <1>2, <1>3, <1>4, <1>5, <1>6, <2>1
<1>. HIDE DEF item
<1>10. set \in Seq(S) /\ Len(set) = w /\ DOMAIN set = 1..w /\ \A i \in 1..w : set[i] = item(i)
  BY <1>1, <1>7, <1>9
<1>11. [i \in DOMAIN set |-> Content(set[i])] \in Seq(C)
  BY <1>1, <1>8, <1>9, <1>10
<1>. QED
  BY <1>9, <1>10, <1>11 DEF Checksum, w, S, C

LEMMA ChecksumOK == ASSUME NEW set \in Seq(Slot) PROVE Checksum(set) \in Seq(Contents)
<1>. DEFINE S == Slot
            C == Contents
<1>1. set \in Seq(S) /\ \A x \in S : Content(x) \in C
  BY ContentType
<1>. HIDE DEF S, C
<1>2. [i \in DOMAIN set |-> Content(set[i])] \in Seq(C)
  BY <1>1
<1>. QED
  BY <1>2 DEF Checksum, C

(* One slot is written.                                                    *)
LEMMA EditStep ==
    ASSUME TypeInv, NEW i \in DOMAIN slots, NEW s \in Slot, slots[i].tag # "end" => s.tag # "end",
           slots' = [slots EXCEPT ![i] = s], UNCHANGED <<length, sealedLength, decoder>>
    PROVE  /\ SlotsKept /\ Len(slots') = Len(slots)
           /\ slots'[i] = s /\ \A j \in DOMAIN slots : j # i => slots'[j] = slots[j]
           /\ DeviceOK' /\ DecoderOK(decoder)'
           /\ OpType \subseteq OpType' /\ \A l \in Seq(DOMAIN slots) : Present(l) => Present(l)'
           /\ handle' = handle => HandlesOK'
<1>1. slots \in Seq(Slot) /\ DeviceOK /\ DecoderOK(decoder) /\ HandlesOK
  BY DEF TypeInv, DeviceOK
<1>2. /\ SlotsKept /\ Len(slots') = Len(slots)
      /\ slots'[i] = s /\ \A j \in DOMAIN slots : j # i => slots'[j] = slots[j]
  BY <1>1, EditKept
<1>3. DeviceOK'
  BY <1>1, <1>2 DEF DeviceOK, SlotsKept
<1>. QED
  BY <1>1, <1>2, <1>3, DecoderKept, HandlesKept, Keeping

LEMMA TypeWrite ==
    ASSUME TypeInv, WriteSlot
    PROVE  TypeInv'
<1>1. /\ slots \in Seq(Slot) /\ op \in OpType /\ op.name \in Names /\ Present(op.old) /\ (op.kind = "rename" => op.old # <<>>)
      /\ op.i \in DOMAIN op.locs /\ Len(op.locs) = Wanted
      /\ \A k \in 1..(op.i - 1) : slots[op.locs[k]].tag # "end"
  BY DEF TypeInv, DeviceOK, OpOK, WriteSlot, At
<1>2. PICK w \in Nat \ {0, 1, 2} : w = Wanted /\ w = SetSize(op.name)
  BY <1>1, Parameters DEF Wanted
<1>3. op.locs \in Seq(DOMAIN slots) /\ op.old \in Seq(DOMAIN slots) /\ op.stream \in Stream /\ op.i \in Nat
  BY <1>1 DEF OpType, Locators
<1>4. PICK l \in Seq(DOMAIN slots), m \in Seq(DOMAIN slots), j \in Nat : l = op.locs /\ m = op.old /\ j = op.i
  BY <1>3
<1>5. DOMAIN l = 1..w /\ j \in 1..w /\ l[j] \in DOMAIN slots /\ \A k \in 1..w : l[k] \in DOMAIN slots
  BY <1>1, <1>2, <1>4
<1>6. PICK s : s = NewSet(op.name, op.stream)[j]
  OBVIOUS
<1>7. s \in Slot /\ s.tag # "end"
  <2>1. PICK set : set = NewSet(op.name, op.stream)
    OBVIOUS
  <2>2. set \in Seq(Slot) /\ DOMAIN set = 1..w /\ \A k \in 1..w : set[k].tag # "end"
    BY <1>1, <1>2, <1>3, <2>1, NewSetOK
  <2>. QED
    BY <1>5, <1>6, <2>1, <2>2
<1>8. /\ slots' = [slots EXCEPT ![l[j]] = s] /\ UNCHANGED <<length, sealedLength, decoder, handle>>
      /\ op' = IF j = w THEN [op EXCEPT !.pc = "seal", !.i = 0] ELSE [op EXCEPT !.i = @ + 1]
  BY <1>2, <1>4, <1>6 DEF WriteSlot, SetSlot
<1>9. /\ SlotsKept /\ Len(slots') = Len(slots)
      /\ slots'[l[j]] = s /\ \A x \in DOMAIN slots : x # l[j] => slots'[x] = slots[x]
      /\ DeviceOK' /\ DecoderOK(decoder)' /\ HandlesOK'
      /\ OpType \subseteq OpType' /\ \A x \in Seq(DOMAIN slots) : Present(x) => Present(x)'
  BY <1>5, <1>7, <1>8, EditStep
<1>10. Present(m)' /\ \A k \in 1..j : slots'[l[k]].tag # "end"
  <2>1. Present(m)'
    BY <1>1, <1>4, <1>9
  <2>2. ASSUME NEW k \in 1..j PROVE slots'[l[k]].tag # "end"
    <3>1. l[k] \in DOMAIN slots /\ (k = j \/ k \in 1..(j - 1))
      BY <1>5
    <3>2. k \in 1..(j - 1) => slots[l[k]].tag # "end"
      BY <1>1, <1>4
    <3>. QED
      BY <1>7, <1>9, <3>1, <3>2
  <2>. QED
    BY <2>1, <2>2
<1>11. CASE j = w
  <2>1. op' = [op EXCEPT !.pc = "seal", !.i = 0]
    BY <1>8, <1>11
  <2>2. op' \in OpType /\ op'.pc = "seal" /\ op'.name = op.name /\ op'.kind = op.kind /\ op'.old = op.old /\ op'.locs = op.locs
    BY ONLY <1>1, <2>1 DEF OpType
  <2>3. l # <<>> /\ Present(l)'
    BY <1>5, <1>10, <1>11 DEF Present
  <2>4. OpOK'
    BY <1>1, <1>4, <1>9, <1>10, <2>2, <2>3 DEF OpOK, RoomOK, Present, At
  <2>. QED
    BY <1>9, <2>4 DEF TypeInv
<1>12. CASE j # w
  <2>1. PICK k \in Nat : k = j + 1
    OBVIOUS
  <2>2. op' = [op EXCEPT !.i = k]
    BY <1>4, <1>8, <1>12, <2>1
  <2>3. op' \in OpType /\ op'.pc = op.pc /\ op'.name = op.name /\ op'.kind = op.kind /\ op'.old = op.old /\ op'.locs = op.locs /\ op'.i = k
    BY ONLY <1>1, <2>2, k \in Nat DEF OpType
  <2>4. op.pc = "write" /\ k \in 1..w /\ k - 1 = j
    BY <1>5, <1>12, <2>1 DEF WriteSlot, At
  <2>5. OpOK'
    BY <1>1, <1>2, <1>4, <1>5, <1>9, <1>10, <2>3, <2>4 DEF OpOK, RoomOK, Present, At, Wanted
  <2>. QED
    BY <1>9, <2>5 DEF TypeInv
<1>. QED
  BY <1>11, <1>12

LEMMA TypeSeal ==
    ASSUME TypeInv, SealNewSet
    PROVE  TypeInv'
<1>1. /\ slots \in Seq(Slot) /\ op \in OpType /\ op.name \in Names /\ Present(op.old) /\ (op.kind = "rename" => op.old # <<>>)
      /\ op.locs # <<>> /\ Present(op.locs) /\ HandlesOK
  BY DEF TypeInv, DeviceOK, OpOK, SealNewSet, At
<1>2. op.locs \in Locators /\ op.old \in Locators /\ op.stream \in Stream
  BY <1>1 DEF OpType
<1>3. PICK l \in Seq(DOMAIN slots), m \in Seq(DOMAIN slots) : l = op.locs /\ m = op.old
  BY <1>2 DEF Locators
<1>4. l[1] \in DOMAIN slots /\ 1 \in DOMAIN l
  BY <1>1, <1>3
<1>5. PICK q \in Seq(Contents) : q = Checksum(NewSet(op.name, op.stream))
  BY <1>1, <1>2, NewSetOK
<1>11. PICK o \in Slot : o = slots[l[1]]
  BY <1>1, <1>4
<1>6. PICK s \in Slot : s = WithSum(o, q) /\ s.tag = o.tag
  BY SlotEdited
<1>7. slots' = [slots EXCEPT ![l[1]] = s] /\ UNCHANGED <<length, sealedLength, decoder>>
  BY <1>3, <1>5, <1>6, <1>11 DEF SealNewSet, WithSum
<1>8. /\ SlotsKept /\ DeviceOK' /\ DecoderOK(decoder)'
      /\ OpType \subseteq OpType' /\ \A x \in Seq(DOMAIN slots) : Present(x) => Present(x)'
      /\ handle' = handle => HandlesOK'
  BY <1>4, <1>6, <1>7, <1>11, EditStep
<1>9. CASE op.kind = "rename"
  <2>1. op' = [op EXCEPT !.pc = "retire", !.i = 1] /\ handle' = handle
    BY <1>9 DEF SealNewSet
  <2>2. op' \in OpType /\ op'.pc = "retire" /\ op'.name = op.name /\ op'.kind = op.kind /\ op'.old = op.old /\ op'.i = 1
    BY ONLY <1>1, <2>1 DEF OpType
  <2>4. m # <<>> /\ 1 \in DOMAIN m
    BY <1>1, <1>3, <1>9
  <2>3. OpOK'
    BY <1>1, <1>3, <1>8, <2>2, <2>4 DEF OpOK, RoomOK, At
  <2>. QED
    BY <1>8, <2>1, <2>3 DEF TypeInv
<1>10. CASE op.kind # "rename"
  <2>1. op' = Idle /\ handle' = [handle EXCEPT ![op.name] = l]
    BY <1>3, <1>10 DEF SealNewSet
  <2>2. OpOK'
    BY <1>8, <2>1, IdleOK DEF OpOK, RoomOK, Present, At
  <2>3. Locators \subseteq Locators'
    BY <1>8, Keeping
  <2>4. \A n \in Names : handle[n] \in Locators /\ Present(handle[n])
    BY <1>1 DEF HandlesOK
  <2>5. \A n \in Names : handle'[n] \in Locators /\ Present(handle'[n])
    BY <1>1, <1>2, <1>3, <2>1, <2>4 DEF HandlesOK
  <2>6. HandlesOK'
    <3>1. handle' \in [Names -> Locators']
      BY <1>1, <2>1, <2>3, <2>5 DEF HandlesOK
    <3>2. ASSUME NEW n \in Names PROVE Present(handle[n])'
      <4>1. PICK x : x = handle'[n]
        OBVIOUS
      <4>2. x \in Seq(DOMAIN slots) /\ Present(x)
        BY <2>5, <4>1 DEF Locators
      <4>3. Present(x)'
        BY <1>8, <4>2
      <4>. QED
        BY <4>1, <4>3 DEF Present
    <3>. QED
      BY <3>1, <3>2 DEF HandlesOK
  <2>. QED
    BY <1>8, <2>2, <2>6 DEF TypeInv
<1>. QED
  BY <1>9, <1>10

(* The steps that edit the set that op.old locates.                        *)
LEMMA TypeRetire ==
    ASSUME TypeInv, RetireSlot
    PROVE  TypeInv'
<1>1. slots \in Seq(Slot) /\ op \in OpType /\ op.name \in Names /\ Present(op.old) /\ op.i \in DOMAIN op.old
  BY DEF TypeInv, DeviceOK, OpOK, RetireSlot, At
<1>10. PICK l \in Seq(DOMAIN slots) : l = op.old
  BY <1>1 DEF OpType, Locators
<1>11. PICK j \in DOMAIN l : j = op.i
  BY <1>1, <1>10
<1>2. l = op.old /\ j = op.i
  BY <1>10, <1>11
<1>3. l[j] \in DOMAIN slots /\ DOMAIN l = 1..Len(l) /\ Len(l) \in Nat
  OBVIOUS
<1>4. PICK o \in Slot : o = slots[l[j]]
  BY <1>1, <1>3
<1>5. PICK s \in Slot : s = Unused(o) /\ s.tag = o.tag
  BY SlotEdited
<1>6. /\ slots' = [slots EXCEPT ![l[j]] = s] /\ UNCHANGED <<length, sealedLength, decoder, handle>>
      /\ op' = IF j = Len(l) THEN Idle ELSE [op EXCEPT !.i = @ + 1]
  BY <1>2, <1>4, <1>5 DEF RetireSlot, Retired, AfterRetire, Unused
<1>7. /\ DeviceOK' /\ DecoderOK(decoder)' /\ HandlesOK'
      /\ OpType \subseteq OpType' /\ \A x \in Seq(DOMAIN slots) : Present(x) => Present(x)'
  BY <1>3, <1>4, <1>5, <1>6, EditStep
<1>8. CASE j = Len(l)
  <2>1. op' = Idle
    BY <1>6, <1>8
  <2>2. OpOK'
    BY <1>7, <2>1, IdleOK DEF OpOK, RoomOK, Present, At
  <2>. QED
    BY <1>7, <2>2 DEF TypeInv
<1>9. CASE j # Len(l)
  <2>1. PICK k \in Nat : k = j + 1
    BY <1>3
  <2>2. op' = [op EXCEPT !.i = k]
    BY <1>2, <1>6, <1>9, <2>1
  <2>3. op' \in OpType /\ op'.pc = op.pc /\ op'.name = op.name /\ op'.old = op.old /\ op'.i = k
    BY ONLY <1>1, <2>2, k \in Nat DEF OpType
  <2>4. op.pc = "retire" /\ k \in DOMAIN l
    BY <1>3, <1>9, <2>1 DEF RetireSlot, At
  <2>5. l # <<>>
    BY <2>4
  <2>6. OpOK'
    BY <1>1, <1>2, <1>7, <2>3, <2>4, <2>5 DEF OpOK, RoomOK, At
  <2>. QED
    BY <1>7, <2>6 DEF TypeInv
<1>. QED
  BY <1>8, <1>9

LEMMA TypeEdits ==
    ASSUME TypeInv, RenameStream \/ RenameSlot \/ UpdateStream
    PROVE  TypeInv'
<1>1. /\ slots \in Seq(Slot) /\ op \in OpType /\ op.name \in Names /\ Present(op.old)
      /\ op.pc \in {"restream", "rename", "stream"}
      /\ op.pc = "rename" => op.i + 2 \in DOMAIN op.old
      /\ op.pc # "rename" => op.old # <<>>
  BY DEF TypeInv, DeviceOK, OpOK, RenameStream, RenameSlot, UpdateStream, At
<1>2. PICK l \in Locators : l = op.old
  BY <1>1 DEF OpType
<1>3. /\ l \in Seq(DOMAIN slots) /\ DOMAIN l = 1..Len(l) /\ Len(l) \in Nat /\ op.i \in Nat /\ op.stream \in Stream
      /\ op.pc # "rename" => Len(l) >= 3
  BY <1>1, <1>2 DEF Locators, OpType
<1>4. \A k \in 1..Len(l) : l[k] \in DOMAIN slots
  BY <1>3
<1>5. l # <<>> /\ Len(l) >= 3
  BY <1>1, <1>2, <1>3 DEF Locators
<1>10. 2 \in DOMAIN l /\ l[2] \in DOMAIN slots /\ slots[l[2]] \in Slot /\ slots[l[2]].tag # "end"
  <2>1. 2 \in 1..Len(l) /\ l[2] \in DOMAIN slots
    BY <1>3, <1>4, <1>5
  <2>2. Present(l)
    BY <1>1, <1>2
  <2>. QED
    BY <1>1, <1>3, <2>1, <2>2 DEF Present
<1>6. ASSUME NEW k \in 1..Len(l), NEW s \in Slot, s.tag # "end", slots' = [slots EXCEPT ![l[k]] = s],
             UNCHANGED <<length, sealedLength, decoder, handle>>,
             op' \in OpType, op'.name = op.name, op'.old = op.old,
             op'.pc \in {"rename", "reseal"}, op'.pc = "rename" => op'.i + 2 \in DOMAIN l
      PROVE  TypeInv'
  <2>1. /\ DeviceOK' /\ DecoderOK(decoder)' /\ HandlesOK'
        /\ OpType \subseteq OpType' /\ \A x \in Seq(DOMAIN slots) : Present(x) => Present(x)'
    BY <1>4, <1>6, EditStep
  <2>2. OpOK'
    BY <1>1, <1>2, <1>3, <1>5, <1>6, <2>1 DEF OpOK, RoomOK, At
  <2>. QED
    BY <2>1, <2>2 DEF TypeInv
<1>7. CASE RenameStream
  <2>1. PICK o \in Slot : o = slots[l[2]] /\ o.tag # "end"
    BY <1>10
  <2>2. Units[op.name] \in Nat
    BY <1>1, Parameters
  <2>3. PICK s \in Slot : s = WithLen(o, Units[op.name]) /\ s.tag = o.tag
    BY <2>2, SlotEdited
  <2>4. /\ slots' = [slots EXCEPT ![l[2]] = s] /\ UNCHANGED <<length, sealedLength, decoder, handle>>
        /\ op' = [op EXCEPT !.pc = "rename", !.i = 1]
    BY <1>2, <1>7, <2>1, <2>3 DEF RenameStream, WithLen
  <2>5. op' \in OpType /\ op'.pc = "rename" /\ op'.name = op.name /\ op'.old = op.old /\ op'.i = 1
    BY ONLY <1>1, <2>4 DEF OpType
  <2>6. 2 \in 1..Len(l) /\ op'.i + 2 \in DOMAIN l
    BY <1>3, <1>5, <2>5
  <2>. QED
    BY <1>6, <2>1, <2>3, <2>4, <2>5, <2>6
<1>8. CASE RenameSlot
  <2>1. op.pc = "rename" /\ op.i + 2 \in 1..Len(l)
    BY <1>1, <1>2, <1>3, <1>8 DEF RenameSlot, At
  <2>2. PICK s : s = NameSlot(NamePart(op.name, op.i))
    OBVIOUS
  <2>3. s \in Slot /\ s.tag = "name"
    <3>1. NamePart(op.name, op.i) \in Parts
      BY <1>1, <1>3 DEF NamePart, Parts
    <3>. QED
      BY <2>2, <3>1 DEF NameSlot, Slot, Contents
  <2>4. /\ slots' = [slots EXCEPT ![l[op.i + 2]] = s] /\ UNCHANGED <<length, sealedLength, decoder, handle>>
        /\ op' = IF op.i + 2 = Len(l) THEN [op EXCEPT !.pc = "reseal", !.i = 0] ELSE [op EXCEPT !.i = @ + 1]
    BY <1>2, <1>8, <2>2 DEF RenameSlot, SetSlot
  <2>5. CASE op.i + 2 = Len(l)
    <3>1. op' = [op EXCEPT !.pc = "reseal", !.i = 0]
      BY <2>4, <2>5
    <3>2. op' \in OpType /\ op'.pc = "reseal" /\ op'.name = op.name /\ op'.old = op.old
      BY ONLY <1>1, <3>1 DEF OpType
    <3>. QED
      BY <1>6, <2>1, <2>3, <2>4, <3>2
  <2>6. CASE op.i + 2 # Len(l)
    <3>1. PICK j \in Nat : j = op.i + 1
      BY <1>3
    <3>2. op' = [op EXCEPT !.i = j]
      BY <2>4, <2>6, <3>1
    <3>3. op' \in OpType /\ op'.pc = op.pc /\ op'.name = op.name /\ op'.old = op.old /\ op'.i = j
      BY ONLY <1>1, <3>2, j \in Nat DEF OpType
    <3>4. op'.i + 2 \in DOMAIN l
      BY <1>3, <2>1, <2>6, <3>1, <3>3
    <3>. QED
      BY <1>6, <2>1, <2>3, <2>4, <3>3, <3>4
  <2>. QED
    BY <2>5, <2>6
<1>9. CASE UpdateStream
  <2>1. PICK o \in Slot : o = slots[l[2]] /\ o.tag # "end"
    BY <1>10
  <2>2. PICK s \in Slot : s = WithData(o, op.stream) /\ s.tag = o.tag
    BY <1>3, SlotEdited
  <2>3. /\ slots' = [slots EXCEPT ![l[2]] = s] /\ UNCHANGED <<length, sealedLength, decoder, handle>>
        /\ op' = [op EXCEPT !.pc = "reseal"]
    BY <1>2, <1>9, <2>1, <2>2 DEF UpdateStream, WithData
  <2>4. op' \in OpType /\ op'.pc = "reseal" /\ op'.name = op.name /\ op'.old = op.old
    BY ONLY <1>1, <2>3 DEF OpType
  <2>5. 2 \in 1..Len(l)
    BY <1>3, <1>5
  <2>. QED
    BY <1>6, <2>1, <2>2, <2>3, <2>4, <2>5
<1>. QED
  BY <1>7, <1>8, <1>9

LEMMA TypeReseal ==
    ASSUME TypeInv, Reseal
    PROVE  TypeInv'
<1>1. /\ slots \in Seq(Slot) /\ op \in OpType /\ op.name \in Names /\ Present(op.old)
      /\ op.old # <<>> /\ HandlesOK
  BY DEF TypeInv, DeviceOK, OpOK, Reseal, At
<1>2. PICK l \in Locators : l = op.old
  BY <1>1 DEF OpType
<1>3. l \in Seq(DOMAIN slots) /\ l[1] \in DOMAIN slots /\ Present(l)
  BY <1>1, <1>2 DEF Locators
<1>4. PICK q \in Seq(Contents) : q = Checksum(SlotsAt(l))
  BY <1>1, <1>3, SlotsAtOK, ChecksumOK
<1>5. PICK o \in Slot : o = slots[l[1]]
  BY <1>1, <1>3
<1>6. PICK s \in Slot : s = WithSum(o, q) /\ s.tag = o.tag
  BY SlotEdited
<1>7. /\ slots' = [slots EXCEPT ![l[1]] = s] /\ UNCHANGED <<length, sealedLength, decoder>>
      /\ handle' = IF op.kind = "create" THEN [handle EXCEPT ![op.name] = l] ELSE handle
      /\ op' = Idle
  BY <1>2, <1>4, <1>5, <1>6 DEF Reseal, WithSum
<1>8. /\ SlotsKept /\ DeviceOK' /\ DecoderOK(decoder)'
      /\ OpType \subseteq OpType' /\ \A x \in Seq(DOMAIN slots) : Present(x) => Present(x)'
  BY <1>3, <1>5, <1>6, <1>7, EditStep
<1>9. OpOK'
  BY <1>7, <1>8, IdleOK DEF OpOK, RoomOK, Present, At
<1>10. HandlesOK'
  <2>1. \A n \in Names : handle[n] \in Locators /\ Present(handle[n])
    BY <1>1 DEF HandlesOK
  <2>2. handle' \in [Names -> Locators] /\ \A n \in Names : Present(handle'[n])
    BY <1>1, <1>3, <1>7, <2>1 DEF HandlesOK
  <2>3. handle' \in [Names -> Locators']
    BY <1>8, <2>2, Keeping
  <2>4. ASSUME NEW n \in Names PROVE Present(handle[n])'
    <3>1. PICK x : x = handle'[n]
      OBVIOUS
    <3>2. x \in Seq(DOMAIN slots) /\ Present(x)
      BY <2>2, <3>1 DEF Locators
    <3>3. Present(x)'
      BY <1>8, <3>2
    <3>. QED
      BY <3>1, <3>3 DEF Present
  <2>. QED
    BY <2>3, <2>4 DEF HandlesOK
<1>. QED
  BY <1>8, <1>9, <1>10 DEF TypeInv

LEMMA TypeRestart ==
    ASSUME TypeInv, Restart
    PROVE  TypeInv'
<1>1. DeviceOK' /\ SlotsKept
  BY DeviceKept DEF TypeInv, Restart
<1>2. PICK d : d = FreshDecoder /\ d = decoder'
  BY DEF Restart
<1>3. DecoderOK(decoder)'
  BY <1>1, <1>2, FreshOK, Keeping
<1>4. HandlesOK' /\ OpOK'
  <2>2. Idle \in OpType' /\ <<>> \in Locators'
    BY <1>1, IdleOK, Keeping DEF Locators
  <2>. QED
    BY <2>2, IdleOK DEF Restart, HandlesOK, OpOK, RoomOK, Present, At
<1>. QED
  BY <1>1, <1>3, <1>4 DEF TypeInv

LEMMA TypeStep ==
    ASSUME TypeInv, [Next]_vars
    PROVE  TypeInv'
<1>1. CASE \E n \in Names : \/ Open(n) \/ Close(n) \/ LookupFails(n)
                            \/ \E k \in 1..(MaxClusters * SectorsPerCluster) : LookupIoError(n, k)
  <2>1. \A k \in 1..(MaxClusters * SectorsPerCluster) : k \in Nat
    OBVIOUS
  <2>. QED
    BY <1>1, <2>1, TypeLookups
<1>2. CASE \E n \in Names : \/ CreateAbsent(n) \/ CreateExisting(n) \/ Remove(n)
                            \/ \E s \in Streams : Update(n, s)
  BY <1>2, TypeBegins
<1>3. CASE \E p \in Renames : Rename(p[1], p[2])
  <2>1. \A p \in Renames : p[1] \in Names /\ p[2] \in Names
    BY DirectoryAssumption
  <2>. QED
    BY <1>3, <2>1, TypeRename
<1>4. CASE Search \/ ReachEnd \/ NoSpace \/ IoError
  BY <1>4, TypeSearch
<1>5. CASE LinkCluster \/ PadOldTail \/ RecordLength \/ SealLength
  BY <1>5, TypeLink, TypePad, TypeRecord
<1>6. CASE WriteSlot \/ SealNewSet \/ RetireSlot
  BY <1>6, TypeWrite, TypeSeal, TypeRetire
<1>7. CASE RenameStream \/ RenameSlot \/ UpdateStream \/ Reseal
  BY <1>7, TypeEdits, TypeReseal
<1>8. CASE Panic \/ Crash
  BY <1>8, TypeRestart DEF Panic, Crash
<1>9. CASE UNCHANGED vars
  BY <1>9 DEF vars, TypeInv, DeviceOK, HandlesOK, OpOK, RoomOK, DecoderOK, DecoderType, OpType, Locators,
              Present, At, Wanted, OldEnd
<1>. QED
  BY <1>1, <1>2, <1>3, <1>4, <1>5, <1>6, <1>7, <1>8, <1>9 DEF Next, Step

LEMMA TypeInvariant == Spec => []TypeInv
<1>1. TypeInv /\ [Next]_vars => TypeInv'
  BY TypeStep
<1>. QED
  BY TypeInit, <1>1, PTL DEF Spec

(* Whatever the names, the sectors, the operations and the faults, the     *)
(* record stays within the chain, and every locator that an operation or a *)
(* File keeps names a slot of it.                                          *)
THEOREM TypeCorrect == Spec => []TypeOK
BY TypeInvariant, TypeInvImplies, PTL

-----------------------------------------------------------------------------
(* Sets are written where the record reaches.                              *)

(* Range evaluates its argument once.                                      *)
LEMMA RangeIs == ASSUME NEW s PROVE Range(s) = {s[i] : i \in DOMAIN s}
<1>. DEFINE Values(t) == {t[i] : i \in DOMAIN t}
            R == {Values(x) : x \in {s}}
<1>1. Range(s) = CHOOSE r \in {{t[i] : i \in DOMAIN t} : t \in {s}} : TRUE
  BY DEF Range, Apply
<1>2. R = {Values(s)} /\ R = {{t[i] : i \in DOMAIN t} : t \in {s}}
  OBVIOUS
<1>3. Range(s) = CHOOSE r \in R : TRUE
  BY <1>1
<1>. HIDE DEF R
<1>4. (CHOOSE r \in R : TRUE) \in R
  BY <1>2
<1>5. Range(s) = Values(s)
  BY <1>2, <1>3, <1>4
<1>. QED
  BY <1>5

(* The record has its checksum when a search begins; growth extends it, and *)
(* a search or a growth that ends in a set to write has sealed it.         *)
RecordInv ==
    Kind = "chained" =>
        /\ op.pc \in {"search", "link", "pad", "length"} => length = sealedLength
        /\ At("sealLength") => Len(slots) = length * SlotsPerCluster
        /\ op.pc \in {"write", "seal"} =>
               length = sealedLength /\ \A k \in DOMAIN op.locs : op.locs[k] \in 1..(length * SlotsPerCluster)

LEMMA RecordInit == Init => RecordInv
BY IdleOK DEF Init, RecordInv, At

LEMMA RecordStep ==
    ASSUME TypeInv, RecordInv, [Next]_vars
    PROVE  RecordInv'
<1>. SUFFICES ASSUME Kind = "chained" PROVE RecordInv'
  BY DEF RecordInv
<1>1. /\ op \in OpType /\ slots \in Seq(Slot) /\ ChainOK /\ length \in Nat
      /\ SlotsPerCluster \in Nat \ {0}
  BY TypeInvImplies, Parameters DEF TypeInv, DeviceOK, OpOK
<1>. DEFINE b == length * SlotsPerCluster
<1>2. b \in Nat /\ b <= Len(slots) /\ Len(slots) \in Nat
  BY <1>1 DEF ChainOK
<1>3. ASSUME op' = op, UNCHANGED device PROVE RecordInv'
  BY <1>3 DEF RecordInv, device, At
<1>4. ASSUME op'.pc \notin {"search", "link", "pad", "length", "sealLength", "write", "seal"} PROVE RecordInv'
  BY <1>4 DEF RecordInv, At
<1>5. ASSUME NEW n, Begin(n).out \in {"entry", "absent"} PROVE length = sealedLength
  <2>1. decoder \in DecoderType
    BY DEF TypeInv, DecoderOK
  <2>2. PICK e : e = WithOut(decoder, "corrupt")
    OBVIOUS
  <2>3. e.out = "corrupt"
    BY <2>1, <2>2 DEF WithOut, DecoderType
  <2>. QED
    BY <1>5, <2>2, <2>3 DEF Begin, Lookup, Reachable, WithOut
<1>6. CASE \E n \in Names : \/ Open(n) \/ Close(n) \/ LookupFails(n)
                            \/ \E k \in 1..(MaxClusters * SectorsPerCluster) : LookupIoError(n, k)
  BY <1>3, <1>6 DEF Open, Close, LookupFails, LookupIoError
<1>7. CASE \E n \in Names : CreateExisting(n) \/ Remove(n) \/ \E s \in Streams : Update(n, s)
  <2>1. op'.pc \in {"stream", "retire"}
    BY <1>7 DEF CreateExisting, Remove, Update, Idle
  <2>. QED
    BY <1>4, <2>1
<1>8. CASE \E n \in Names : CreateAbsent(n)
  <2>1. op'.pc = "search" /\ UNCHANGED device /\ length = sealedLength
    BY <1>5, <1>8 DEF CreateAbsent, Idle
  <2>. QED
    BY <2>1 DEF RecordInv, device, At
<1>9. CASE \E p \in Renames : Rename(p[1], p[2])
  <2>1. op'.pc \in {"search", "restream"} /\ UNCHANGED device /\ length = sealedLength
    BY <1>5, <1>9 DEF Rename, Idle
  <2>. QED
    BY <2>1 DEF RecordInv, device, At
<1>10. CASE Search
  <2>1. Len(LookupSlots) = b
    BY <1>1, <1>2, ClustersOK DEF LookupSlots
  <2>2. /\ op'.pc = "write" /\ Wanted \in Nat \ {0, 1, 2} /\ DOMAIN op'.locs = 1..Wanted
        /\ \E first \in Nat \ {0} : /\ first + Wanted - 1 <= b
                                    /\ \A k \in 1..Wanted : op'.locs[k] = first + k - 1
    BY <1>10, <2>1, SearchOK
  <2>3. \A k \in DOMAIN op'.locs : op'.locs[k] \in 1..b
    BY <1>2, <2>2
  <2>4. length = sealedLength /\ UNCHANGED device
    BY <1>10 DEF RecordInv, Search, At
  <2>. QED
    BY <2>2, <2>3, <2>4 DEF RecordInv, device, At
<1>11. CASE ReachEnd \/ LinkCluster
  <2>1. op'.pc \in {"link", "pad"} /\ UNCHANGED <<length, sealedLength>> /\ op.pc \in {"search", "link"}
    BY <1>1, <1>11 DEF ReachEnd, LinkCluster, device, OpType, At
  <2>. QED
    BY <2>1 DEF RecordInv, At
<1>12. CASE PadOldTail
  <2>1. op'.pc = "length" /\ UNCHANGED <<length, sealedLength>> /\ op.pc = "pad"
    BY <1>1, <1>12 DEF PadOldTail, AfterPad, OpType, At
  <2>. QED
    BY <2>1 DEF RecordInv, At
<1>13. CASE RecordLength
  <2>1. op'.pc = "sealLength" /\ length' = length + 1 /\ slots' = slots /\ op.pc = "length"
    BY <1>1, <1>13 DEF RecordLength, OpType, At
  <2>2. Len(slots) = b + SlotsPerCluster
    BY <2>1 DEF TypeInv, OpOK, RoomOK
  <2>3. (length + 1) * SlotsPerCluster = b + SlotsPerCluster
    BY <1>1
  <2>. QED
    BY <2>1, <2>2, <2>3 DEF RecordInv, At
<1>14. CASE SealLength
  <2>1. /\ UNCHANGED <<slots, length>> /\ sealedLength' = length /\ op' = AfterGrowth
        /\ op.pc = "sealLength" /\ Len(slots) = b
    BY <1>14 DEF SealLength, RecordInv, At
  <2>2. \/ op'.pc = "search"
        \/ /\ op'.pc = "write" /\ Wanted \in Nat /\ DOMAIN op'.locs = 1..Wanted
           /\ FirstLocator \in 1..OldEnd /\ FirstLocator + Wanted - 1 <= Len(slots)
           /\ \A k \in 1..Wanted : op'.locs[k] = FirstLocator + k - 1
    BY <2>1, GrowthOK
  <2>3. ASSUME op'.pc = "write", NEW k \in DOMAIN op'.locs PROVE op'.locs[k] \in 1..b
    <3>1. /\ k \in 1..Wanted /\ Wanted \in Nat /\ FirstLocator \in 1..OldEnd
          /\ FirstLocator + Wanted - 1 <= b /\ op'.locs[k] = FirstLocator + k - 1
      BY <2>1, <2>2, <2>3
    <3>2. OldEnd = b - SlotsPerCluster
      BY <2>1 DEF OldEnd
    <3>. HIDE DEF b
    <3>3. FirstLocator + k - 1 \in 1..b
      BY <1>1, <1>2, <3>1, <3>2
    <3>. QED
      BY <3>1, <3>3
  <2>. QED
    BY <2>1, <2>2, <2>3 DEF RecordInv, At
<1>15. CASE WriteSlot
  <2>1. op'.pc \in {"write", "seal"} /\ op'.locs = op.locs /\ UNCHANGED <<length, sealedLength>> /\ op.pc = "write"
    BY <1>1, <1>15 DEF WriteSlot, OpType, At
  <2>. QED
    BY <2>1 DEF RecordInv, At
<1>16. CASE NoSpace \/ SealNewSet \/ RetireSlot \/ Reseal \/ IoError \/ Panic \/ Crash
  <2>1. NoSpace \/ Reseal \/ IoError \/ Panic \/ Crash => op'.pc = "idle"
    BY DEF NoSpace, Reseal, IoError, Panic, Crash, Restart, Idle
  <2>2. SealNewSet => op'.pc \in {"idle", "retire"}
    <3>1. SealNewSet => op' = [op EXCEPT !.pc = "retire", !.i = 1] \/ op' = Idle
      BY DEF SealNewSet
    <3>2. op' = [op EXCEPT !.pc = "retire", !.i = 1] => op'.pc = "retire"
      BY ONLY <1>1 DEF OpType
    <3>. QED
      BY <3>1, <3>2, IdleOK
  <2>3. RetireSlot => op'.pc \in {"idle", "retire"}
    BY <1>1 DEF RetireSlot, AfterRetire, Idle, OpType, At
  <2>. QED
    BY <1>4, <1>16, <2>1, <2>2, <2>3
<1>17. CASE RenameStream \/ RenameSlot \/ UpdateStream
  <2>1. op'.pc \in {"rename", "reseal"}
    BY <1>1, <1>17 DEF RenameStream, RenameSlot, UpdateStream, OpType, At
  <2>. QED
    BY <1>4, <2>1
<1>18. CASE UNCHANGED vars
  BY <1>3, <1>18 DEF vars, device
<1>. QED
  BY <1>6, <1>7, <1>8, <1>9, <1>10, <1>11, <1>12, <1>13, <1>14, <1>15, <1>16, <1>17, <1>18 DEF Next, Step

LEMMA RecordInvariant == Spec => []RecordInv
<1>1. TypeInv /\ RecordInv /\ [Next]_vars => RecordInv'
  BY RecordStep
<1>. QED
  BY RecordInit, TypeInvariant, <1>1, PTL DEF Spec

(* A set in a subdirectory is only written where the directory's own       *)
(* record, checksum included, already reaches, whatever was cut short      *)
(* before.                                                                 *)
THEOREM WritesWithinRecord == Spec => []WrittenWithinRecord
<1>1. TypeInv /\ RecordInv => WrittenWithinRecord
  BY RangeIs DEF RecordInv, WrittenWithinRecord
<1>. QED
  BY <1>1, TypeInvariant, RecordInvariant, PTL

-----------------------------------------------------------------------------
(* End markers.                                                            *)

(* Growth pads one sector: the slots that were never used have to fit it.  *)
(* They do when every set does, and in a subdirectory whose clusters are   *)
(* one sector when only the last cluster has such slots.                   *)
InitialEndsLast ==
    \A i \in DOMAIN InitialSlots : InitialSlots[i].tag = "end" =>
        \A j \in i..Len(InitialSlots) : InitialSlots[j].tag = "end"
SetsFitSector == \A n \in Names : SetSize(n) <= SlotsPerSector
LastClusterEnds ==
    /\ Kind = "chained" /\ SectorsPerCluster = 1
    /\ \A i \in 1..(Len(InitialSlots) - SlotsPerCluster) : InitialSlots[i].tag # "end"

NoEnd(n) == \A i \in DOMAIN slots : i <= n => slots[i].tag # "end"

(* No end marker where growth is about to leave it behind, or where a set  *)
(* has been written.                                                       *)
EndsInv ==
    /\ EndMarkersLast
    /\ LastClusterEnds => NoEnd(length * SlotsPerCluster - SlotsPerCluster)
    /\ At("link") => NoEnd(Len(slots) - SlotsPerSector)
    /\ At("pad") => NoEnd(OldEnd - SlotsPerSector)
    /\ op.pc \in {"length", "sealLength"} => NoEnd(OldEnd)
    /\ At("write") => /\ NoEnd(op.locs[op.i] - 1)
                      /\ \A k \in DOMAIN op.locs : op.locs[k] = op.locs[1] + k - 1

LEMMA EndsInit ==
    ASSUME InitialEndsLast, Init
    PROVE  EndsInv
<1>1. EndMarkersLast
  BY DEF InitialEndsLast, Init, EndMarkersLast
<1>2. ASSUME LastClusterEnds PROVE NoEnd(length * SlotsPerCluster - SlotsPerCluster)
  <2>. DEFINE n == Len(InitialSlots)
              b == SlotsPerCluster
  <2>1. n \in Nat /\ b \in Nat \ {0} /\ length = n \div b /\ slots = InitialSlots
    BY ContentsAssumption, Parameters DEF Init
  <2>2. (n \div b) * b <= n /\ n \div b \in Nat
    <3>. HIDE DEF n, b
    <3>. QED
      BY <2>1
  <2>3. DOMAIN slots = 1..n
    BY <2>1, ContentsAssumption
  <2>. DEFINE p == length * b
  <2>4. p \in Nat /\ p <= n
    BY <2>1, <2>2
  <2>5. \A i \in 1..(n - b) : slots[i].tag # "end"
    BY <1>2, <2>1 DEF LastClusterEnds
  <2>6. NoEnd(p - b)
    <3>. HIDE DEF p, n, b
    <3>. QED
      BY <2>1, <2>3, <2>4, <2>5 DEF NoEnd
  <2>. QED
    BY <2>6
<1>3. op.pc = "idle"
  BY IdleOK DEF Init
<1>. QED
  BY <1>1, <1>2, <1>3 DEF EndsInv, At

(* Nothing became an end marker, nor ceased to be one.                     *)
EndsKept ==
    /\ slots \in Seq(Slot) /\ slots' \in Seq(Slot) /\ Len(slots') = Len(slots)
    /\ \A i \in DOMAIN slots : slots'[i].tag = "end" <=> slots[i].tag = "end"

LEMMA EndsKeptNo ==
    ASSUME EndsKept, NEW n, NoEnd(n)
    PROVE  NoEnd(n)'
BY DEF EndsKept, NoEnd

LEMMA EndsKeptInv ==
    ASSUME EndsKept, EndsInv, length' = length,
           op'.pc \notin {"link", "pad", "length", "sealLength", "write"}
    PROVE  EndsInv'
<1>1. DOMAIN slots = 1..Len(slots) /\ DOMAIN slots' = 1..Len(slots) /\ Len(slots) \in Nat
  BY DEF EndsKept
<1>2. EndMarkersLast'
  BY <1>1 DEF EndsInv, EndsKept, EndMarkersLast
<1>3. LastClusterEnds => NoEnd(length * SlotsPerCluster - SlotsPerCluster)'
  BY EndsKeptNo DEF EndsInv
<1>. QED
  BY <1>2, <1>3 DEF EndsInv, At

(* The slots that were never used end the tail run.                        *)
LEMMA EndsInTail ==
    ASSUME EndMarkersLast, slots \in Seq(Slot), NEW view, ViewOK(view), Len(view) = Len(slots)
    PROVE  NoEnd(Len(slots) - TailRun(view))
<1>. DEFINE n == Len(view)
            r == TailRun(view)
<1>1. n \in Nat /\ DOMAIN slots = 1..n /\ \A i \in 1..n : view[i] = slots[i]
  BY DEF ViewOK
<1>2. r \in 0..n /\ (r < n => view[n - r].used)
  BY TailOK
<1>. HIDE DEF r
<1>3. ASSUME NEW i \in 1..n, i <= n - r, slots[i].tag = "end" PROVE FALSE
  <2>1. r < n /\ n - r \in i..n /\ n - r \in 1..n
    BY <1>1, <1>2, <1>3
  <2>2. slots[n - r].tag = "end" /\ slots[n - r].used
    BY <1>1, <1>2, <1>3, <2>1 DEF EndMarkersLast
  <2>3. slots[n - r] \in Slot
    BY <1>1, <2>1
  <2>. QED
    BY <2>2, <2>3, SlotFields
<1>. QED
  BY <1>1, <1>3 DEF NoEnd, r

(* One slot is written, and is no end marker or was none.                  *)
LEMMA EditEnds ==
    ASSUME TypeInv, NEW i \in DOMAIN slots, NEW s \in Slot, slots' = [slots EXCEPT ![i] = s],
           s.tag = "end" <=> slots[i].tag = "end"
    PROVE  EndsKept
<1>1. slots \in Seq(Slot)
  BY DEF TypeInv, DeviceOK
<1>2. SlotsKept /\ Len(slots') = Len(slots) /\ slots'[i] = s /\ \A j \in DOMAIN slots : j # i => slots'[j] = slots[j]
  BY <1>1, EditKept
<1>. QED
  BY <1>2 DEF EndsKept, SlotsKept

(* The edits of a set, each of which finds its slot in use.                *)
LEMMA EditsKeepEnds ==
    ASSUME TypeInv, SealNewSet \/ RetireSlot \/ RenameStream \/ RenameSlot \/ UpdateStream \/ Reseal
    PROVE  EndsKept
<1>1. slots \in Seq(Slot) /\ op \in OpType /\ Present(op.old) /\ OpOK
  BY DEF TypeInv, DeviceOK, OpOK
<1>2. PICK l \in Locators, m \in Locators : l = op.locs /\ m = op.old
  BY <1>1 DEF OpType
<1>3. /\ l \in Seq(DOMAIN slots) /\ m \in Seq(DOMAIN slots) /\ op.stream \in Stream /\ op.i \in Nat
      /\ m # <<>> => Len(m) >= 3
  BY <1>1, <1>2 DEF Locators, OpType
<1>4. /\ \A k \in DOMAIN l : l[k] \in DOMAIN slots /\ slots[l[k]] \in Slot
      /\ \A k \in DOMAIN m : m[k] \in DOMAIN slots /\ slots[m[k]] \in Slot /\ slots[m[k]].tag # "end"
      /\ l # <<>> => 1 \in DOMAIN l
      /\ m # <<>> => 1 \in DOMAIN m /\ 2 \in DOMAIN m
  BY <1>1, <1>2, <1>3 DEF Present
<1>5. CASE SealNewSet
  <2>1. l # <<>> /\ op.name \in Names
    BY <1>1, <1>2, <1>5 DEF OpOK, SealNewSet, At
  <2>2. PICK q \in Seq(Contents) : q = Checksum(NewSet(op.name, op.stream))
    BY <1>3, <2>1, NewSetOK
  <2>3. PICK o \in Slot : o = slots[l[1]]
    BY <1>4, <2>1
  <2>4. PICK s \in Slot : s = WithSum(o, q) /\ s.tag = o.tag
    BY SlotEdited
  <2>5. slots' = [slots EXCEPT ![l[1]] = s]
    BY <1>2, <1>5, <2>2, <2>3, <2>4 DEF SealNewSet, WithSum
  <2>. QED
    BY <1>4, <2>1, <2>3, <2>4, <2>5, EditEnds
<1>6. CASE RetireSlot
  <2>1. PICK j \in DOMAIN m : j = op.i
    BY <1>1, <1>2, <1>6 DEF OpOK, RetireSlot, At
  <2>2. PICK o \in Slot : o = slots[m[j]]
    BY <1>4
  <2>3. PICK s \in Slot : s = Unused(o) /\ s.tag = o.tag
    BY SlotEdited
  <2>4. slots' = [slots EXCEPT ![m[j]] = s]
    BY <1>2, <1>6, <2>1, <2>2, <2>3 DEF RetireSlot, Retired, Unused
  <2>. QED
    BY <1>4, <2>2, <2>3, <2>4, EditEnds
<1>7. CASE RenameStream
  <2>1. m # <<>> /\ op.name \in Names
    BY <1>1, <1>2, <1>7 DEF OpOK, RenameStream, At
  <2>2. PICK o \in Slot : o = slots[m[2]]
    BY <1>4, <2>1
  <2>3. Units[op.name] \in Nat
    BY <2>1, Parameters
  <2>4. PICK s \in Slot : s = WithLen(o, Units[op.name]) /\ s.tag = o.tag
    BY <2>3, SlotEdited
  <2>5. slots' = [slots EXCEPT ![m[2]] = s]
    BY <1>2, <1>7, <2>2, <2>4 DEF RenameStream, WithLen
  <2>. QED
    BY <1>4, <2>1, <2>2, <2>4, <2>5, EditEnds
<1>8. CASE RenameSlot
  <2>1. PICK j \in DOMAIN m : j = op.i + 2
    BY <1>1, <1>2, <1>8 DEF OpOK, RenameSlot, At
  <2>2. PICK s : s = NameSlot(NamePart(op.name, op.i))
    OBVIOUS
  <2>3. s \in Slot /\ s.tag = "name"
    <3>1. NamePart(op.name, op.i) \in Parts
      BY <1>1, <1>3, <1>8 DEF NamePart, Parts, OpOK, RenameSlot, At
    <3>. QED
      BY <2>2, <3>1 DEF NameSlot, Slot, Contents
  <2>4. slots' = [slots EXCEPT ![m[j]] = s]
    BY <1>2, <1>8, <2>1, <2>2 DEF RenameSlot, SetSlot
  <2>. QED
    BY <1>4, <2>3, <2>4, EditEnds
<1>9. CASE UpdateStream
  <2>1. m # <<>>
    BY <1>1, <1>2, <1>9 DEF OpOK, UpdateStream, At
  <2>2. PICK o \in Slot : o = slots[m[2]]
    BY <1>4, <2>1
  <2>3. PICK s \in Slot : s = WithData(o, op.stream) /\ s.tag = o.tag
    BY <1>3, SlotEdited
  <2>4. slots' = [slots EXCEPT ![m[2]] = s]
    BY <1>2, <1>9, <2>2, <2>3 DEF UpdateStream, WithData
  <2>. QED
    BY <1>4, <2>1, <2>2, <2>3, <2>4, EditEnds
<1>10. CASE Reseal
  <2>1. m # <<>>
    BY <1>1, <1>2, <1>10 DEF OpOK, Reseal, At
  <2>2. PICK q \in Seq(Contents) : q = Checksum(SlotsAt(m))
    BY <1>1, <1>3, SlotsAtOK, ChecksumOK
  <2>3. PICK o \in Slot : o = slots[m[1]]
    BY <1>4, <2>1
  <2>4. PICK s \in Slot : s = WithSum(o, q) /\ s.tag = o.tag
    BY SlotEdited
  <2>5. slots' = [slots EXCEPT ![m[1]] = s]
    BY <1>2, <1>10, <2>2, <2>3, <2>4 DEF Reseal, WithSum
  <2>. QED
    BY <1>4, <2>1, <2>3, <2>4, <2>5, EditEnds
<1>. QED
  BY <1>5, <1>6, <1>7, <1>8, <1>9, <1>10

(* Growth that is over leaves no end marker before the new cluster.        *)
LEMMA EndsGrown ==
    ASSUME TypeInv, op.pc \in {"pad", "sealLength"}, op' = AfterGrowth, Len(slots') = Len(slots),
           slots' \in Seq(Slot), NoEnd(OldEnd)'
    PROVE  At("write")' => /\ NoEnd(op.locs[op.i] - 1)'
                           /\ \A k \in DOMAIN op'.locs : op'.locs[k] = op'.locs[1] + k - 1
<1>1. \/ op'.pc = "search"
      \/ /\ op'.pc = "write" /\ op'.i = 1 /\ Wanted \in Nat \ {0, 1, 2} /\ DOMAIN op'.locs = 1..Wanted
         /\ FirstLocator \in 1..OldEnd /\ \A k \in 1..Wanted : op'.locs[k] = FirstLocator + k - 1
  BY GrowthOK
<1>2. Len(slots) \in Nat /\ SlotsPerCluster \in Nat /\ DOMAIN slots' = 1..Len(slots)
  <2>1. slots \in Seq(Slot) /\ SlotsPerCluster \in Nat
    BY Parameters DEF TypeInv, DeviceOK
  <2>. QED
    BY <2>1
<1>3. OldEnd' = OldEnd
  BY DEF OldEnd
<1>4. SUFFICES ASSUME op'.pc = "write"
               PROVE  /\ NoEnd(op.locs[op.i] - 1)'
                      /\ \A k \in DOMAIN op'.locs : op'.locs[k] = op'.locs[1] + k - 1
  BY DEF At
<1>5. PICK f \in 1..OldEnd : f = FirstLocator
  BY <1>1, <1>4
<1>6. OldEnd \in Nat /\ f \in Nat /\ f <= OldEnd
  BY <1>2, <1>5 DEF OldEnd
<1>7. op'.i = 1 /\ 1 \in 1..Wanted /\ \A k \in 1..Wanted : op'.locs[k] = f + k - 1
  BY <1>1, <1>4, <1>5
<1>8. op'.locs[op'.i] = f
  BY <1>6, <1>7
<1>9. \A i \in DOMAIN slots' : i <= OldEnd => slots'[i].tag # "end"
  BY <1>3 DEF NoEnd
<1>10. \A i \in DOMAIN slots' : i <= f - 1 => slots'[i].tag # "end"
  BY <1>2, <1>6, <1>9
<1>11. \A k \in DOMAIN op'.locs : op'.locs[k] = op'.locs[1] + k - 1
  BY <1>1, <1>4, <1>6, <1>7, <1>8
<1>. QED
  BY <1>8, <1>10, <1>11 DEF NoEnd

(* A search takes the first room there is, and so leaves no end marker     *)
(* before it.                                                              *)
LEMMA EndsSearch ==
    ASSUME TypeInv, EndsInv, Search
    PROVE  EndsInv'
<1>1. PICK first \in FreeStarts(LookupSlots) :
          /\ first \in Nat \ {0} /\ first + Wanted - 1 <= Len(LookupSlots)
          /\ \A k \in 1..Wanted : op'.locs[k] = first + k - 1
          /\ \A i \in FreeStarts(LookupSlots) : first <= i
  BY SearchOK
<1>2. /\ op'.pc = "write" /\ op'.i = 1 /\ Wanted \in Nat \ {0, 1, 2} /\ DOMAIN op'.locs = 1..Wanted
      /\ ViewOK(LookupSlots)
  BY SearchOK
<1>3. slots' = slots /\ length' = length /\ slots \in Seq(Slot) /\ EndMarkersLast
  BY DEF Search, device, TypeInv, DeviceOK, EndsInv
<1>4. PICK view : view = LookupSlots
  OBVIOUS
<1>5. /\ Len(view) \in Nat /\ Len(view) <= Len(slots) /\ Len(slots) \in Nat /\ DOMAIN slots = 1..Len(slots)
      /\ \A i \in 1..Len(view) : view[i] = slots[i]
  BY <1>2, <1>3, <1>4 DEF ViewOK
<1>6. ASSUME NEW j \in DOMAIN slots, j <= first - 1, slots[j].tag = "end" PROVE FALSE
  <2>1. j \in 1..Len(view) /\ j + Wanted - 1 <= Len(view)
    BY <1>1, <1>2, <1>4, <1>5, <1>6
  <2>2. \A k \in j..(j + Wanted - 1) : k \in 1..Len(view) /\ k \in j..Len(slots) /\ k \in DOMAIN slots
    BY <1>2, <1>5, <2>1
  <2>3. \A k \in j..(j + Wanted - 1) : slots[k].tag = "end" /\ slots[k] \in Slot
    BY <1>3, <1>6, <2>2 DEF EndMarkersLast
  <2>4. \A k \in j..(j + Wanted - 1) : ~view[k].used
    BY <1>5, <2>2, <2>3, SlotFields
  <2>5. j \in FreeStarts(view)
    BY <2>1, <2>4 DEF FreeStarts
  <2>. QED
    BY <1>1, <1>4, <1>5, <1>6, <2>1, <2>5
<1>7. op'.locs[op'.i] = first /\ op'.locs[1] = first
  BY <1>1, <1>2
<1>8. NoEnd(op.locs[op.i] - 1)'
  BY <1>3, <1>6, <1>7 DEF NoEnd
<1>9. \A k \in DOMAIN op'.locs : op'.locs[k] = op'.locs[1] + k - 1
  BY <1>1, <1>2, <1>7
<1>10. EndMarkersLast' /\ (LastClusterEnds => NoEnd(length * SlotsPerCluster - SlotsPerCluster)')
  BY <1>3 DEF EndsInv, EndMarkersLast, NoEnd
<1>. QED
  BY <1>2, <1>8, <1>9, <1>10 DEF EndsInv, At

(* What growth relies on: the slots of the tail that were never used fit   *)
(* in its last sector.                                                     *)
Fits == Kind = "contiguous" \/ SetsFitSector \/ LastClusterEnds

LEMMA EndsReachEnd ==
    ASSUME TypeInv, EndsInv, ReachEnd, Fits
    PROVE  EndsInv'
<1>1. /\ slots' = slots /\ length' = length /\ slots \in Seq(Slot) /\ op \in OpType /\ op.name \in Names
      /\ EndMarkersLast /\ ChainOK /\ CanGrow /\ FreeStarts(LookupSlots) = {}
  BY TypeInvImplies DEF ReachEnd, device, TypeInv, DeviceOK, EndsInv, OpOK, At
<1>2. PICK view : view = LookupSlots
  OBVIOUS
<1>3. Len(view) = Len(slots) /\ ViewOK(view)
  BY <1>1, <1>2, ViewsOK, ClustersOK DEF CanGrow, LookupSlots, ChainOK
<1>4. PICK r : r = TailRun(view)
  OBVIOUS
<1>5. r \in 0..Len(view) /\ (\A j \in (Len(view) - r + 1)..Len(view) : ~view[j].used) /\ NoEnd(Len(slots) - r)
  BY <1>1, <1>3, <1>4, TailOK, EndsInTail
<1>6. /\ Len(slots) \in Nat /\ DOMAIN slots = 1..Len(slots) /\ SlotsPerSector \in Nat \ {0}
      /\ Wanted \in Nat \ {0} /\ SlotsPerCluster \in Nat /\ length \in Nat
  BY <1>1, Parameters DEF Wanted, ChainOK
<1>7. r < Wanted
  <2>1. SUFFICES ASSUME r >= Wanted PROVE FALSE
    BY <1>3, <1>5, <1>6
  <2>. DEFINE i == Len(view) - r + 1
  <2>2. i \in 1..Len(view) /\ i + Wanted - 1 <= Len(view)
    BY <1>3, <1>5, <1>6, <2>1
  <2>3. \A j \in i..(i + Wanted - 1) : j \in i..Len(view)
    BY <1>3, <1>6, <2>2
  <2>4. i \in FreeStarts(view)
    BY <1>5, <2>2, <2>3 DEF FreeStarts
  <2>. QED
    BY <1>1, <1>2, <2>4
<1>8. NoEnd(Len(slots) - SlotsPerSector)
  <2>1. CASE SetsFitSector
    <3>1. r < SlotsPerSector
      BY <1>1, <1>3, <1>5, <1>6, <1>7, <2>1 DEF SetsFitSector, Wanted
    <3>. QED
      BY <1>3, <1>5, <1>6, <3>1 DEF NoEnd
  <2>2. CASE LastClusterEnds
    <3>1. Kind = "chained" /\ SlotsPerSector = SlotsPerCluster
      BY <1>6, <2>2 DEF LastClusterEnds, SlotsPerCluster
    <3>2. Len(slots) = length * SlotsPerCluster
      BY <1>1, <3>1 DEF CanGrow
    <3>. QED
      BY <2>2, <3>1, <3>2 DEF EndsInv
  <2>3. CASE Kind = "contiguous"
    BY <1>1, <2>3 DEF CanGrow
  <2>. QED
    BY <2>1, <2>2, <2>3 DEF Fits
<1>9. op'.pc = "link"
  <2>1. op' = [op EXCEPT !.pc = "link", !.run = TailRun(LookupSlots)]
    BY DEF ReachEnd
  <2>. QED
    BY ONLY <1>1, <2>1 DEF OpType
<1>10. NoEnd(Len(slots) - SlotsPerSector)'
  BY <1>1, <1>8 DEF NoEnd
<1>11. EndMarkersLast' /\ (LastClusterEnds => NoEnd(length * SlotsPerCluster - SlotsPerCluster)')
  BY <1>1 DEF EndsInv, EndMarkersLast, NoEnd
<1>. QED
  BY <1>9, <1>10, <1>11 DEF EndsInv, At

(* The new cluster consists of end markers.                                *)
LEMMA Linked ==
    ASSUME slots \in Seq(Slot), LinkCluster
    PROVE  /\ slots' \in Seq(Slot) /\ Len(slots') = Len(slots) + SlotsPerCluster
           /\ \A i \in DOMAIN slots : slots'[i] = slots[i]
           /\ \A i \in DOMAIN slots' : i > Len(slots) => slots'[i].tag = "end"
<1>. DEFINE b == SlotsPerCluster
            e == [i \in 1..b |-> EndSlot]
            S == Slot
<1>1. b \in Nat \ {0} /\ EndSlot \in S /\ EndSlot.tag = "end"
  BY Parameters DEF EndSlot, Slot, Contents
<1>2. slots' = slots \o e /\ slots \in Seq(S)
  BY DEF LinkCluster
<1>. HIDE DEF b, S
<1>3. e \in Seq(S) /\ Len(e) = b /\ \A i \in 1..b : e[i] = EndSlot
  BY <1>1
<1>. HIDE DEF e
<1>4. PICK s \in Seq(S), t \in Seq(S) : s = slots /\ t = e
  BY <1>2, <1>3
<1>5. /\ s \o t \in Seq(S) /\ Len(s \o t) = Len(s) + Len(t)
      /\ \A i \in 1..(Len(s) + Len(t)) : (s \o t)[i] = IF i <= Len(s) THEN s[i] ELSE t[i - Len(s)]
  BY ONLY s \in Seq(S), t \in Seq(S), Seqs!ConcatProperties
<1>6. Len(s) \in Nat /\ Len(t) \in Nat /\ DOMAIN s = 1..Len(s) /\ DOMAIN (s \o t) = 1..(Len(s) + Len(t))
  BY <1>5
<1>7. \A i \in DOMAIN s : (s \o t)[i] = s[i]
  BY <1>5, <1>6
<1>8. \A i \in DOMAIN (s \o t) : i > Len(s) => (s \o t)[i] = t[i - Len(s)] /\ i - Len(s) \in 1..Len(t)
  BY <1>5, <1>6
<1>9. \A i \in DOMAIN slots' : i > Len(slots) => slots'[i] = EndSlot
  BY <1>2, <1>3, <1>4, <1>8
<1>. QED
  BY <1>1, <1>2, <1>3, <1>4, <1>5, <1>7, <1>9 DEF b, S

LEMMA EndsLink ==
    ASSUME TypeInv, EndsInv, LinkCluster
    PROVE  EndsInv'
<1>1. /\ slots \in Seq(Slot) /\ op \in OpType /\ At("link") /\ EndMarkersLast /\ length' = length /\ length \in Nat
      /\ NoEnd(Len(slots) - SlotsPerSector) /\ (Kind # "root" => Len(slots) = length * SlotsPerCluster)
      /\ (LastClusterEnds => NoEnd(length * SlotsPerCluster - SlotsPerCluster))
  BY DEF LinkCluster, TypeInv, DeviceOK, EndsInv, OpOK, RoomOK, At
<1>2. /\ Len(slots') = Len(slots) + SlotsPerCluster /\ slots' \in Seq(Slot)
      /\ \A i \in DOMAIN slots : slots'[i] = slots[i]
      /\ \A i \in DOMAIN slots' : i > Len(slots) => slots'[i].tag = "end"
  BY <1>1, Linked
<1>3. /\ Len(slots) \in Nat /\ DOMAIN slots = 1..Len(slots) /\ SlotsPerSector \in Nat \ {0}
      /\ SlotsPerCluster \in Nat \ {0} /\ DOMAIN slots' = 1..Len(slots')
  BY <1>1, <1>2, Parameters
<1>4. OldEnd' = Len(slots)
  BY <1>2, <1>3 DEF OldEnd
<1>5. ASSUME NEW i \in DOMAIN slots', slots'[i].tag = "end", NEW j \in i..Len(slots') PROVE slots'[j].tag = "end"
  <2>1. i \in Nat /\ j \in DOMAIN slots'
    BY <1>2, <1>3, <1>5
  <2>2. CASE j > Len(slots)
    BY <1>2, <2>1, <2>2
  <2>3. CASE ~(j > Len(slots))
    <3>1. i \in DOMAIN slots /\ j \in i..Len(slots) /\ j \in DOMAIN slots
      BY <1>2, <1>3, <1>5, <2>1, <2>3
    <3>. QED
      BY <1>1, <1>2, <1>5, <3>1 DEF EndMarkersLast
  <2>. QED
    BY <2>2, <2>3
<1>6. NoEnd(OldEnd - SlotsPerSector)'
  <2>1. ASSUME NEW i \in DOMAIN slots', i <= Len(slots) - SlotsPerSector
        PROVE  i \in DOMAIN slots /\ slots[i].tag # "end"
    <3>1. i \in DOMAIN slots
      BY <1>2, <1>3, <2>1
    <3>. QED
      BY <1>1, <2>1, <3>1 DEF NoEnd
  <2>. QED
    BY <1>2, <1>4, <2>1 DEF NoEnd
<1>7. ASSUME LastClusterEnds PROVE NoEnd(length * SlotsPerCluster - SlotsPerCluster)'
  <2>1. Len(slots) = length * SlotsPerCluster /\ NoEnd(Len(slots) - SlotsPerCluster)
    BY <1>1, <1>7 DEF LastClusterEnds
  <2>2. \A i \in DOMAIN slots' : i <= Len(slots) - SlotsPerCluster => i \in DOMAIN slots /\ slots[i].tag # "end"
    BY <1>2, <1>3, <2>1 DEF NoEnd
  <2>. QED
    BY <1>1, <1>2, <2>1, <2>2 DEF NoEnd
<1>8. op'.pc = "pad"
  <2>1. op' = [op EXCEPT !.pc = "pad"]
    BY DEF LinkCluster
  <2>. QED
    BY ONLY <1>1, <2>1 DEF OpType
<1>9. EndMarkersLast'
  BY <1>5 DEF EndMarkersLast
<1>. QED
  BY <1>6, <1>7, <1>8, <1>9 DEF EndsInv, At

(* The old tail's last sector is padded, and nothing before it was an end  *)
(* marker.                                                                 *)
LEMMA EndsPad ==
    ASSUME TypeInv, EndsInv, PadOldTail
    PROVE  EndsInv'
<1>1. /\ slots \in Seq(Slot) /\ op \in OpType /\ At("pad") /\ EndMarkersLast /\ length' = length
      /\ NoEnd(OldEnd - SlotsPerSector)
      /\ (LastClusterEnds => NoEnd(length * SlotsPerCluster - SlotsPerCluster))
      /\ slots' = [i \in DOMAIN slots |-> Padded(i)] /\ op' = AfterPad
      /\ Len(slots) >= 2 * SlotsPerCluster
  BY DEF PadOldTail, TypeInv, DeviceOK, EndsInv, OpOK, RoomOK, At
<1>2. /\ SlotsKept /\ Len(slots') = Len(slots) /\ DOMAIN slots' = DOMAIN slots
      /\ \A i \in DOMAIN slots : slots'[i] = Padded(i)
  BY <1>1, PaddedKept
<1>3. /\ Len(slots) \in Nat /\ DOMAIN slots = 1..Len(slots) /\ SlotsPerSector \in Nat \ {0}
      /\ SlotsPerCluster \in Nat \ {0} /\ slots' \in Seq(Slot) /\ OldEnd \in Nat /\ OldEnd' = OldEnd
  BY <1>1, <1>2, Parameters DEF OldEnd, SlotsKept
<1>4. ASSUME NEW i \in DOMAIN slots, i <= OldEnd PROVE slots'[i].tag # "end"
  <2>1. CASE i <= OldEnd - SlotsPerSector
    <3>1. slots[i].tag # "end"
      BY <1>1, <2>1 DEF NoEnd
    <3>. QED
      BY <1>2, <3>1 DEF SlotsKept
  <2>2. CASE ~(i <= OldEnd - SlotsPerSector)
    <3>1. i \in (OldEnd - SlotsPerSector + 1)..OldEnd
      BY <1>3, <1>4, <2>2
    <3>2. slots'[i] = PadSlot \/ slots[i].tag # "end"
      BY <1>2, <3>1 DEF Padded
    <3>. QED
      BY <1>2, <3>2 DEF SlotsKept, PadSlot
  <2>. QED
    BY <2>1, <2>2
<1>5. NoEnd(OldEnd)'
  BY <1>2, <1>3, <1>4 DEF NoEnd
<1>6. \A i \in DOMAIN slots : i > OldEnd => slots'[i] = slots[i]
  BY <1>2, <1>3 DEF Padded
<1>7. ASSUME NEW i \in DOMAIN slots', slots'[i].tag = "end", NEW j \in i..Len(slots') PROVE slots'[j].tag = "end"
  <2>1. i \in DOMAIN slots /\ i > OldEnd /\ j \in DOMAIN slots /\ j > OldEnd /\ j \in i..Len(slots)
    BY <1>2, <1>3, <1>4, <1>7
  <2>. QED
    BY <1>1, <1>6, <1>7, <2>1 DEF EndMarkersLast
<1>8. EndMarkersLast'
  BY <1>7 DEF EndMarkersLast
<1>9. LastClusterEnds => NoEnd(length * SlotsPerCluster - SlotsPerCluster)'
  BY <1>1, <1>2 DEF NoEnd, SlotsKept
<1>10. CASE Kind = "root"
  <2>1. op' = AfterGrowth /\ op.pc \in {"pad", "sealLength"}
    BY <1>1, <1>10 DEF AfterPad, At
  <2>2. op'.pc \in {"search", "write"}
    BY <2>1, GrowthOK
  <2>3. At("write")' => /\ NoEnd(op.locs[op.i] - 1)'
                        /\ \A k \in DOMAIN op'.locs : op'.locs[k] = op'.locs[1] + k - 1
    BY <1>2, <1>3, <1>5, <2>1, EndsGrown
  <2>. QED
    BY <1>8, <1>9, <2>2, <2>3 DEF EndsInv, At
<1>11. CASE Kind # "root"
  <2>1. op' = [op EXCEPT !.pc = "length"]
    BY <1>1, <1>11 DEF AfterPad
  <2>2. op'.pc = "length"
    BY ONLY <1>1, <2>1 DEF OpType
  <2>. QED
    BY <1>5, <1>8, <1>9, <2>2 DEF EndsInv, At
<1>. QED
  BY <1>10, <1>11

LEMMA EndsRecord ==
    ASSUME TypeInv, EndsInv, RecordLength \/ SealLength
    PROVE  EndsInv'
<1>1. /\ slots \in Seq(Slot) /\ op \in OpType /\ EndMarkersLast /\ NoEnd(OldEnd) /\ slots' = slots
      /\ (LastClusterEnds => NoEnd(length * SlotsPerCluster - SlotsPerCluster)) /\ length \in Nat
  BY DEF RecordLength, SealLength, TypeInv, DeviceOK, EndsInv, OpOK, At
<1>2. EndMarkersLast' /\ NoEnd(OldEnd)'
  BY <1>1 DEF EndMarkersLast, NoEnd, OldEnd
<1>3. CASE RecordLength
  <2>1. op' = [op EXCEPT !.pc = "sealLength"] /\ length' = length + 1 /\ At("length")
    BY <1>3 DEF RecordLength
  <2>2. op'.pc = "sealLength"
    BY ONLY <1>1, <2>1 DEF OpType
  <2>3. ASSUME LastClusterEnds PROVE NoEnd(length * SlotsPerCluster - SlotsPerCluster)'
    <3>. DEFINE b == SlotsPerCluster
    <3>1. b \in Nat /\ length' = length + 1
      BY <2>1, Parameters
    <3>2. Len(slots) = length * b + b
      BY <2>1, <2>3 DEF LastClusterEnds, TypeInv, OpOK, RoomOK, At
    <3>3. length' * b - b = length * b /\ OldEnd = length * b
      <4>1. OldEnd = Len(slots) - b
        BY DEF OldEnd
      <4>2. length * b \in Nat /\ (length + 1) * b = length * b + b
        BY <1>1, <3>1
      <4>. QED
        BY <3>1, <3>2, <4>1, <4>2
    <3>. QED
      BY <1>1, <3>3 DEF NoEnd
  <2>. QED
    BY <1>2, <2>2, <2>3 DEF EndsInv, At
<1>4. CASE SealLength
  <2>1. op' = AfterGrowth /\ op.pc \in {"pad", "sealLength"} /\ length' = length
    BY <1>4 DEF SealLength, At
  <2>2. op'.pc \in {"search", "write"}
    BY <2>1, GrowthOK
  <2>3. At("write")' => /\ NoEnd(op.locs[op.i] - 1)'
                        /\ \A k \in DOMAIN op'.locs : op'.locs[k] = op'.locs[1] + k - 1
    BY <1>1, <1>2, <2>1, EndsGrown
  <2>4. LastClusterEnds => NoEnd(length * SlotsPerCluster - SlotsPerCluster)'
    BY <1>1, <2>1 DEF NoEnd
  <2>. QED
    BY <1>2, <2>2, <2>3, <2>4 DEF EndsInv, At
<1>. QED
  BY <1>3, <1>4

(* A set is written front to back, from before the first end marker on.    *)
LEMMA EndsWrite ==
    ASSUME TypeInv, EndsInv, WriteSlot
    PROVE  EndsInv'
<1>1. /\ slots \in Seq(Slot) /\ op \in OpType /\ At("write") /\ EndMarkersLast /\ length' = length /\ length \in Nat
      /\ op.i \in DOMAIN op.locs /\ Len(op.locs) = Wanted /\ op.name \in Names
      /\ (LastClusterEnds => NoEnd(length * SlotsPerCluster - SlotsPerCluster))
      /\ NoEnd(op.locs[op.i] - 1) /\ \A k \in DOMAIN op.locs : op.locs[k] = op.locs[1] + k - 1
  BY DEF WriteSlot, TypeInv, DeviceOK, EndsInv, OpOK, At
<1>2. PICK l \in Locators, j \in Nat : l = op.locs /\ j = op.i
  BY <1>1 DEF OpType
<1>3. /\ l \in Seq(DOMAIN slots) /\ j \in DOMAIN l /\ Len(l) = Wanted /\ DOMAIN slots \subseteq Nat
      /\ DOMAIN slots = 1..Len(slots) /\ Len(slots) \in Nat
      /\ \A k \in DOMAIN l : l[k] = l[1] + k - 1
  BY <1>1, <1>2 DEF Locators
<1>4. op.stream \in Stream /\ Wanted \in Nat
  BY <1>1, Parameters DEF OpType, Wanted
<1>5. DOMAIN l = 1..Wanted /\ Wanted = SetSize(op.name)
  BY <1>3 DEF Wanted
<1>6. PICK q : q = NewSet(op.name, op.stream)
  OBVIOUS
<1>7. PICK s \in Slot : s = q[j] /\ s.tag # "end"
  BY <1>1, <1>3, <1>4, <1>5, <1>6, NewSetOK
<1>8. PICK p \in DOMAIN slots : p = l[j]
  BY <1>3
<1>9. slots' = [slots EXCEPT ![p] = s]
  BY <1>2, <1>6, <1>7, <1>8 DEF WriteSlot, SetSlot
<1>10. /\ slots' \in Seq(Slot) /\ Len(slots') = Len(slots) /\ DOMAIN slots' = DOMAIN slots
       /\ slots'[p] = s /\ \A i \in DOMAIN slots : i # p => slots'[i] = slots[i]
  BY <1>1, <1>9
<1>11. \A i \in DOMAIN slots : i <= p - 1 => slots[i].tag # "end"
  BY <1>1, <1>2, <1>8 DEF NoEnd
<1>12. ASSUME NEW i \in DOMAIN slots, i <= p PROVE slots'[i].tag # "end"
  <2>1. i = p \/ i <= p - 1
    BY <1>3, <1>12
  <2>. QED
    BY <1>3, <1>7, <1>8, <1>10, <1>11, <2>1
<1>13. ASSUME NEW i \in DOMAIN slots', slots'[i].tag = "end", NEW k \in i..Len(slots') PROVE slots'[k].tag = "end"
  <2>1. i \in DOMAIN slots /\ i > p /\ k > p /\ k \in i..Len(slots) /\ k \in DOMAIN slots
    BY <1>3, <1>8, <1>10, <1>12, <1>13
  <2>2. slots'[i] = slots[i] /\ slots'[k] = slots[k]
    BY <1>3, <1>8, <1>10, <2>1
  <2>. QED
    BY <1>1, <1>13, <2>1, <2>2 DEF EndMarkersLast
<1>14. EndMarkersLast'
  BY <1>13 DEF EndMarkersLast
<1>15. LastClusterEnds => NoEnd(length * SlotsPerCluster - SlotsPerCluster)'
  BY <1>1, <1>7, <1>10 DEF NoEnd
<1>16. CASE j = Wanted
  <2>1. op' = [op EXCEPT !.pc = "seal", !.i = 0]
    BY <1>2, <1>16 DEF WriteSlot
  <2>2. op'.pc = "seal"
    BY ONLY <1>1, <2>1 DEF OpType
  <2>. QED
    BY <1>14, <1>15, <2>2 DEF EndsInv, At
<1>17. CASE j # Wanted
  <2>1. op' = [op EXCEPT !.i = op.i + 1]
    BY <1>2, <1>17 DEF WriteSlot
  <2>2. op'.pc = op.pc /\ op'.i = op.i + 1 /\ op'.locs = op.locs
    BY ONLY <1>1, <2>1 DEF OpType
  <2>3. j + 1 \in DOMAIN l /\ l[j + 1] - 1 = p
    <3>1. j \in Nat /\ j + 1 \in DOMAIN l /\ j \in DOMAIN l /\ 1 \in DOMAIN l
      BY <1>3, <1>4, <1>5, <1>17
    <3>2. l[j] = l[1] + j - 1 /\ l[j + 1] = l[1] + (j + 1) - 1 /\ l[1] \in Nat /\ p = l[j]
      <4>1. \A k \in DOMAIN l : l[k] = l[1] + k - 1
        BY <1>3
      <4>2. l[1] \in DOMAIN slots /\ DOMAIN slots \subseteq Nat
        BY <1>3, <3>1
      <4>. QED
        BY ONLY <1>8, <3>1, <4>1, <4>2
    <3>. QED
      BY <3>1, <3>2
  <2>4. \A i \in DOMAIN slots' : i <= l[j + 1] - 1 => slots'[i].tag # "end"
    BY <1>10, <1>12, <2>3
  <2>5. op'.locs[op'.i] = l[j + 1] /\ op'.locs = l
    BY <1>2, <2>2
  <2>6. NoEnd(op.locs[op.i] - 1)'
    BY <2>4, <2>5 DEF NoEnd
  <2>7. op'.pc = "write"
    BY <1>1, <2>2 DEF At
  <2>. QED
    BY <1>3, <1>14, <1>15, <2>5, <2>6, <2>7 DEF EndsInv, At
<1>. QED
  BY <1>16, <1>17

LEMMA EndsStep ==
    ASSUME TypeInv, EndsInv, Fits, [Next]_vars
    PROVE  EndsInv'
<1>1. slots \in Seq(Slot) /\ op \in OpType
  BY DEF TypeInv, DeviceOK, OpOK
<1>2. ASSUME slots' = slots, length' = length,
             op'.pc \notin {"link", "pad", "length", "sealLength", "write"}
      PROVE  EndsInv'
  BY <1>1, <1>2, EndsKeptInv DEF EndsKept
<1>3. CASE \E n \in Names : \/ Open(n) \/ Close(n) \/ LookupFails(n)
                            \/ \E k \in 1..(MaxClusters * SectorsPerCluster) : LookupIoError(n, k)
  BY <1>2, <1>3 DEF Open, Close, LookupFails, LookupIoError, device, At
<1>4. CASE \E n \in Names : CreateExisting(n) \/ Remove(n) \/ CreateAbsent(n) \/ \E s \in Streams : Update(n, s)
  <2>1. op'.pc \in {"stream", "retire", "search"} /\ slots' = slots /\ length' = length
    BY <1>4 DEF CreateExisting, Remove, Update, CreateAbsent, Idle, device
  <2>. QED
    BY <1>2, <2>1
<1>5. CASE \E p \in Renames : Rename(p[1], p[2])
  <2>1. op'.pc \in {"restream", "search"} /\ slots' = slots /\ length' = length
    BY <1>5 DEF Rename, Idle, device
  <2>. QED
    BY <1>2, <2>1
<1>6. CASE NoSpace \/ IoError \/ Panic \/ Crash
  <2>1. op'.pc = "idle" /\ slots' = slots /\ length' = length
    BY <1>6 DEF NoSpace, IoError, Panic, Crash, Restart, Idle, device
  <2>. QED
    BY <1>2, <2>1
<1>7. CASE SealNewSet \/ RetireSlot \/ Reseal
  <2>1. length' = length /\ EndsKept
    BY <1>7, EditsKeepEnds DEF SealNewSet, RetireSlot, Reseal
  <2>2. Reseal => op'.pc = "idle"
    BY DEF Reseal, Idle
  <2>3. SealNewSet => op'.pc \in {"idle", "retire"}
    <3>1. SealNewSet => op' = [op EXCEPT !.pc = "retire", !.i = 1] \/ op' = Idle
      BY DEF SealNewSet
    <3>2. op' = [op EXCEPT !.pc = "retire", !.i = 1] => op'.pc = "retire"
      BY ONLY <1>1 DEF OpType
    <3>. QED
      BY <3>1, <3>2, IdleOK
  <2>4. RetireSlot => op'.pc \in {"idle", "retire"}
    BY <1>1 DEF RetireSlot, AfterRetire, Idle, OpType, At
  <2>. QED
    BY <1>7, <2>1, <2>2, <2>3, <2>4, EndsKeptInv
<1>8. CASE RenameStream \/ RenameSlot \/ UpdateStream
  <2>1. op'.pc \in {"rename", "reseal"}
    BY <1>1, <1>8 DEF RenameStream, RenameSlot, UpdateStream, OpType, At
  <2>2. length' = length /\ EndsKept
    BY <1>8, EditsKeepEnds DEF RenameStream, RenameSlot, UpdateStream
  <2>. QED
    BY <2>1, <2>2, EndsKeptInv
<1>9. CASE UNCHANGED vars
  BY <1>9 DEF vars, EndsInv, EndMarkersLast, NoEnd, At, OldEnd
<1>. QED
  BY <1>3, <1>4, <1>5, <1>6, <1>7, <1>8, <1>9, EndsSearch, EndsReachEnd, EndsLink, EndsPad, EndsRecord, EndsWrite
     DEF Next, Step

(* A scan stops at the first end marker, and no slot behind one is ever in *)
(* use, through any growth, write or edit that a fault cuts short: where   *)
(* the directory cannot grow, or the sets fit a sector, or only the last   *)
(* cluster of a subdirectory of one-sector clusters had end markers.       *)
THEOREM EndMarkersStayLast ==
    ASSUME InitialEndsLast, Fits
    PROVE  Spec => []EndMarkersLast
<1>1. TypeInv /\ EndsInv /\ [Next]_vars => EndsInv'
  BY EndsStep
<1>2. Init => EndsInv
  BY EndsInit
<1>3. EndsInv => EndMarkersLast
  BY DEF EndsInv
<1>. QED
  BY <1>1, <1>2, <1>3, TypeInvariant, PTL DEF Spec

-----------------------------------------------------------------------------
(* Whole sets.                                                             *)

(* The slots at l are the entry set of the file n, one after the other.    *)
Consecutive(l) == \A k \in DOMAIN l : l[k] = l[1] + k - 1
NamesAt(l, n, last) ==
    \A k \in 3..last : /\ slots[l[k]].tag = "name" /\ slots[l[k]].used
                       /\ slots[l[k]].part = NamePart(n, k - 2)
HeadAt(l) ==
    /\ Len(l) >= 3 /\ Consecutive(l)
    /\ slots[l[1]].tag = "primary" /\ slots[l[1]].used /\ slots[l[1]].secondaries = Len(l) - 1
    /\ slots[l[2]].tag = "stream" /\ slots[l[2]].used
WholeAt(l, n) == HeadAt(l) /\ slots[l[2]].len = Units[n] /\ NamesAt(l, n, Len(l))

(* A checksum that covers such a set.                                      *)
Covers(q, n) ==
    /\ Len(q) >= 3 /\ q[2].tag = "stream" /\ q[2].len = Units[n]
    /\ \A k \in 3..Len(q) : q[k].tag = "name" /\ q[k].part = NamePart(n, k - 2)
SumsWhole ==
    \A i \in DOMAIN slots : slots[i].tag = "primary" /\ slots[i].sum # <<>> =>
        \E n \in Names : Covers(slots[i].sum, n)

(* What the directory held before is not known to be whole: it stays so if *)
(* it was.                                                                 *)
InitialSumsWhole ==
    \A i \in DOMAIN InitialSlots : InitialSlots[i].tag = "primary" /\ InitialSlots[i].sum # <<>> =>
        \E n \in Names : Covers(InitialSlots[i].sum, n)
SumsInv == InitialSumsWhole => SumsWhole

(* No open File has a slot among them.                                     *)
Apart(l) == \A n \in Names : \A k \in DOMAIN l : \A j \in DOMAIN handle[n] : handle[n][j] # l[k]
(* A slot that no set holds.                                               *)
Vacant(i) == ~slots[i].used \/ slots[i].tag = "pad"

HandlesWhole == \A n \in Names : handle[n] # <<>> => WholeAt(handle[n], n)

(* The set that an operation reads or edits.                               *)
OldWhole ==
    /\ At("idle") => op.old = <<>> /\ op.kind = "none"
    /\ op.kind = "update" => op.old = handle[op.name]
    /\ op.kind # "update" => Apart(op.old)
    /\ op.pc \in {"search", "link", "pad", "length", "sealLength", "write", "seal"} => op.kind \in {"create", "rename"}
    /\ op.pc \in {"retire", "restream", "rename"} => op.kind \in {"remove", "rename"}
    /\ At("stream") => op.kind \in {"create", "update"}
    /\ At("restream") => HeadAt(op.old)
    /\ At("rename") => /\ HeadAt(op.old) /\ slots[op.old[2]].len = Units[op.name]
                       /\ op.i # 0 /\ NamesAt(op.old, op.name, op.i + 1)
    /\ op.pc \in {"stream", "reseal"} => WholeAt(op.old, op.name)

(* The set that an operation writes.                                       *)
NewWhole ==
    /\ At("link") => \A i \in DOMAIN slots : i > Len(slots) - op.run => Vacant(i)
    /\ op.pc \in {"pad", "length", "sealLength"} => \A i \in DOMAIN slots : i > OldEnd - op.run => Vacant(i)
    /\ op.pc \in {"write", "seal"} => Consecutive(op.locs) /\ Apart(op.locs) /\ Len(op.locs) = Wanted
    /\ At("write") => \A k \in 1..(op.i - 1) : slots[op.locs[k]] = NewSet(op.name, op.stream)[k]
    /\ At("seal") => \A k \in DOMAIN op.locs : slots[op.locs[k]] = NewSet(op.name, op.stream)[k]

SetInv == decoder = FreshDecoder /\ SumsInv /\ HandlesWhole /\ OldWhole /\ NewWhole

-----------------------------------------------------------------------------
(* What a scan from a fresh decoder has read.                              *)

(* The slots up to i, which the decoder has taken, begin a set.            *)
HeadRead(d, i) ==
    /\ Len(d.locs) \in 1..i /\ Len(d.sum) = Len(d.locs)
    /\ \A k \in 1..Len(d.locs) : d.locs[k] = i - Len(d.locs) + k
    /\ \A k \in 1..Len(d.locs) : d.sum[k] = Content(slots[d.locs[k]])
    /\ slots[d.locs[1]].tag = "primary" /\ slots[d.locs[1]].used
    /\ slots[d.locs[1]].secondaries + 1 = Len(d.locs) + d.left /\ slots[d.locs[1]].sum = d.expect
NamesRead(d) ==
    /\ Len(d.locs) >= 2 /\ Len(d.locs) = Len(d.name) + 2
    /\ slots[d.locs[2]].tag = "stream" /\ slots[d.locs[2]].used /\ slots[d.locs[2]].len = d.len
    /\ \A k \in 3..Len(d.locs) : /\ slots[d.locs[k]].tag = "name" /\ slots[d.locs[k]].used
                                  /\ slots[d.locs[k]].part = d.name[k - 2]
    /\ d.name # <<>> => (Len(d.name) - 1) * UnitsPerEntry < d.len
Partial(d, i) ==
    /\ HeadRead(d, i)
    /\ d.seen => NamesRead(d)
    /\ ~d.seen => Len(d.locs) = 1 /\ d.name = <<>>

Reading(d, i) ==
    /\ d.out # "absent"
    /\ d.out = "none" /\ d.left # 0 /\ ~d.ignored => Partial(d, i)
    /\ d.out = "entry" => /\ HeadRead(d, i) /\ NamesRead(d) /\ d.left = 0
                          /\ d.len <= Len(d.name) * UnitsPerEntry /\ d.sum = d.expect

(* One slot more.                                                          *)
LEMMA HeadTaken ==
    ASSUME slots \in Seq(Slot), NEW d \in DecoderType, NEW i \in DOMAIN slots, HeadRead(d, i - 1),
           d.left # 0, NEW e, e.locs = Append(d.locs, i), e.sum = Append(d.sum, Content(slots[i])),
           e.left = d.left - 1, e.expect = d.expect
    PROVE  /\ HeadRead(e, i) /\ Len(e.locs) = Len(d.locs) + 1 /\ e.locs[Len(e.locs)] = i
           /\ \A k \in 1..Len(d.locs) : e.locs[k] = d.locs[k]
<1>. DEFINE D == DOMAIN slots
            C == Contents
<1>1. PICK l \in Seq(D), q \in Seq(C) : l = d.locs /\ q = d.sum
  BY DEF DecoderType
<1>2. PICK c \in C : c = Content(slots[i])
  BY ContentType
<1>3. i \in Nat \ {0} /\ i \in D /\ d.left \in Nat
  BY DEF DecoderType
<1>. HIDE DEF D, C
<1>4. /\ Len(Append(l, i)) = Len(l) + 1 /\ Append(l, i)[Len(l) + 1] = i /\ Len(l) \in Nat
      /\ \A k \in 1..Len(l) : Append(l, i)[k] = l[k]
  BY <1>3
<1>5. /\ Len(Append(q, c)) = Len(q) + 1 /\ Append(q, c)[Len(q) + 1] = c /\ Len(q) \in Nat
      /\ \A k \in 1..Len(q) : Append(q, c)[k] = q[k]
  OBVIOUS
<1>6. PICK m, r : m = Append(l, i) /\ r = Append(q, c)
  OBVIOUS
<1>7. e.locs = m /\ e.sum = r
  BY <1>1, <1>2, <1>6
<1>8. /\ Len(l) \in 1..(i - 1) /\ Len(q) = Len(l)
      /\ \A k \in 1..Len(l) : l[k] = (i - 1) - Len(l) + k
      /\ \A k \in 1..Len(l) : q[k] = Content(slots[l[k]])
      /\ slots[l[1]].tag = "primary" /\ slots[l[1]].used
      /\ slots[l[1]].secondaries + 1 = Len(l) + d.left /\ slots[l[1]].sum = d.expect
  BY <1>1 DEF HeadRead
<1>9. /\ Len(m) = Len(l) + 1 /\ m[Len(l) + 1] = i /\ \A k \in 1..Len(l) : m[k] = l[k]
      /\ Len(r) = Len(l) + 1 /\ r[Len(l) + 1] = c /\ \A k \in 1..Len(l) : r[k] = q[k]
  BY <1>4, <1>5, <1>6, <1>8
<1>10. /\ Len(m) \in 1..i
       /\ \A k \in 1..Len(m) : m[k] = i - Len(m) + k
  <2>1. PICK a \in Nat : a = Len(l) /\ a <= i - 1 /\ a >= 1
    BY <1>3, <1>4, <1>8
  <2>2. Len(m) = a + 1 /\ m[a + 1] = i /\ \A k \in 1..a : m[k] = (i - 1) - a + k
    BY <1>8, <1>9, <2>1
  <2>3. ASSUME NEW k \in 1..(a + 1) PROVE m[k] = i - (a + 1) + k
    <3>1. k = a + 1 \/ k \in 1..a
      BY <2>1
    <3>2. k \in Nat /\ a + 1 <= i
      BY <1>3, <2>1
    <3>3. PICK j \in Nat : j = i
      BY <1>3
    <3>4. k = a + 1 => i = j - (a + 1) + k
      BY ONLY <3>3, <3>2, a \in Nat
    <3>5. (j - 1) - a + k = j - (a + 1) + k
      BY ONLY j \in Nat, a \in Nat, <3>2
    <3>. QED
      BY <2>2, <3>1, <3>3, <3>4, <3>5
  <2>. QED
    BY <1>3, <2>1, <2>2, <2>3
<1>11. \A k \in 1..Len(m) : r[k] = Content(slots[m[k]])
  <2>1. \A k \in 1..Len(m) : k \in 1..Len(l) \/ k = Len(l) + 1
    BY <1>8, <1>9
  <2>. QED
    BY <1>2, <1>8, <1>9, <2>1
<1>12. m[1] = l[1]
  BY <1>8, <1>9
<1>13. slots[l[1]].secondaries + 1 = Len(m) + (d.left - 1)
  <2>1. PICK a \in Nat, b \in Nat : a = Len(l) /\ b = d.left
    BY <1>3, <1>4
  <2>2. Len(m) = a + 1 /\ b # 0
    BY <1>9, <2>1
  <2>3. a + b = (a + 1) + (b - 1)
    BY ONLY a \in Nat, b \in Nat
  <2>. QED
    BY <1>8, <2>1, <2>2, <2>3
<1>. QED
  BY <1>1, <1>7, <1>8, <1>9, <1>10, <1>11, <1>12, <1>13 DEF HeadRead

LEMMA StreamTaken ==
    ASSUME slots \in Seq(Slot), NEW d \in DecoderType, NEW i \in DOMAIN slots, HeadRead(d, i - 1),
           d.left # 0, Len(d.locs) = 1, d.name = <<>>, slots[i].tag = "stream", slots[i].used,
           NEW e, e.locs = Append(d.locs, i), e.sum = Append(d.sum, Content(slots[i])),
           e.left = d.left - 1, e.expect = d.expect, e.name = d.name, e.len = slots[i].len
    PROVE  HeadRead(e, i) /\ NamesRead(e)
<1>1. /\ HeadRead(e, i) /\ Len(e.locs) = Len(d.locs) + 1 /\ e.locs[Len(e.locs)] = i
  BY HeadTaken
<1>2. Len(e.locs) = 2 /\ e.locs[2] = i
  BY <1>1
<1>3. e.name = <<>> /\ Len(e.name) = 0 /\ 3..Len(e.locs) = {}
  BY <1>2
<1>. QED
  BY <1>1, <1>2, <1>3 DEF NamesRead

LEMMA NameTaken ==
    ASSUME slots \in Seq(Slot), NEW d \in DecoderType, NEW i \in DOMAIN slots, HeadRead(d, i - 1), NamesRead(d),
           d.left # 0, Len(d.name) * UnitsPerEntry < d.len, slots[i].tag = "name", slots[i].used,
           NEW e, e.locs = Append(d.locs, i), e.sum = Append(d.sum, Content(slots[i])),
           e.left = d.left - 1, e.expect = d.expect, e.name = Append(d.name, slots[i].part), e.len = d.len
    PROVE  HeadRead(e, i) /\ NamesRead(e)
<1>1. /\ HeadRead(e, i) /\ Len(e.locs) = Len(d.locs) + 1 /\ e.locs[Len(e.locs)] = i
      /\ \A k \in 1..Len(d.locs) : e.locs[k] = d.locs[k]
  BY HeadTaken
<1>2. PICK m \in Seq(Parts), p \in Parts : m = d.name /\ p = slots[i].part
  BY SlotFields DEF DecoderType
<1>. DEFINE P == Parts
<1>3. m \in Seq(P) /\ p \in P
  OBVIOUS
<1>. HIDE DEF P
<1>4. PICK w : w = Append(m, p)
  OBVIOUS
<1>5. Len(w) = Len(m) + 1 /\ w[Len(m) + 1] = p /\ Len(m) \in Nat /\ (\A k \in 1..Len(m) : w[k] = m[k]) /\ w # <<>>
  <2>1. /\ Len(Append(m, p)) = Len(m) + 1 /\ Append(m, p)[Len(m) + 1] = p /\ Len(m) \in Nat
        /\ \A k \in 1..Len(m) : Append(m, p)[k] = m[k]
    BY <1>3
  <2>2. Append(m, p) # <<>>
    BY <2>1
  <2>. QED
    BY <1>4, <2>1, <2>2
<1>6. PICK a \in Nat : a = Len(d.locs)
  BY DEF DecoderType
<1>7. /\ a >= 2 /\ a = Len(m) + 2 /\ Len(e.locs) = a + 1 /\ e.locs[a + 1] = i
      /\ e.locs[2] = d.locs[2] /\ \A k \in 3..a : e.locs[k] = d.locs[k]
  BY <1>1, <1>2, <1>6 DEF NamesRead
<1>8. ASSUME NEW k \in 3..(a + 1)
      PROVE  /\ slots[e.locs[k]].tag = "name" /\ slots[e.locs[k]].used /\ slots[e.locs[k]].part = w[k - 2]
  <2>1. CASE k = a + 1
    BY <1>2, <1>5, <1>7, <2>1
  <2>2. CASE k # a + 1
    <3>1. k \in 3..a /\ k - 2 \in 1..Len(m)
      BY <1>5, <1>7, <2>2
    <3>2. slots[d.locs[k]].tag = "name" /\ slots[d.locs[k]].used /\ slots[d.locs[k]].part = m[k - 2]
      BY <1>2, <1>6, <3>1 DEF NamesRead
    <3>. QED
      BY <1>5, <1>7, <3>1, <3>2
  <2>. QED
    BY <2>1, <2>2
<1>9. e.name = w /\ Len(w) - 1 = Len(m) /\ Len(e.locs) = Len(w) + 2
  BY <1>2, <1>4, <1>5, <1>7
<1>10. slots[d.locs[2]].tag = "stream" /\ slots[d.locs[2]].used /\ slots[d.locs[2]].len = d.len
  BY DEF NamesRead
<1>11. /\ slots[e.locs[2]].tag = "stream" /\ slots[e.locs[2]].used /\ slots[e.locs[2]].len = e.len
  BY <1>7, <1>10
<1>12. (Len(w) - 1) * UnitsPerEntry < e.len
  BY <1>2, <1>9
<1>13. Len(e.locs) >= 2 /\ Len(e.locs) = a + 1
  BY <1>7
<1>. QED
  BY ONLY <1>1, <1>8, <1>9, <1>11, <1>12, <1>13 DEF NamesRead

(* The same fields, read alike.                                            *)
LEMMA ReadAlike ==
    ASSUME NEW d, NEW e, NEW i, e.locs = d.locs, e.sum = d.sum, e.left = d.left, e.expect = d.expect,
           e.name = d.name, e.len = d.len
    PROVE  (HeadRead(d, i) => HeadRead(e, i)) /\ (NamesRead(d) => NamesRead(e))
BY ONLY e.locs = d.locs, e.sum = d.sum, e.left = d.left, e.expect = d.expect, e.name = d.name, e.len = d.len
   DEF HeadRead, NamesRead

LEMMA ReadingComplete ==
    ASSUME NEW d \in DecoderType, NEW i, HeadRead(d, i), NamesRead(d), d.seen, d.out = "none"
    PROVE  Reading(Complete(d), i)
<1>1. CASE d.left # 0
  BY <1>1 DEF Complete, Reading, Partial
<1>2. CASE d.left = 0
  <2>1. PICK x \in {"none", "entry", "corrupt", "end", "absent"} :
           /\ x \in {"corrupt", "entry"} /\ Complete(d) = WithOut(d, x)
           /\ x = "entry" => ~(Len(d.name) * UnitsPerEntry < d.len) /\ d.sum = d.expect
    BY <1>2 DEF Complete, WithOut
  <2>2. PICK e : e = WithOut(d, x)
    OBVIOUS
  <2>3. /\ e.out = x /\ e.left = d.left /\ e.len = d.len /\ e.name = d.name
        /\ e.locs = d.locs /\ e.sum = d.sum /\ e.expect = d.expect
    BY ONLY d \in DecoderType, x \in {"none", "entry", "corrupt", "end", "absent"}, <2>2, OutEdited
  <2>4. HeadRead(e, i) /\ NamesRead(e)
    BY <2>3, ReadAlike
  <2>5. ~(Len(d.name) * UnitsPerEntry < d.len) => d.len <= Len(d.name) * UnitsPerEntry
    <3>1. d.len \in Nat /\ d.name \in Seq(Parts) /\ UnitsPerEntry \in Nat
      BY Parameters DEF DecoderType
    <3>2. Len(d.name) \in Nat /\ Len(d.name) * UnitsPerEntry \in Nat
      BY <3>1
    <3>. QED
      BY <3>1, <3>2
  <2>6. Reading(e, i)
    BY <1>2, <2>1, <2>3, <2>4, <2>5 DEF Reading
  <2>. QED
    BY <2>1, <2>2, <2>6
<1>. QED
  BY <1>1, <1>2

LEMMA ReadingPush ==
    ASSUME slots \in Seq(Slot), NEW d, DecoderOK(d), NEW i \in DOMAIN slots, slots[i].tag # "end",
           Reading(d, i - 1), d.out # "corrupt", d.out # "end"
    PROVE  Reading(Push(d, i, slots[i]), i)
<1>1. PICK s \in Slot : s = slots[i]
  OBVIOUS
<1>2. d \in DecoderType /\ d.left \in Nat /\ d.out \in {"none", "entry", "corrupt", "end", "absent"}
      /\ (d.out = "entry" => d.left = 0) /\ i \in Nat \ {0}
  BY DEF DecoderOK, DecoderType
<1>3. CASE s.tag = "primary" /\ s.used
  <2>1. CASE d.left # 0 \/ s.secondaries < 2
    <3>1. PICK e : e = WithOut(d, "corrupt")
      OBVIOUS
    <3>2. e.out = "corrupt"
      BY <1>2, <3>1, OutEdited
    <3>. QED
      BY <1>1, <1>3, <2>1, <3>1, <3>2 DEF Push, WithOut, Reading
  <2>2. CASE ~(d.left # 0 \/ s.secondaries < 2)
    <3>1. s.secondaries \in Nat /\ s.sum \in Seq(Contents) /\ Content(s) \in Contents /\ s.secondaries >= 2
      BY <1>3, <2>2, SlotFields, ContentType
    <3>2. PICK e : e = Begun(i, s.secondaries, s.sum, Content(s))
      OBVIOUS
    <3>3. /\ e.out = "none" /\ e.left = s.secondaries /\ ~e.seen /\ e.name = <<>>
          /\ e.locs = <<i>> /\ e.sum = <<Content(s)>> /\ e.expect = s.sum
      BY <3>1, <3>2, BegunDecoder
    <3>4. Push(d, i, s) = e
      BY <1>3, <2>2, <3>2 DEF Push, Begun
    <3>5. /\ Len(e.locs) = 1 /\ e.locs[1] = i /\ Len(e.sum) = 1 /\ e.sum[1] = Content(s)
      BY <3>3
    <3>6. HeadRead(e, i)
      BY <1>1, <1>2, <1>3, <3>1, <3>3, <3>5 DEF HeadRead
    <3>7. Reading(e, i)
      BY <3>3, <3>5, <3>6 DEF Reading, Partial
    <3>. QED
      BY <1>1, <3>4, <3>7
  <2>. QED
    BY <2>1, <2>2
<1>4. CASE ~(s.tag = "primary" /\ s.used) /\ d.left = 0
  <2>1. PICK e : e = WithOut(d, "none")
    OBVIOUS
  <2>2. e.out = "none" /\ e.left = 0
    BY <1>2, <1>4, <2>1, OutEdited
  <2>. QED
    BY <1>1, <1>4, <2>1, <2>2 DEF Push, WithOut, Reading
<1>5. CASE ~(s.tag = "primary" /\ s.used) /\ d.left # 0 /\ d.ignored
  <2>1. PICK x \in BOOLEAN : x = (d.left # 1)
    OBVIOUS
  <2>2. PICK e : e = Skipped(d, x)
    OBVIOUS
  <2>3. Push(d, i, s) = e
    BY <1>5, <2>1, <2>2 DEF Push, Skipped
  <2>4. e.out = "none" /\ e.left = d.left - 1 /\ e.ignored = x
    BY <1>2, <1>5, <2>2, IgnoredEdited
  <2>5. e.left = 0 \/ e.ignored
    <3>1. CASE d.left = 1
      BY <2>4, <3>1
    <3>2. CASE d.left # 1
      <4>1. x = TRUE
        BY <2>1, <3>2
      <4>2. e.ignored = x
        BY <2>4
      <4>. QED
        BY ONLY <4>1, <4>2
    <3>. QED
      BY <3>1, <3>2
  <2>. QED
    BY <1>1, <2>3, <2>4, <2>5 DEF Reading
<1>6. CASE ~(s.tag = "primary" /\ s.used) /\ d.left # 0 /\ ~d.ignored
  <2>1. PICK t : t = Taken(d, i, s)
    OBVIOUS
  <2>2. /\ t \in DecoderType /\ t.out = "none" /\ t.left = d.left - 1 /\ ~t.ignored
        /\ t.locs = Append(d.locs, i) /\ t.sum = Append(d.sum, Content(slots[i]))
        /\ t.seen = d.seen /\ t.len = d.len /\ t.name = d.name /\ t.expect = d.expect
    BY <1>1, <1>6, <2>1, TakenOK
  <2>3. d.out = "none" /\ Partial(d, i - 1)
    BY <1>2, <1>6 DEF Reading
  <2>4. CASE s.tag = "stream" /\ s.used /\ ~d.seen /\ Len(d.locs) = 1
    <3>1. s.len \in Nat /\ s.stream \in Stream
      BY <2>4, SlotFields
    <3>9. PICK n \in Nat, x \in Stream : n = s.len /\ x = s.stream
      BY <3>1
    <3>8. t \in DecoderType
      BY <2>2
    <3>2. PICK e : e = WithStream(t, n, x)
      OBVIOUS
    <3>3. /\ e \in DecoderType /\ e.out = t.out /\ e.left = t.left /\ e.seen /\ e.len = n
          /\ e.name = t.name /\ e.locs = t.locs /\ e.sum = t.sum /\ e.expect = t.expect
      BY ONLY n \in Nat, x \in Stream, <3>8, <3>2 DEF DecoderType, WithStream
    <3>4. Push(d, i, s) = Complete(e)
      BY <1>6, <2>1, <2>4, <3>9, <3>2 DEF Push, WithStream
    <3>5. /\ e.locs = Append(d.locs, i) /\ e.sum = Append(d.sum, Content(slots[i]))
          /\ e.left = d.left - 1 /\ e.expect = d.expect /\ e.name = d.name /\ e.len = slots[i].len
      BY <1>1, <2>2, <3>3, <3>9
    <3>6. HeadRead(d, i - 1) /\ d.name = <<>>
      BY <2>3, <2>4 DEF Partial
    <3>7. HeadRead(e, i) /\ NamesRead(e)
      BY <1>1, <1>2, <1>6, <2>4, <3>5, <3>6, StreamTaken
    <3>. QED
      BY <1>1, <2>2, <3>3, <3>4, <3>7, ReadingComplete
  <2>5. CASE s.tag = "name" /\ s.used /\ d.seen /\ Len(d.name) * UnitsPerEntry < d.len
    <3>1. s.part \in Parts
      BY <2>5, SlotFields
    <3>2. PICK e : e = WithName(t, s.part)
      OBVIOUS
    <3>3. /\ e \in DecoderType /\ e.out = t.out /\ e.left = t.left /\ e.seen = t.seen /\ e.len = t.len
          /\ e.name = Append(t.name, s.part) /\ e.locs = t.locs /\ e.sum = t.sum /\ e.expect = t.expect
      BY <2>2, <3>1, <3>2, NameEdited
    <3>4. Push(d, i, s) = Complete(e)
      BY <1>6, <2>1, <2>5, <3>2 DEF Push, WithName
    <3>5. /\ e.locs = Append(d.locs, i) /\ e.sum = Append(d.sum, Content(slots[i]))
          /\ e.left = d.left - 1 /\ e.expect = d.expect /\ e.name = Append(d.name, slots[i].part) /\ e.len = d.len
      BY <1>1, <2>2, <3>3
    <3>6. HeadRead(d, i - 1) /\ NamesRead(d)
      BY <2>3, <2>5 DEF Partial
    <3>7. HeadRead(e, i) /\ NamesRead(e)
      BY <1>1, <1>2, <1>6, <2>5, <3>5, <3>6, NameTaken
    <3>8. e.seen
      BY <2>2, <2>5, <3>3
    <3>. QED
      BY <1>1, <2>2, <3>3, <3>4, <3>7, <3>8, ReadingComplete
  <2>6. CASE /\ ~(s.tag = "stream" /\ s.used /\ ~d.seen /\ Len(d.locs) = 1)
             /\ ~(s.tag = "name" /\ s.used /\ d.seen /\ Len(d.name) * UnitsPerEntry < d.len)
    <3>1. PICK e : e = Skipped(d, TRUE)
      OBVIOUS
    <3>2. Push(d, i, s) = e
      BY <1>6, <2>6, <3>1 DEF Push, Skipped
    <3>3. e.out = "none" /\ e.ignored
      <4>1. e.out = "none" /\ e.ignored = TRUE
        BY <1>2, <1>6, <3>1, IgnoredEdited
      <4>. QED
        BY ONLY <4>1
    <3>. QED
      BY <1>1, <3>2, <3>3 DEF Reading
  <2>. QED
    BY <2>4, <2>5, <2>6
<1>. QED
  BY <1>3, <1>4, <1>5, <1>6

LEMMA ReadingAdvance ==
    ASSUME slots \in Seq(Slot), NEW d, DecoderOK(d), NEW i \in DOMAIN slots, Reading(d, i - 1)
    PROVE  Reading(Advance(d, i, slots[i]), i)
<1>1. CASE d.out \in {"corrupt", "end"}
  BY <1>1 DEF Advance, Reading
<1>2. CASE d.out \notin {"corrupt", "end"} /\ slots[i].tag = "end"
  <2>1. PICK e : e = WithOut(d, "end")
    OBVIOUS
  <2>2. e.out = "end"
    BY <2>1, OutEdited DEF DecoderOK
  <2>. QED
    BY <1>2, <2>1, <2>2 DEF Advance, WithOut, Reading
<1>3. CASE d.out \notin {"corrupt", "end"} /\ slots[i].tag # "end"
  BY <1>3, ReadingPush DEF Advance
<1>. QED
  BY <1>1, <1>2, <1>3

(* A scan that begins with a new decoder only returns what it has read.    *)
LEMMA ReadingTrace ==
    ASSUME slots \in Seq(Slot), NEW view, ViewOK(view), NEW t, t = Trace(FreshDecoder, view)
    PROVE  /\ IsSeq(t) /\ Len(t) = Len(view) + 1
           /\ \A i \in 1..Len(t) : DecoderOK(t[i]) /\ Reading(t[i], i - 1)
<1>. DEFINE n == Len(view)
            T == {m \in 0..n : Reading(t[m + 1], m)}
<1>1. n \in Nat /\ n <= Len(slots) /\ DOMAIN slots = 1..Len(slots) /\ Len(slots) \in Nat
  BY DEF ViewOK
<1>2. /\ IsSeq(t) /\ Len(t) = n + 1 /\ t[1] = FreshDecoder
      /\ \A i \in 1..n : t[i + 1] = Advance(t[i], i, view[i])
  BY <1>1, TraceScans DEF Scans
<1>3. \A i \in 1..Len(t) : DecoderOK(t[i])
  BY TraceOK, FreshOK
<1>4. 0 \in T
  BY <1>1, <1>2 DEF Reading, FreshDecoder
<1>5. ASSUME NEW m \in 1..n, m - 1 \in T PROVE m \in T
  <2>1. /\ DecoderOK(t[m]) /\ m \in DOMAIN slots /\ view[m] = slots[m] /\ m \in 1..Len(t)
    BY <1>1, <1>2, <1>3 DEF ViewOK
  <2>2. Reading(t[m], m - 1)
    <3>1. (m - 1) + 1 = m
      OBVIOUS
    <3>2. Reading(t[(m - 1) + 1], m - 1)
      BY <1>5
    <3>. QED
      BY <3>1, <3>2
  <2>3. t[m + 1] = Advance(t[m], m, slots[m])
    BY <1>2, <2>1
  <2>4. Reading(t[m + 1], m)
    BY <2>1, <2>2, <2>3, ReadingAdvance
  <2>. QED
    BY <1>1, <2>4
<1>. HIDE DEF T, n
<1>6. \A m \in 0..n : m \in T
  BY <1>1, <1>4, <1>5, Numbers!IntervalInduction
<1>7. ASSUME NEW i \in 1..(n + 1) PROVE Reading(t[i], i - 1)
  <2>1. i - 1 \in 0..n /\ (i - 1) + 1 = i
    BY <1>1
  <2>2. Reading(t[(i - 1) + 1], i - 1)
    BY <1>6, <2>1 DEF T
  <2>. QED
    BY <2>1, <2>2
<1>. QED
  BY <1>2, <1>3, <1>7 DEF n

(* The set that a lookup returns.                                          *)
LEMMA ReadIsHead ==
    ASSUME slots \in Seq(Slot), NEW d \in DecoderType, NEW i \in Nat, HeadRead(d, i), NamesRead(d),
           d.left = 0, Len(d.locs) >= 3
    PROVE  HeadAt(d.locs)
<1>1. PICK l \in Seq(DOMAIN slots) : l = d.locs
  BY DEF DecoderType
<1>2. PICK a \in Nat : a = Len(l)
  OBVIOUS
<1>3. /\ a >= 3 /\ a <= i /\ DOMAIN l = 1..a
      /\ \A k \in 1..a : l[k] = i - a + k
      /\ slots[l[1]].tag = "primary" /\ slots[l[1]].used /\ slots[l[1]].secondaries + 1 = a + 0
      /\ slots[l[2]].tag = "stream" /\ slots[l[2]].used
  <2>1. /\ Len(l) \in 1..i /\ \A k \in 1..Len(l) : l[k] = i - Len(l) + k
        /\ slots[l[1]].tag = "primary" /\ slots[l[1]].used
        /\ slots[l[1]].secondaries + 1 = Len(l) + d.left
    BY <1>1 DEF HeadRead
  <2>2. slots[l[2]].tag = "stream" /\ slots[l[2]].used
    BY <1>1 DEF NamesRead
  <2>3. a >= 3 /\ a <= i /\ DOMAIN l = 1..a
    BY <1>1, <1>2, <2>1
  <2>. QED
    BY <1>2, <2>1, <2>2, <2>3
<1>4. \A k \in 1..a : l[k] = l[1] + k - 1
  BY <1>3
<1>5. slots[l[1]].secondaries = a - 1
  <2>1. 1 \in DOMAIN l /\ slots[l[1]] \in Slot
    BY <1>3
  <2>2. PICK b \in Nat : b = slots[l[1]].secondaries
    BY <1>3, <2>1, SlotFields
  <2>. QED
    BY <1>3, <2>2
<1>. QED
  BY <1>1, <1>2, <1>3, <1>4, <1>5 DEF HeadAt, Consecutive

LEMMA ReadIsWhole ==
    ASSUME slots \in Seq(Slot), NEW d \in DecoderType, NEW i \in Nat, HeadRead(d, i), NamesRead(d),
           d.left = 0, Len(d.locs) >= 3, NEW n \in Names, IsNamed(d, n)
    PROVE  WholeAt(d.locs, n)
<1>1. HeadAt(d.locs)
  BY ReadIsHead
<1>2. PICK b \in Nat, m \in Seq(Parts) : b = NameEntries(n) /\ m = d.name
  BY Parameters DEF DecoderType
<1>3. m = [j \in 1..b |-> NamePart(n, j)] /\ slots[d.locs[2]].len = Units[n]
  BY <1>2 DEF IsNamed, NameParts, NamesRead
<1>4. Len(m) = b
  BY <1>3
<1>5. Len(d.locs) = b + 2
  BY <1>2, <1>4 DEF NamesRead
<1>6. ASSUME NEW k \in 3..Len(d.locs)
      PROVE  /\ slots[d.locs[k]].tag = "name" /\ slots[d.locs[k]].used
             /\ slots[d.locs[k]].part = NamePart(n, k - 2)
  <2>1. k - 2 \in 1..b
    BY <1>5
  <2>2. m[k - 2] = NamePart(n, k - 2)
    BY <1>3, <2>1
  <2>. QED
    BY <1>2, <2>2 DEF NamesRead
<1>. QED
  BY <1>1, <1>3, <1>6 DEF WholeAt, NamesAt

LEMMA LeastIn ==
    ASSUME NEW S, S \subseteq Nat, S # {}
    PROVE  Least(S) \in S
<1>1. \E x \in S : \A y \in S : x <= y
  BY Numbers!LeastNumber
<1>. QED
  BY <1>1 DEF Least

LEMMA FoundWhole ==
    ASSUME TypeInv, NEW n \in Names, NEW d, d = Lookup(FreshDecoder, n), d.out = "entry"
    PROVE  WholeAt(d.locs, n)
<1>1. slots \in Seq(Slot) /\ ViewOK(LookupSlots)
  BY TypeInvImplies, ViewsOK DEF ChainOK
<1>2. PICK view : view = LookupSlots
  OBVIOUS
<1>3. PICK t : t = Trace(FreshDecoder, view)
  OBVIOUS
<1>4. /\ IsSeq(t) /\ Len(t) = Len(view) + 1 /\ Len(view) \in Nat
      /\ \A i \in 1..Len(t) : DecoderOK(t[i]) /\ Reading(t[i], i - 1)
  BY <1>1, <1>2, <1>3, ReadingTrace DEF ViewOK
<1>5. DOMAIN t = 1..Len(t)
  BY <1>4 DEF IsSeq
<1>. DEFINE hits == {i \in DOMAIN t : t[i].out = "entry" /\ IsNamed(t[i], n)}
            last == t[Len(t)]
<1>6. \/ hits # {} /\ d = t[Least(hits)]
      \/ d = [last EXCEPT !.out = IF last.out = "corrupt" THEN last.out ELSE "absent"]
      \/ d = [FreshDecoder EXCEPT !.out = "corrupt"]
  BY <1>2, <1>3 DEF Lookup, ScanFor
<1>7. d # [FreshDecoder EXCEPT !.out = "corrupt"]
  BY DEF FreshDecoder
<1>8. last \in DecoderType
  BY <1>4 DEF DecoderOK
<1>9. d # [last EXCEPT !.out = IF last.out = "corrupt" THEN last.out ELSE "absent"]
  <2>. HIDE DEF last
  <2>1. PICK x \in {"none", "entry", "corrupt", "end", "absent"} :
           x = (IF last.out = "corrupt" THEN last.out ELSE "absent") /\ x # "entry"
    OBVIOUS
  <2>2. PICK e : e = WithOut(last, x)
    OBVIOUS
  <2>3. e.out = x
    BY ONLY <1>8, <2>2, x \in {"none", "entry", "corrupt", "end", "absent"}, OutEdited
  <2>. QED
    BY <2>1, <2>2, <2>3 DEF WithOut
<1>10. hits # {} /\ d = t[Least(hits)]
  BY <1>6, <1>7, <1>9
<1>11. hits \subseteq 1..Len(t) /\ hits \subseteq Nat
  BY <1>4, <1>5
<1>12. PICK i \in hits : i = Least(hits)
  <2>. HIDE DEF hits
  <2>. QED
    BY <1>10, <1>11, LeastIn
<1>13. /\ i \in 1..Len(t) /\ i - 1 \in Nat /\ d = t[i] /\ IsNamed(d, n) /\ DecoderOK(d) /\ Reading(d, i - 1)
  BY <1>4, <1>5, <1>10, <1>12
<1>14. /\ d \in DecoderType /\ HeadRead(d, i - 1) /\ NamesRead(d) /\ d.left = 0 /\ Len(d.locs) + d.left >= 3
  BY <1>13 DEF Reading, DecoderOK
<1>15. Len(d.locs) >= 3
  BY <1>14 DEF DecoderType
<1>. QED
  BY <1>1, <1>13, <1>14, <1>15, ReadIsWhole

(* A quotient rounded up.                                                  *)
LEMMA RoundedUp ==
    ASSUME NEW u \in Nat \ {0}, NEW e \in Nat \ {0}, NEW m \in Nat \ {0}, (m - 1) * e < u, u <= m * e
    PROVE  (u + e - 1) \div e = m
<1>. DEFINE p == m * e
            q == (m - 1) * e
            r == u - 1 - q
<1>1. p \in Nat /\ q \in Nat /\ p = q + e
  <2>1. PICK x \in Nat : x = m - 1
    OBVIOUS
  <2>2. m = x + 1 /\ (x + 1) * e = x * e + e /\ x * e \in Nat
    BY <2>1
  <2>. QED
    BY <2>1, <2>2
<1>. HIDE DEF p, q
<1>2. q < u /\ u <= p
  BY DEF p, q
<1>3. r \in 0..(e - 1) /\ u + e - 1 = p + r
  BY <1>1, <1>2
<1>. HIDE DEF r
<1>4. u + e - 1 = e * m + r
  BY <1>3 DEF p
<1>5. PICK a \in Nat : a = u + e - 1
  OBVIOUS
<1>6. a = e * m + r /\ m \in Nat /\ e \in Nat \ {0} /\ r \in 0..(e - 1)
  BY <1>3, <1>4, <1>5
<1>7. a \div e = m
  BY ONLY <1>6, a \in Nat
<1>. QED
  BY <1>5, <1>7

(* A checksum that was written vouches for the name.                       *)
LEMMA CoveredIsNamed ==
    ASSUME slots \in Seq(Slot), NEW d \in DecoderType, NEW i \in Nat, HeadRead(d, i), NamesRead(d),
           d.len <= Len(d.name) * UnitsPerEntry, NEW n \in Names, Covers(d.sum, n)
    PROVE  IsNamed(d, n)
<1>1. PICK l \in Seq(DOMAIN slots), q \in Seq(Contents), m \in Seq(Parts), u \in Nat :
         l = d.locs /\ q = d.sum /\ m = d.name /\ u = d.len
  BY DEF DecoderType
<1>2. PICK b \in Nat : b = Len(m)
  OBVIOUS
<1>3. /\ Len(l) = b + 2 /\ Len(q) = b + 2 /\ DOMAIN l = 1..(b + 2)
      /\ \A k \in 1..(b + 2) : q[k] = Content(slots[l[k]])
  BY <1>1, <1>2 DEF HeadRead, NamesRead
<1>4. /\ slots[l[2]].tag = "stream" /\ slots[l[2]].len = u
      /\ \A k \in 3..(b + 2) : slots[l[k]].tag = "name" /\ slots[l[k]].part = m[k - 2]
  BY <1>1, <1>2, <1>3 DEF NamesRead
<1>5. /\ q[2].len = Units[n] /\ \A k \in 3..(b + 2) : q[k].part = NamePart(n, k - 2)
  BY <1>1, <1>3 DEF Covers
<1>6. \A k \in 2..(b + 2) : k \in 1..(b + 2)
  OBVIOUS
<1>7. u = Units[n]
  <2>1. q[2] = slots[l[2]]
    BY <1>3, <1>4, <1>6 DEF Content
  <2>. QED
    BY <1>4, <1>5, <2>1
<1>8. ASSUME NEW j \in 1..b PROVE m[j] = NamePart(n, j)
  <2>1. j + 2 \in 3..(b + 2) /\ (j + 2) - 2 = j
    OBVIOUS
  <2>3. slots[l[j + 2]].tag = "name"
    BY <1>4, <2>1
  <2>4. Content(slots[l[j + 2]]) = slots[l[j + 2]]
    BY <2>3 DEF Content
  <2>5. q[j + 2] = Content(slots[l[j + 2]])
    BY <1>3, <1>6, <2>1
  <2>2. q[j + 2] = slots[l[j + 2]]
    BY <2>4, <2>5
  <2>. QED
    BY <1>4, <1>5, <2>1, <2>2
<1>9. u \in Nat \ {0} /\ UnitsPerEntry \in Nat \ {0}
  BY <1>7, Parameters
<1>10. u <= b * UnitsPerEntry
  BY <1>1, <1>2
<1>11. b # 0
  BY <1>9, <1>10
<1>12. (b - 1) * UnitsPerEntry < u
  <2>1. m # <<>>
    BY <1>2, <1>11
  <2>. QED
    BY <1>1, <1>2, <2>1 DEF NamesRead
<1>13. NameEntries(n) = b
  BY <1>7, <1>9, <1>10, <1>11, <1>12, RoundedUp DEF NameEntries
<1>14. m = [j \in 1..b |-> NamePart(n, j)]
  BY <1>2, <1>8
<1>. QED
  BY <1>1, <1>7, <1>13, <1>14 DEF IsNamed, NameParts

LEMMA ShownNamed ==
    ASSUME TypeInv, SumsWhole, NEW d \in Listed
    PROVE  \E n \in Names : IsNamed(d, n)
<1>1. slots \in Seq(Slot) /\ ViewOK(ListSlots)
  BY TypeInvImplies, ViewsOK DEF ChainOK
<1>2. PICK t : t = Trace(FreshDecoder, ListSlots)
  OBVIOUS
<1>3. /\ IsSeq(t) /\ Len(t) = Len(ListSlots) + 1 /\ Len(ListSlots) \in Nat
      /\ \A i \in 1..Len(t) : DecoderOK(t[i]) /\ Reading(t[i], i - 1)
  BY <1>1, <1>2, ReadingTrace DEF ViewOK
<1>4. DOMAIN t = 1..Len(t)
  BY <1>3 DEF IsSeq
<1>5. d \in Range(t) /\ d.out = "entry"
  BY <1>2 DEF Listed, Shown
<1>6. PICK i \in 1..Len(t) : d = t[i]
  BY <1>4, <1>5, RangeIs
<1>7. i - 1 \in Nat /\ DecoderOK(d) /\ Reading(d, i - 1)
  BY <1>3, <1>6
<1>8. /\ d \in DecoderType /\ HeadRead(d, i - 1) /\ NamesRead(d)
      /\ d.len <= Len(d.name) * UnitsPerEntry /\ d.sum = d.expect
  BY <1>5, <1>7 DEF Reading, DecoderOK
<1>9. PICK l \in Seq(DOMAIN slots), q \in Seq(Contents) : l = d.locs /\ q = d.sum
  BY <1>8 DEF DecoderType
<1>10. Len(l) \in Nat /\ Len(l) >= 1 /\ Len(q) = Len(l) /\ slots[l[1]].tag = "primary" /\ slots[l[1]].sum = q
  BY <1>8, <1>9 DEF HeadRead
<1>11. l[1] \in DOMAIN slots /\ q # <<>>
  BY <1>10
<1>12. PICK n \in Names : Covers(q, n)
  BY <1>10, <1>11 DEF SumsWhole
<1>. QED
  BY <1>1, <1>7, <1>8, <1>9, <1>12, CoveredIsNamed

-----------------------------------------------------------------------------
(* What a step leaves of a set.                                            *)

(* A slot of the same set still: stream, checksum or nothing has changed.  *)
Alike(s, t) ==
    /\ s.tag = t.tag /\ (s.used <=> t.used)
    /\ t.tag = "primary" => s.secondaries = t.secondaries
    /\ t.tag = "stream" => s.len = t.len
    /\ t.tag = "name" => s.part = t.part

LEMMA HeadKept ==
    ASSUME NEW S, NEW l \in Seq(S), HeadAt(l), \A k \in DOMAIN l : Alike(slots'[l[k]], slots[l[k]])
    PROVE  HeadAt(l)'
<1>1. 1 \in DOMAIN l /\ 2 \in DOMAIN l
  BY DEF HeadAt
<1>2. Alike(slots'[l[1]], slots[l[1]]) /\ Alike(slots'[l[2]], slots[l[2]])
  BY <1>1
<1>. QED
  BY <1>2 DEF HeadAt, Alike, Consecutive

LEMMA NamesKept ==
    ASSUME NEW S, NEW l \in Seq(S), NEW n, NEW last, NamesAt(l, n, last),
           \A k \in 3..last : Alike(slots'[l[k]], slots[l[k]])
    PROVE  NamesAt(l, n, last)'
BY DEF NamesAt, Alike

LEMMA WholeKept ==
    ASSUME NEW S, NEW l \in Seq(S), NEW n, WholeAt(l, n), \A k \in DOMAIN l : Alike(slots'[l[k]], slots[l[k]])
    PROVE  WholeAt(l, n)'
<1>1. HeadAt(l)'
  BY HeadKept DEF WholeAt
<1>2. 2 \in DOMAIN l /\ \A k \in 3..Len(l) : k \in DOMAIN l
  BY DEF WholeAt, HeadAt
<1>3. NamesAt(l, n, Len(l))'
  BY <1>2, NamesKept DEF WholeAt
<1>4. slots'[l[2]].len = Units[n]
  BY <1>2 DEF WholeAt, HeadAt, Alike
<1>. QED
  BY <1>1, <1>3, <1>4 DEF WholeAt

(* Each slot of a set is in use, and none is padding.                      *)
LEMMA WholeHeld ==
    ASSUME NEW S, NEW l \in Seq(S), NEW n, WholeAt(l, n), NEW k \in DOMAIN l
    PROVE  slots[l[k]].used /\ slots[l[k]].tag \in {"primary", "stream", "name"}
<1>1. k = 1 \/ k = 2 \/ k \in 3..Len(l)
  OBVIOUS
<1>. QED
  BY <1>1 DEF WholeAt, HeadAt, NamesAt

(* Its slots are different ones.                                           *)
LEMMA Distinct ==
    ASSUME NEW l \in Seq(DOMAIN slots), slots \in Seq(Slot), Consecutive(l),
           NEW j \in DOMAIN l, NEW k \in DOMAIN l, j # k
    PROVE  l[j] # l[k]
<1>1. DOMAIN slots \subseteq Nat /\ 1 \in DOMAIN l
  OBVIOUS
<1>2. l[j] = l[1] + j - 1 /\ l[k] = l[1] + k - 1
  BY DEF Consecutive
<1>3. l[1] \in Nat /\ j \in Nat /\ k \in Nat
  BY <1>1
<1>. QED
  BY ONLY <1>2, <1>3, j # k

(* The sets of two names have no slot in common: where one begins, the     *)
(* other would have to begin, and then both have the same first part.      *)
LEMMA RunsApart ==
    ASSUME NEW D \in SUBSET Nat, NEW l \in Seq(D), NEW m \in Seq(D), NEW n, WholeAt(l, n), HeadAt(m),
           NEW j \in DOMAIN l, NEW k \in DOMAIN m, l[j] = m[k], l[1] < m[1]
    PROVE  FALSE
<1>1. PICK x \in Nat, a \in Nat, b \in Nat : x = Len(l) /\ a = l[1] /\ b = m[1]
  <2>1. Len(l) \in Nat /\ 1 \in DOMAIN l /\ 1 \in DOMAIN m
    BY DEF WholeAt, HeadAt
  <2>2. l[1] \in D /\ m[1] \in D
    BY <2>1
  <2>3. l[1] \in Nat /\ m[1] \in Nat
    BY ONLY <2>2, D \in SUBSET Nat
  <2>. QED
    BY <2>1, <2>3
<1>2. DOMAIN l = 1..x /\ x >= 3 /\ j \in 1..x /\ k \in Nat /\ k >= 1
  BY <1>1 DEF WholeAt, HeadAt
<1>3. (\A i \in 1..x : l[i] = a + i - 1) /\ m[k] = b + k - 1 /\ a < b
  BY <1>1, <1>2 DEF WholeAt, HeadAt, Consecutive
<1>4. a + j - 1 = b + k - 1
  BY <1>2, <1>3
<1>5. PICK i \in Nat : i = b - a + 1 /\ i \in 2..x
  BY ONLY <1>2, <1>3, <1>4, a \in Nat, b \in Nat, x \in Nat, j \in Nat
<1>6. l[i] = b
  BY ONLY <1>2, <1>3, <1>5, a \in Nat, b \in Nat, x \in Nat
<1>7. i = 2 \/ i \in 3..Len(l)
  BY ONLY <1>1, <1>5, x \in Nat
<1>8. slots[l[i]].tag = "primary"
  BY <1>1, <1>6 DEF HeadAt
<1>. QED
  BY <1>7, <1>8 DEF WholeAt, HeadAt, NamesAt

LEMMA NamesApart ==
    ASSUME NEW D \in SUBSET Nat, NEW l \in Seq(D), NEW m \in Seq(D),
           NEW n \in Names, NEW p \in Names, n # p, WholeAt(l, n), WholeAt(m, p),
           NEW j \in DOMAIN l, NEW k \in DOMAIN m
    PROVE  l[j] # m[k]
<1>1. SUFFICES ASSUME l[j] = m[k] PROVE FALSE
  OBVIOUS
<1>2. HeadAt(l) /\ HeadAt(m) /\ Len(l) >= 3 /\ Len(m) >= 3
  BY DEF WholeAt, HeadAt
<1>3. ~(l[1] < m[1])
  BY <1>1, <1>2, RunsApart
<1>4. ~(m[1] < l[1])
  BY <1>1, <1>2, RunsApart
<1>5. 1 \in DOMAIN l /\ 3 \in DOMAIN l /\ 1 \in DOMAIN m /\ 3 \in DOMAIN m
  BY <1>2
<1>6. PICK a \in Nat, b \in Nat : a = l[1] /\ b = m[1]
  <2>1. l[1] \in D /\ m[1] \in D
    BY <1>5
  <2>2. l[1] \in Nat /\ m[1] \in Nat
    BY ONLY <2>1, D \in SUBSET Nat
  <2>. QED
    BY <2>2
<1>7. a = b
  BY <1>3, <1>4, <1>6
<1>8. l[3] = a + 3 - 1 /\ m[3] = b + 3 - 1
  BY <1>2, <1>5, <1>6 DEF HeadAt, Consecutive
<1>9. 3 \in 3..Len(l) /\ 3 \in 3..Len(m)
  BY <1>2
<1>10. PICK i : i = 3 - 2
  OBVIOUS
<1>11. slots[l[3]].part = NamePart(n, i) /\ slots[m[3]].part = NamePart(p, i)
  BY <1>9, <1>10 DEF WholeAt, NamesAt
<1>12. ASSUME NEW q \in Names PROVE NamePart(q, i) = <<q, i>>
  <2>1. Units[q] \in Nat \ {0} /\ UnitsPerEntry \in Nat
    BY Parameters
  <2>2. (i - 1) * UnitsPerEntry = 0
    BY <1>10, <2>1
  <2>. QED
    BY <2>1, <2>2 DEF NamePart
<1>. QED
  BY <1>7, <1>8, <1>11, <1>12

(* The edits of a slot.                                                    *)
LEMMA EditedAlike ==
    ASSUME NEW s \in Slot
    PROVE  /\ s.tag = "primary" => \A q \in Seq(Contents) : Alike(WithSum(s, q), s) /\ WithSum(s, q).sum = q
           /\ s.tag = "primary" => Unused(s).sum = s.sum
           /\ s.tag = "stream" => \A x \in Stream : Alike(WithData(s, x), s)
           /\ s.tag = "stream" => \A n \in Nat : WithLen(s, n).used = s.used /\ WithLen(s, n).len = n
<1>. DEFINE C == Contents
            B == BOOLEAN
            Q == Seq(C)
            S1 == [tag : {"end"}, used : {FALSE}]
            S2 == [tag : {"pad", "system"}, used : B]
            S3 == [tag : {"primary"}, used : B, secondaries : Nat, sum : {<<>>}]
            S4 == [tag : {"stream"}, used : B, len : Nat, stream : Stream]
            S5 == [tag : {"name"}, used : B, part : Parts]
            S6 == [tag : {"primary"}, used : B, secondaries : Nat, sum : Q]
<1>1. s \in C \/ s \in S6
  BY DEF Slot
<1>2. C = S1 \cup S2 \cup S3 \cup S4 \cup S5 /\ <<>> \in Q
  BY DEF Contents
<1>. HIDE DEF C, Q
<1>3. /\ s.tag = "primary" => s \in S6
      /\ s.tag = "stream" => s \in S4
  BY <1>1, <1>2
<1>4. ASSUME s \in S6, NEW q \in Q
      PROVE  Alike([s EXCEPT !.sum = q], s) /\ [s EXCEPT !.sum = q].sum = q /\ [s EXCEPT !.used = FALSE].sum = s.sum
  BY ONLY <1>4 DEF Alike
<1>5. ASSUME s \in S4, NEW n \in Nat
      PROVE  [s EXCEPT !.len = n].used = s.used /\ [s EXCEPT !.len = n].len = n
  BY ONLY <1>5
<1>6. ASSUME s \in S4, NEW x \in Stream PROVE Alike([s EXCEPT !.stream = x], s)
  BY ONLY <1>6 DEF Alike
<1>. HIDE DEF S4, S6
<1>. QED
  BY <1>2, <1>3, <1>4, <1>5, <1>6 DEF Q, C, WithSum, Unused, WithData, WithLen

(* Nothing is written.                                                     *)
LEMMA SameWhole ==
    ASSUME SetInv, slots' = slots, handle' = handle, decoder' = decoder
    PROVE  /\ decoder' = FreshDecoder /\ SumsInv' /\ HandlesWhole'
           /\ \A l : Apart(l) => Apart(l)'
           /\ \A l, n : WholeAt(l, n) => WholeAt(l, n)'
           /\ \A l : HeadAt(l) => HeadAt(l)'
<1>1. \A l, n : WholeAt(l, n) => WholeAt(l, n)'
  BY DEF WholeAt, HeadAt, Consecutive, NamesAt
<1>2. \A l : HeadAt(l) => HeadAt(l)'
  BY DEF HeadAt, Consecutive
<1>3. SumsInv'
  BY DEF SetInv, SumsInv, SumsWhole, Covers
<1>4. HandlesWhole'
  BY <1>1 DEF SetInv, HandlesWhole, WholeAt, HeadAt, Consecutive, NamesAt
<1>. QED
  BY <1>1, <1>2, <1>3, <1>4 DEF SetInv, Apart

(* The slots of an open File.                                              *)
LEMMA HandleSlots ==
    ASSUME TypeInv, NEW n \in Names
    PROVE  /\ handle[n] \in Seq(DOMAIN slots) /\ Present(handle[n])
           /\ \A j \in DOMAIN handle[n] : handle[n][j] \in DOMAIN slots
<1>1. handle[n] \in Locators /\ Present(handle[n])
  BY DEF TypeInv, HandlesOK
<1>2. PICK l \in Seq(DOMAIN slots) : l = handle[n]
  BY <1>1 DEF Locators
<1>. QED
  BY <1>1, <1>2

(* What leaves each slot of an open File one of the same set leaves its    *)
(* set whole.                                                              *)
LEMMA HandlesAlike ==
    ASSUME TypeInv, HandlesWhole, handle' = handle,
           \A n \in Names : \A j \in DOMAIN handle[n] : Alike(slots'[handle[n][j]], slots[handle[n][j]])
    PROVE  HandlesWhole' /\ \A l : Apart(l) => Apart(l)'
<1>1. ASSUME NEW n \in Names, handle[n] # <<>> PROVE WholeAt(handle[n], n)'
  <2>1. PICK l \in Seq(DOMAIN slots) : l = handle[n]
    BY HandleSlots
  <2>2. WholeAt(l, n) /\ \A k \in DOMAIN l : Alike(slots'[l[k]], slots[l[k]])
    BY <1>1, <2>1 DEF HandlesWhole
  <2>3. WholeAt(l, n)'
    BY <2>2, WholeKept
  <2>. QED
    BY <2>1, <2>3 DEF WholeAt, HeadAt, Consecutive, NamesAt
<1>. QED
  BY <1>1 DEF HandlesWhole, Apart

LEMMA AlikeItself == ASSUME NEW s \in Slot PROVE Alike(s, s)
BY DEF Alike

(* One slot is written: one of the same set still, or one of no open File. *)
LEMMA EditWhole ==
    ASSUME TypeInv, SetInv, NEW i \in DOMAIN slots, NEW s \in Slot, slots' = [slots EXCEPT ![i] = s],
           handle' = handle, decoder' = decoder,
           Alike(s, slots[i]) \/ \A n \in Names : \A j \in DOMAIN handle[n] : handle[n][j] # i,
           s.tag = "primary" /\ s.sum # <<>> =>
               (slots[i].tag = "primary" /\ s.sum = slots[i].sum) \/ \E n \in Names : Covers(s.sum, n)
    PROVE  /\ decoder' = FreshDecoder /\ SumsInv' /\ HandlesWhole' /\ \A l : Apart(l) => Apart(l)'
           /\ slots'[i] = s /\ \A j \in DOMAIN slots : j # i => slots'[j] = slots[j]
           /\ DOMAIN slots' = DOMAIN slots
<1>1. slots \in Seq(Slot) /\ HandlesWhole /\ SumsInv /\ decoder = FreshDecoder
  BY DEF TypeInv, DeviceOK, SetInv
<1>2. DOMAIN slots' = DOMAIN slots /\ slots'[i] = s /\ \A j \in DOMAIN slots : j # i => slots'[j] = slots[j]
  OBVIOUS
<1>3. SumsInv'
  <2>. SUFFICES ASSUME InitialSumsWhole PROVE SumsWhole'
    BY DEF SumsInv
  <2>1. ASSUME NEW j \in DOMAIN slots, slots'[j].tag = "primary", slots'[j].sum # <<>>
        PROVE  \E n \in Names : Covers(slots'[j].sum, n)
    <3>1. CASE j = i
      BY <1>1, <1>2, <2>1, <3>1 DEF SumsInv, SumsWhole
    <3>2. CASE j # i
      BY <1>1, <1>2, <2>1, <3>2 DEF SumsInv, SumsWhole
    <3>. QED
      BY <3>1, <3>2
  <2>. QED
    BY <1>2, <2>1 DEF SumsWhole, Covers
<1>4. ASSUME NEW n \in Names, NEW j \in DOMAIN handle[n]
      PROVE  Alike(slots'[handle[n][j]], slots[handle[n][j]])
  <2>1. PICK k \in DOMAIN slots : k = handle[n][j]
    BY HandleSlots
  <2>2. slots[k] \in Slot
    BY <1>1
  <2>3. CASE k = i
    BY <1>2, <2>1, <2>3
  <2>4. CASE k # i
    BY <1>2, <2>1, <2>2, <2>4, AlikeItself
  <2>. QED
    BY <2>3, <2>4
<1>5. HandlesWhole' /\ \A l : Apart(l) => Apart(l)'
  BY <1>1, <1>4, HandlesAlike
<1>. QED
  BY <1>1, <1>2, <1>3, <1>5

-----------------------------------------------------------------------------
(* Whole sets, step by step.                                               *)

LEMMA SetInit == Init => SetInv
<1>. SUFFICES ASSUME Init PROVE SetInv
  OBVIOUS
<1>1. op.pc = "idle" /\ op.kind = "none" /\ op.old = <<>> /\ \A n \in Names : handle[n] = <<>>
  BY IdleOK DEF Init
<1>2. SumsInv
  BY DEF Init, SumsInv, InitialSumsWhole, SumsWhole
<1>3. OldWhole
  BY <1>1 DEF OldWhole, At, Apart
<1>. QED
  BY <1>1, <1>2, <1>3 DEF SetInv, HandlesWhole, NewWhole, At, Init

(* An operation that is over.                                              *)
LEMMA OverWhole ==
    ASSUME op' = Idle
    PROVE  OldWhole' /\ NewWhole'
<1>1. op'.pc = "idle" /\ op'.kind = "none" /\ op'.old = <<>>
  BY IdleOK
<1>. QED
  BY <1>1 DEF OldWhole, NewWhole, At, Apart

(* The set that a call finds is whole, and apart from those of open Files. *)
LEMMA FoundApart ==
    ASSUME TypeInv, SetInv, NEW n \in Names, handle[n] = <<>>, NEW d, d = Begin(n), d.out = "entry"
    PROVE  WholeAt(d.locs, n) /\ Apart(d.locs)
<1>1. d = Lookup(FreshDecoder, n)
  BY DEF SetInv, Begin
<1>2. WholeAt(d.locs, n)
  BY <1>1, FoundWhole
<1>3. PICK l \in Seq(DOMAIN slots) : l = d.locs
  BY FoundOK DEF Locators
<1>4. DOMAIN slots \in SUBSET Nat
  <2>1. slots \in Seq(Slot)
    BY DEF TypeInv, DeviceOK
  <2>. QED
    BY <2>1
<1>5. ASSUME NEW m \in Names, NEW k \in DOMAIN l, NEW j \in DOMAIN handle[m], handle[m][j] = l[k]
      PROVE  FALSE
  <2>1. PICK h \in Seq(DOMAIN slots) : h = handle[m]
    BY HandleSlots
  <2>2. h # <<>> /\ m # n
    BY <1>5, <2>1
  <2>3. WholeAt(h, m)
    BY <2>1, <2>2 DEF SetInv, HandlesWhole
  <2>4. h[j] # l[k]
    BY <1>2, <1>3, <1>4, <2>1, <2>2, <2>3, NamesApart
  <2>. QED
    BY <1>5, <2>1, <2>4
<1>. QED
  BY <1>2, <1>3, <1>5 DEF Apart

(* The operation of another step goes on with the slots it had.            *)
LEMMA SetLookups ==
    ASSUME TypeInv, SetInv, decoder' = FreshDecoder, NEW n \in Names,
           \/ Open(n) \/ Close(n) \/ LookupFails(n) \/ \E k \in Nat : LookupIoError(n, k)
    PROVE  SetInv'
<1>1. /\ slots' = slots /\ op' = op /\ op.pc = "idle"
  BY DEF Open, Close, LookupFails, LookupIoError, device, At
<1>2. op.kind = "none" /\ op.old = <<>>
  BY <1>1 DEF SetInv, OldWhole, At
<1>3. OldWhole' /\ NewWhole'
  BY <1>1, <1>2 DEF OldWhole, NewWhole, At, Apart
<1>4. decoder' = FreshDecoder /\ SumsInv'
  BY <1>1 DEF SetInv, SumsInv, SumsWhole, Covers
<1>5. HandlesWhole'
  <2>1. ASSUME NEW m \in Names, handle'[m] # <<>> PROVE WholeAt(handle'[m], m)
    <3>1. CASE handle' = handle
      BY <2>1, <3>1 DEF SetInv, HandlesWhole
    <3>2. CASE Open(n)
      <4>1. handle' = [handle EXCEPT ![n] = Begin(n).locs] /\ handle[n] = <<>> /\ Begin(n).out = "entry"
        BY <3>2 DEF Open
      <4>2. WholeAt(Begin(n).locs, n)
        BY <4>1, FoundApart
      <4>3. handle \in [Names -> Locators]
        BY DEF TypeInv, HandlesOK
      <4>. QED
        BY <2>1, <4>1, <4>2, <4>3 DEF SetInv, HandlesWhole
    <3>3. CASE Close(n)
      <4>1. handle' = [handle EXCEPT ![n] = <<>>] /\ handle \in [Names -> Locators]
        BY <3>3 DEF Close, TypeInv, HandlesOK
      <4>. QED
        BY <2>1, <4>1 DEF SetInv, HandlesWhole
    <3>. QED
      BY <3>1, <3>2, <3>3 DEF LookupFails, LookupIoError
  <2>. QED
    BY <1>1, <2>1 DEF HandlesWhole, WholeAt, HeadAt, Consecutive, NamesAt
<1>. QED
  BY <1>3, <1>4, <1>5 DEF SetInv

(* What an operation begins with.                                          *)
LEMMA SetBegun ==
    ASSUME SetInv, UNCHANGED device, handle' = handle, decoder' = FreshDecoder,
           op'.kind = "update" => op'.old = handle[op'.name],
           op'.kind # "update" => Apart(op'.old),
           op'.pc \in {"search", "stream", "retire", "restream"},
           op'.pc = "search" => op'.kind \in {"create", "rename"},
           op'.pc \in {"retire", "restream"} => op'.kind \in {"remove", "rename"},
           op'.pc = "stream" => op'.kind \in {"create", "update"} /\ WholeAt(op'.old, op'.name),
           op'.pc = "restream" => HeadAt(op'.old)
    PROVE  SetInv'
<1>1. slots' = slots /\ decoder' = decoder
  BY DEF device, SetInv
<1>2. PICK o : o = op'
  OBVIOUS
<1>3. /\ decoder' = FreshDecoder /\ SumsInv' /\ HandlesWhole'
      /\ \A l : Apart(l) => Apart(l)'
      /\ \A l, n : WholeAt(l, n) => WholeAt(l, n)'
      /\ \A l : HeadAt(l) => HeadAt(l)'
  BY <1>1, SameWhole
<1>4. /\ o.kind # "update" => Apart(o.old)'
      /\ o.pc = "stream" => WholeAt(o.old, o.name)'
      /\ o.pc = "restream" => HeadAt(o.old)'
  BY <1>2, <1>3
<1>5. OldWhole'
  BY <1>2, <1>4 DEF OldWhole, At, Apart, WholeAt, HeadAt, Consecutive, NamesAt
<1>6. NewWhole'
  BY DEF NewWhole, At
<1>. QED
  BY <1>3, <1>5, <1>6 DEF SetInv

LEMMA SetBegins ==
    ASSUME TypeInv, SetInv, decoder' = FreshDecoder, NEW n \in Names,
           \/ CreateAbsent(n) \/ CreateExisting(n) \/ Remove(n) \/ \E s \in Streams : Update(n, s)
    PROVE  SetInv'
<1>1. UNCHANGED device /\ handle' = handle
  BY DEF CreateAbsent, CreateExisting, Remove, Update
<1>2. PICK d : d = Begin(n)
  OBVIOUS
<1>. DEFINE l == d.locs
            b == SlotsAt(l)
<1>. HIDE DEF b, l
<1>3. ASSUME handle[n] = <<>>, d.out = "entry"
      PROVE  WholeAt(l, n) /\ Apart(l)
  BY <1>2, <1>3, FoundApart DEF l
<1>4. CASE CreateAbsent(n)
  <2>1. op' = [Idle EXCEPT !.pc = "search", !.kind = "create", !.name = n]
    BY <1>4 DEF CreateAbsent
  <2>2. op'.pc = "search" /\ op'.kind = "create" /\ op'.old = <<>>
    BY ONLY <2>1 DEF Idle
  <2>3. Apart(<<>>)
    BY DEF Apart
  <2>. QED
    BY <1>1, <2>2, <2>3, SetBegun
<1>5. CASE CreateExisting(n)
  <2>1. /\ op' = [Idle EXCEPT !.pc = "stream", !.kind = "create", !.name = n, !.old = l, !.before = b]
        /\ d.out = "entry" /\ handle[n] = <<>>
    BY <1>2, <1>5 DEF CreateExisting, l, b
  <2>2. op'.pc = "stream" /\ op'.kind = "create" /\ op'.old = l /\ op'.name = n
    BY ONLY <2>1 DEF Idle
  <2>. QED
    BY <1>1, <1>3, <2>1, <2>2, SetBegun
<1>6. CASE Remove(n)
  <2>1. /\ op' = [Idle EXCEPT !.pc = "retire", !.kind = "remove", !.name = n, !.old = l, !.before = b, !.i = 1]
        /\ d.out = "entry" /\ handle[n] = <<>>
    BY <1>2, <1>6 DEF Remove, l, b
  <2>2. op'.pc = "retire" /\ op'.kind = "remove" /\ op'.old = l
    BY ONLY <2>1 DEF Idle
  <2>. QED
    BY <1>1, <1>3, <2>1, <2>2, SetBegun
<1>7. ASSUME NEW s \in Streams, Update(n, s) PROVE SetInv'
  <2>. DEFINE h == handle[n]
              c == SlotsAt(h)
  <2>1. WholeAt(h, n)
    BY <1>7 DEF SetInv, HandlesWhole, Update
  <2>. HIDE DEF c, h
  <2>2. op' = [Idle EXCEPT !.pc = "stream", !.kind = "update", !.name = n, !.stream = s, !.old = h, !.before = c]
    BY <1>7 DEF Update, c, h
  <2>3. op'.pc = "stream" /\ op'.kind = "update" /\ op'.old = h /\ op'.name = n
    BY ONLY <2>2 DEF Idle
  <2>4. h = handle[n]
    BY DEF h
  <2>. QED
    BY <1>1, <2>1, <2>3, <2>4, SetBegun
<1>. QED
  BY <1>4, <1>5, <1>6, <1>7

LEMMA SetRename ==
    ASSUME TypeInv, SetInv, decoder' = FreshDecoder, "renameOpen" \notin Ops,
           NEW n \in Names, NEW m \in Names, Rename(n, m)
    PROVE  SetInv'
<1>1. UNCHANGED device /\ handle' = handle
  BY DEF Rename
<1>2. PICK d : d = Begin(n)
  OBVIOUS
<1>. DEFINE l == d.locs
            b == SlotsAt(d.locs)
            r == Relocated(d.stream)
<1>3. /\ d.out = "entry" /\ handle[n] = <<>>
      /\ op' = IF SetSize(m) > Len(d.locs)
               THEN [[Idle EXCEPT !.kind = "rename", !.name = m, !.old = d.locs, !.before = SlotsAt(d.locs)]
                        EXCEPT !.pc = "search", !.stream = Relocated(d.stream)]
               ELSE [[Idle EXCEPT !.kind = "rename", !.name = m, !.old = d.locs, !.before = SlotsAt(d.locs)]
                        EXCEPT !.pc = "restream"]
  BY <1>2 DEF Rename
<1>4. WholeAt(l, n) /\ Apart(l) /\ HeadAt(l)
  BY <1>2, <1>3, FoundApart DEF WholeAt
<1>. HIDE DEF b, l, r
<1>5. \/ op' = [Idle EXCEPT !.kind = "rename", !.name = m, !.old = l, !.before = b, !.pc = "search", !.stream = r]
      \/ op' = [Idle EXCEPT !.kind = "rename", !.name = m, !.old = l, !.before = b, !.pc = "restream"]
  BY <1>3 DEF b, l, r, Idle
<1>6. op'.pc \in {"search", "restream"} /\ op'.kind = "rename" /\ op'.old = l
  BY ONLY <1>5 DEF Idle
<1>. QED
  BY <1>1, <1>4, <1>6, SetBegun

(* Free slots and padding belong to no open File.                          *)
LEMMA VacantApart ==
    ASSUME TypeInv, HandlesWhole, NEW l, \A k \in DOMAIN l : Vacant(l[k])
    PROVE  Apart(l)
<1>1. ASSUME NEW n \in Names, NEW k \in DOMAIN l, NEW j \in DOMAIN handle[n], handle[n][j] = l[k]
      PROVE  FALSE
  <2>1. PICK h \in Seq(DOMAIN slots) : h = handle[n]
    BY HandleSlots
  <2>2. h # <<>>
    BY <1>1, <2>1
  <2>3. WholeAt(h, n)
    BY <2>1, <2>2 DEF HandlesWhole
  <2>4. slots[h[j]].used /\ slots[h[j]].tag \in {"primary", "stream", "name"}
    BY <2>1, <2>3, WholeHeld
  <2>. QED
    BY <1>1, <2>1, <2>4 DEF Vacant
<1>. QED
  BY <1>1 DEF Apart

(* Consecutive slots from a first one.                                     *)
LEMMA RunOf ==
    ASSUME NEW l, NEW w \in Nat \ {0}, DOMAIN l = 1..w, NEW first \in Nat,
           \A k \in 1..w : l[k] = first + k - 1
    PROVE  Consecutive(l)
<1>1. l[1] = first
  OBVIOUS
<1>. QED
  BY <1>1 DEF Consecutive

LEMMA SetSearch ==
    ASSUME TypeInv, SetInv, Search
    PROVE  SetInv'
<1>1. /\ slots' = slots /\ handle' = handle /\ decoder' = decoder /\ op.pc = "search"
      /\ slots \in Seq(Slot)
  BY DEF Search, device, At, TypeInv, DeviceOK
<1>2. PICK o : o = op'
  OBVIOUS
<1>3. /\ o.kind = op.kind /\ o.old = op.old /\ o.pc = "write" /\ o.i = 1 /\ o.name = op.name /\ o.locs \in Seq(DOMAIN slots)
      /\ Wanted \in Nat \ {0, 1, 2} /\ Len(o.locs) = Wanted /\ DOMAIN o.locs = 1..Wanted
  <2>1. o \in OpType
    BY <1>2, SearchOK
  <2>2. o.locs \in Locators
    BY ONLY <2>1 DEF OpType
  <2>. QED
    BY <1>2, <2>2, SearchOK DEF Locators
<1>4. PICK first \in Nat \ {0} :
         /\ \A k \in 1..Wanted : o.locs[k] = first + k - 1
         /\ \A j \in first..(first + Wanted - 1) : ~slots[j].used
  BY <1>2, SearchOK
<1>5. Consecutive(o.locs)
  BY <1>3, <1>4, RunOf
<1>6. \A k \in DOMAIN o.locs : Vacant(o.locs[k])
  <2>1. PICK w \in Nat : w = Wanted
    BY <1>3
  <2>2. \A k \in 1..w : first + k - 1 \in first..(first + w - 1)
    BY ONLY first \in Nat \ {0}, w \in Nat
  <2>. QED
    BY <1>3, <1>4, <2>1, <2>2 DEF Vacant
<1>7. Apart(o.locs)
  BY <1>6, VacantApart DEF SetInv
<1>8. PICK m : m = op.old /\ op.kind # "update" /\ Apart(m) /\ op.kind \in {"create", "rename"}
  BY <1>1 DEF SetInv, OldWhole
<1>9. decoder' = FreshDecoder /\ SumsInv' /\ HandlesWhole' /\ Apart(o.locs)' /\ Apart(m)'
  BY <1>1, <1>7, <1>8, SameWhole
<1>10. OldWhole'
  BY <1>2, <1>3, <1>8, <1>9 DEF OldWhole, At, Apart
<1>11. NewWhole'
  <2>1. 1..(1 - 1) = {}
    OBVIOUS
  <2>. QED
    BY <1>2, <1>3, <1>5, <1>9, <2>1 DEF NewWhole, At, Apart, Consecutive, Wanted
<1>. QED
  BY <1>9, <1>10, <1>11 DEF SetInv

LEMMA SetReachEnd ==
    ASSUME TypeInv, SetInv, ReachEnd
    PROVE  SetInv'
<1>1. /\ slots' = slots /\ handle' = handle /\ decoder' = decoder /\ op.pc = "search"
      /\ slots \in Seq(Slot) /\ op \in OpType /\ ViewOK(LookupSlots)
  BY TypeInvImplies, ViewsOK DEF ReachEnd, device, At, TypeInv, DeviceOK, OpOK
<1>2. PICK r : r = TailRun(LookupSlots)
  OBVIOUS
<1>3. op' = [op EXCEPT !.pc = "link", !.run = r] /\ CanGrow
  BY <1>2 DEF ReachEnd
<1>4. r \in 0..Len(LookupSlots) /\ \A j \in (Len(LookupSlots) - r + 1)..Len(LookupSlots) : ~LookupSlots[j].used
  BY <1>1, <1>2, TailOK
<1>5. op'.pc = "link" /\ op'.run = r /\ op'.kind = op.kind /\ op'.old = op.old
  <2>1. r \in Nat
    BY <1>1, <1>4 DEF ViewOK
  <2>. QED
    BY ONLY <1>1, <1>3, <2>1 DEF OpType
<1>6. Len(LookupSlots) = Len(slots)
  <2>1. Kind = "root" => LookupSlots = slots
    BY DEF LookupSlots
  <2>2. Kind = "chained" => LookupSlots = Clusters(length) /\ Len(slots) = length * SlotsPerCluster
    BY <1>3 DEF LookupSlots, CanGrow
  <2>3. Kind = "chained" => Len(Clusters(length)) = length * SlotsPerCluster
    BY TypeInvImplies, ClustersOK DEF ChainOK
  <2>. QED
    BY <1>3, <2>1, <2>2, <2>3 DEF CanGrow
<1>7. \A i \in DOMAIN slots : i > Len(slots) - r => Vacant(i)
  <2>1. Len(slots) \in Nat /\ r \in Nat /\ r <= Len(slots) /\ DOMAIN slots = 1..Len(slots)
    BY <1>1, <1>4, <1>6
  <2>2. \A i \in 1..Len(slots) : LookupSlots[i] = slots[i]
    BY <1>1, <1>6 DEF ViewOK
  <2>. QED
    BY <1>4, <1>6, <2>1, <2>2 DEF Vacant
<1>8. PICK m : m = op.old /\ op.kind # "update" /\ Apart(m) /\ op.kind \in {"create", "rename"}
  BY <1>1 DEF SetInv, OldWhole
<1>9. decoder' = FreshDecoder /\ SumsInv' /\ HandlesWhole' /\ Apart(m)'
  BY <1>1, <1>8, SameWhole
<1>10. OldWhole'
  BY <1>5, <1>8, <1>9 DEF OldWhole, At, Apart
<1>11. NewWhole'
  BY <1>1, <1>5, <1>7 DEF NewWhole, At, Vacant
<1>. QED
  BY <1>9, <1>10, <1>11 DEF SetInv

(* The set that was to be written keeps the room it has.                   *)
LEMMA SetGrown ==
    ASSUME TypeInv, SetInv, op.pc \in {"pad", "sealLength"}, op' = AfterGrowth, handle' = handle
    PROVE  OldWhole' /\ NewWhole'
<1>1. PICK o : o = op'
  OBVIOUS
<1>2. /\ o \in OpType /\ o.name = op.name /\ o.kind = op.kind /\ o.old = op.old
      /\ \/ o.pc = "search"
         \/ /\ o.pc = "write" /\ o.i = 1
            /\ Wanted \in Nat \ {0, 1, 2} /\ Len(o.locs) = Wanted /\ DOMAIN o.locs = 1..Wanted
            /\ FirstLocator \in 1..OldEnd /\ FirstLocator + Wanted - 1 <= Len(slots)
            /\ FirstLocator = OldEnd - op.run + 1
            /\ \A k \in 1..Wanted : o.locs[k] = FirstLocator + k - 1
  BY <1>1, GrowthOK
<1>3. op.kind # "update" /\ Apart(op.old) /\ op.kind \in {"create", "rename"}
  BY DEF SetInv, OldWhole
<1>4. OldWhole'
  BY <1>1, <1>2, <1>3 DEF OldWhole, At, Apart
<1>5. CASE o.pc = "search"
  BY <1>1, <1>4, <1>5 DEF NewWhole, At
<1>6. CASE o.pc = "write"
  <2>1. PICK w \in Nat, f \in Nat, e \in Nat, r \in Nat, n \in Nat :
           /\ w = Wanted /\ f = FirstLocator /\ e = OldEnd /\ r = op.run /\ n = Len(slots)
    <3>1. op.run \in Nat /\ Len(slots) \in Nat /\ OldEnd \in Nat
      <4>1. slots \in Seq(Slot) /\ op \in OpType /\ Len(slots) >= 2 * SlotsPerCluster
        BY DEF TypeInv, DeviceOK, OpOK, RoomOK
      <4>2. Len(slots) \in Nat /\ SlotsPerCluster \in Nat
        BY <4>1, Parameters
      <4>. QED
        BY <4>1, <4>2 DEF OpType, OldEnd
    <3>2. Wanted \in Nat /\ FirstLocator \in 1..OldEnd
      BY <1>2, <1>6
    <3>3. FirstLocator \in Nat
      BY <3>2
    <3>. QED
      BY ONLY <3>1, <3>2, <3>3
  <2>2. /\ w >= 3 /\ f >= 1 /\ f <= e /\ f + w - 1 <= n /\ f = e - r + 1 /\ DOMAIN slots = 1..n
        /\ DOMAIN o.locs = 1..w /\ \A k \in 1..w : o.locs[k] = f + k - 1
    <3>1. slots \in Seq(Slot)
      BY DEF TypeInv, DeviceOK
    <3>. QED
      BY <1>2, <1>6, <2>1, <3>1
  <2>3. \A k \in 1..w : f + k - 1 \in 1..n /\ f + k - 1 > e - r
    BY ONLY <2>2, w \in Nat, f \in Nat, e \in Nat, r \in Nat, n \in Nat
  <2>4. \A i \in 1..n : i > e - r => Vacant(i)
    BY <2>1, <2>2 DEF SetInv, NewWhole
  <2>5. \A k \in DOMAIN o.locs : Vacant(o.locs[k])
    BY <2>2, <2>3, <2>4
  <2>6. Apart(o.locs)
    BY <2>5, VacantApart DEF SetInv
  <2>7. Consecutive(o.locs)
    <3>1. w \in Nat \ {0}
      BY <2>2
    <3>. QED
      BY <2>2, <3>1, RunOf
  <2>8. 1..(1 - 1) = {}
    OBVIOUS
  <2>. QED
    BY <1>1, <1>2, <1>4, <1>6, <2>6, <2>7, <2>8 DEF NewWhole, At, Apart, Consecutive, Wanted
<1>. QED
  BY <1>2, <1>4, <1>5, <1>6

LEMMA SetLink ==
    ASSUME TypeInv, SetInv, LinkCluster
    PROVE  SetInv'
<1>1. /\ slots \in Seq(Slot) /\ op \in OpType /\ op.pc = "link" /\ decoder' = decoder /\ handle' = handle
      /\ op' = [op EXCEPT !.pc = "pad"]
  BY DEF LinkCluster, TypeInv, DeviceOK, OpOK, At
<1>2. /\ slots' \in Seq(Slot) /\ Len(slots') = Len(slots) + SlotsPerCluster
      /\ \A i \in DOMAIN slots : slots'[i] = slots[i]
      /\ \A i \in DOMAIN slots' : i > Len(slots) => slots'[i].tag = "end"
  BY <1>1, Linked
<1>3. op'.pc = "pad" /\ op'.kind = op.kind /\ op'.old = op.old /\ op'.run = op.run
  BY ONLY <1>1 DEF OpType
<1>4. /\ Len(slots) \in Nat /\ DOMAIN slots = 1..Len(slots) /\ SlotsPerCluster \in Nat
      /\ DOMAIN slots' = 1..Len(slots') /\ op.run \in Nat
  BY <1>1, <1>2, Parameters DEF OpType
<1>5. \A i \in DOMAIN slots' : i \in DOMAIN slots \/ i > Len(slots)
  BY <1>2, <1>4
<1>6. \A n \in Names : \A j \in DOMAIN handle[n] : Alike(slots'[handle[n][j]], slots[handle[n][j]])
  BY <1>1, <1>2, HandleSlots DEF Alike
<1>7. HandlesWhole' /\ \A l : Apart(l) => Apart(l)'
  BY <1>1, <1>6, HandlesAlike DEF SetInv
<1>8. SumsInv'
  <2>1. \A i \in DOMAIN slots' : slots'[i].tag = "primary" => i \in DOMAIN slots /\ slots'[i] = slots[i]
    BY <1>2, <1>5
  <2>2. SumsWhole => SumsWhole'
    BY <2>1 DEF SumsWhole, Covers
  <2>. QED
    BY <2>2 DEF SetInv, SumsInv
<1>9. PICK m : m = op.old /\ op.kind # "update" /\ Apart(m) /\ op.kind \in {"create", "rename"}
  BY <1>1 DEF SetInv, OldWhole
<1>10. OldWhole'
  BY <1>3, <1>7, <1>9 DEF OldWhole, At, Apart
<1>11. NewWhole'
  <2>1. OldEnd' = Len(slots)
    BY <1>2, <1>4 DEF OldEnd
  <2>2. ASSUME NEW i \in DOMAIN slots', i > Len(slots) - op.run PROVE Vacant(i)'
    <3>1. CASE i \in DOMAIN slots
      BY <1>1, <1>2, <2>2, <3>1 DEF SetInv, NewWhole, Vacant, At
    <3>2. CASE i > Len(slots)
      <4>1. slots'[i] \in Slot /\ slots'[i].tag = "end"
        BY <1>2, <2>2, <3>2
      <4>. QED
        BY <4>1, SlotFields DEF Vacant
    <3>. QED
      BY <1>5, <2>2, <3>1, <3>2
  <2>. QED
    BY <1>3, <2>1, <2>2 DEF NewWhole, At, Vacant
<1>. QED
  BY <1>1, <1>7, <1>8, <1>10, <1>11 DEF SetInv

LEMMA SetPad ==
    ASSUME TypeInv, SetInv, PadOldTail
    PROVE  SetInv'
<1>1. /\ slots \in Seq(Slot) /\ op \in OpType /\ op.pc = "pad" /\ decoder' = decoder /\ handle' = handle
      /\ op' = AfterPad /\ slots' = [i \in DOMAIN slots |-> Padded(i)]
  BY DEF PadOldTail, TypeInv, DeviceOK, OpOK, At
<1>2. /\ Len(slots') = Len(slots) /\ DOMAIN slots' = DOMAIN slots
      /\ \A i \in DOMAIN slots : slots'[i] = Padded(i)
  BY <1>1, PaddedKept
<1>3. \A i \in DOMAIN slots : slots'[i] = slots[i] \/ (slots[i].tag = "end" /\ slots'[i] = PadSlot)
  BY <1>2 DEF Padded
<1>4. PadSlot.tag = "pad"
  BY DEF PadSlot
<1>5. \A n \in Names : \A j \in DOMAIN handle[n] : Alike(slots'[handle[n][j]], slots[handle[n][j]])
  BY <1>3, HandleSlots DEF Alike, Present
<1>6. HandlesWhole' /\ \A l : Apart(l) => Apart(l)'
  BY <1>1, <1>5, HandlesAlike DEF SetInv
<1>7. SumsInv'
  BY <1>2, <1>3, <1>4 DEF SetInv, SumsInv, SumsWhole, Covers
<1>8. OldWhole' /\ NewWhole'
  <2>1. CASE Kind = "root"
    <3>1. op' = AfterGrowth
      BY <1>1, <2>1 DEF AfterPad
    <3>. QED
      BY <1>1, <3>1, SetGrown
  <2>2. CASE Kind # "root"
    <3>1. op' = [op EXCEPT !.pc = "length"]
      BY <1>1, <2>2 DEF AfterPad
    <3>2. op'.pc = "length" /\ op'.kind = op.kind /\ op'.old = op.old /\ op'.run = op.run
      BY ONLY <1>1, <3>1 DEF OpType
    <3>3. PICK m : m = op.old /\ op.kind # "update" /\ Apart(m) /\ op.kind \in {"create", "rename"}
      BY <1>1 DEF SetInv, OldWhole
    <3>4. OldWhole'
      BY <1>6, <3>2, <3>3 DEF OldWhole, At, Apart
    <3>5. \A i \in DOMAIN slots : Vacant(i) => Vacant(i)'
      BY <1>3, <1>4 DEF Vacant
    <3>6. OldEnd' = OldEnd /\ \A i \in DOMAIN slots : i > OldEnd - op.run => Vacant(i)
      BY <1>1, <1>2 DEF SetInv, NewWhole, OldEnd
    <3>. QED
      BY <1>2, <3>2, <3>4, <3>5, <3>6 DEF NewWhole, At, Vacant
  <2>. QED
    BY <2>1, <2>2
<1>. QED
  BY <1>1, <1>6, <1>7, <1>8 DEF SetInv

LEMMA SetRecord ==
    ASSUME TypeInv, SetInv, RecordLength \/ SealLength
    PROVE  SetInv'
<1>1. /\ slots' = slots /\ op \in OpType /\ decoder' = decoder /\ handle' = handle
  BY DEF RecordLength, SealLength, TypeInv, OpOK
<1>2. /\ decoder' = FreshDecoder /\ SumsInv' /\ HandlesWhole' /\ \A l : Apart(l) => Apart(l)'
  BY <1>1, SameWhole
<1>3. CASE SealLength
  <2>1. op' = AfterGrowth /\ op.pc = "sealLength"
    BY <1>3 DEF SealLength, At
  <2>2. OldWhole' /\ NewWhole'
    BY <1>1, <2>1, SetGrown
  <2>. QED
    BY <1>2, <2>2 DEF SetInv
<1>4. CASE RecordLength
  <2>1. op' = [op EXCEPT !.pc = "sealLength"] /\ op.pc = "length"
    BY <1>4 DEF RecordLength, At
  <2>2. op'.pc = "sealLength" /\ op'.kind = op.kind /\ op'.old = op.old /\ op'.run = op.run
    BY ONLY <1>1, <2>1 DEF OpType
  <2>3. PICK m : m = op.old /\ op.kind # "update" /\ Apart(m) /\ op.kind \in {"create", "rename"}
    BY <2>1 DEF SetInv, OldWhole
  <2>4. OldWhole'
    BY <1>2, <2>2, <2>3 DEF OldWhole, At, Apart
  <2>5. NewWhole'
    BY <1>1, <2>1, <2>2 DEF SetInv, NewWhole, At, Vacant, OldEnd
  <2>. QED
    BY <1>2, <2>4, <2>5 DEF SetInv
<1>. QED
  BY <1>3, <1>4

LEMMA SetOver ==
    ASSUME SetInv, NoSpace \/ IoError
    PROVE  SetInv'
<1>1. slots' = slots /\ handle' = handle /\ decoder' = decoder /\ op' = Idle
  BY DEF NoSpace, IoError, device
<1>. QED
  BY <1>1, SameWhole, OverWhole DEF SetInv

LEMMA SetRestart ==
    ASSUME SetInv, Restart
    PROVE  SetInv'
<1>1. slots' = slots /\ op' = Idle /\ decoder' = FreshDecoder /\ \A n \in Names : handle'[n] = <<>>
  BY DEF Restart, device
<1>2. SumsInv'
  BY <1>1 DEF SetInv, SumsInv, SumsWhole, Covers
<1>3. HandlesWhole'
  BY <1>1 DEF HandlesWhole
<1>. QED
  BY <1>1, <1>2, <1>3, OverWhole DEF SetInv

(* The slots of a new set, one by one.                                     *)
LEMMA NewSetIs ==
    ASSUME NEW n \in Names, NEW s, NEW set, set = NewSet(n, s)
    PROVE  /\ set[1].tag = "primary" /\ set[1].used /\ set[1].secondaries = SetSize(n) - 1 /\ set[1].sum = <<>>
           /\ set[2].tag = "stream" /\ set[2].used /\ set[2].len = Units[n]
           /\ \A k \in 3..SetSize(n) :
                  set[k].tag = "name" /\ set[k].used /\ set[k].part = NamePart(n, k - 2)
<1>1. SetSize(n) \in Nat \ {0, 1, 2}
  BY Parameters
<1>2. set[1] = Primary(Secondaries(n), <<>>) /\ set[2] = StreamSlot(Units[n], s)
  BY <1>1 DEF NewSet
<1>3. \A k \in 3..SetSize(n) : set[k] = NameSlot(NamePart(n, k - 2))
  BY <1>1 DEF NewSet
<1>4. /\ Primary(Secondaries(n), <<>>).tag = "primary" /\ Primary(Secondaries(n), <<>>).used
      /\ Primary(Secondaries(n), <<>>).secondaries = SetSize(n) - 1 /\ Primary(Secondaries(n), <<>>).sum = <<>>
  BY DEF Primary, Secondaries
<1>5. /\ StreamSlot(Units[n], s).tag = "stream" /\ StreamSlot(Units[n], s).used
      /\ StreamSlot(Units[n], s).len = Units[n]
  BY DEF StreamSlot
<1>6. \A p : NameSlot(p).tag = "name" /\ NameSlot(p).used /\ NameSlot(p).part = p
  BY DEF NameSlot
<1>. QED
  BY <1>2, <1>3, <1>4, <1>5, <1>6

LEMMA SetWrite ==
    ASSUME TypeInv, SetInv, WriteSlot
    PROVE  SetInv'
<1>1. /\ slots \in Seq(Slot) /\ op \in OpType /\ op.name \in Names /\ op.pc = "write"
      /\ op.i \in DOMAIN op.locs /\ Len(op.locs) = Wanted /\ handle' = handle /\ decoder' = decoder
  BY DEF TypeInv, DeviceOK, OpOK, WriteSlot, At
<1>2. PICK w \in Nat \ {0, 1, 2} : w = Wanted /\ w = SetSize(op.name)
  BY <1>1, Parameters DEF Wanted
<1>3. op.locs \in Seq(DOMAIN slots) /\ op.i \in Nat /\ op.stream \in Stream
  BY <1>1 DEF OpType, Locators
<1>4. PICK l \in Seq(DOMAIN slots), j \in Nat : l = op.locs /\ j = op.i
  BY <1>3
<1>5. PICK set : set = NewSet(op.name, op.stream)
  OBVIOUS
<1>6. Consecutive(l) /\ Apart(l) /\ \A k \in 1..(j - 1) : slots[l[k]] = set[k]
  BY <1>1, <1>4, <1>5 DEF SetInv, NewWhole, At
<1>7. DOMAIN l = 1..w /\ j \in 1..w /\ l[j] \in DOMAIN slots /\ \A k \in 1..w : l[k] \in DOMAIN slots
  BY <1>1, <1>2, <1>4
<1>8. PICK s \in Slot : s = set[j] /\ (s.tag = "primary" => s.sum = <<>>)
  <2>1. set \in Seq(Slot) /\ DOMAIN set = 1..w
    BY <1>1, <1>2, <1>3, <1>5, NewSetOK
  <2>2. j = 1 \/ j = 2 \/ j \in 3..w
    BY <1>7
  <2>3. set[j].tag = "primary" => set[j].sum = <<>>
    BY <1>1, <1>2, <1>5, <2>2, NewSetIs
  <2>. QED
    BY <1>7, <2>1, <2>3
<1>9. /\ slots' = [slots EXCEPT ![l[j]] = s]
      /\ op' = IF j = w THEN [op EXCEPT !.pc = "seal", !.i = 0] ELSE [op EXCEPT !.i = @ + 1]
  BY <1>2, <1>4, <1>5, <1>8 DEF WriteSlot, SetSlot
<1>10. \A n \in Names : \A k \in DOMAIN handle[n] : handle[n][k] # l[j]
  BY <1>6, <1>7 DEF Apart
<1>11. /\ decoder' = FreshDecoder /\ SumsInv' /\ HandlesWhole' /\ \A x : Apart(x) => Apart(x)'
       /\ slots'[l[j]] = s /\ \A x \in DOMAIN slots : x # l[j] => slots'[x] = slots[x]
  BY <1>1, <1>7, <1>8, <1>9, <1>10, EditWhole
<1>12. \A k \in 1..j : slots'[l[k]] = set[k]
  <2>1. ASSUME NEW k \in 1..j PROVE slots'[l[k]] = set[k]
    <3>1. k \in 1..w /\ (k = j \/ k \in 1..(j - 1))
      BY <1>7
    <3>2. k # j => l[k] # l[j]
      BY <1>1, <1>6, <1>7, <3>1, Distinct
    <3>. QED
      BY <1>6, <1>7, <1>8, <1>11, <3>1, <3>2
  <2>. QED
    BY <2>1
<1>13. PICK m : m = op.old /\ op.kind # "update" /\ Apart(m) /\ op.kind \in {"create", "rename"}
  BY <1>1 DEF SetInv, OldWhole
<1>14. Apart(m)' /\ Apart(l)'
  BY <1>6, <1>11, <1>13
<1>15. CASE j = w
  <2>1. op' = [op EXCEPT !.pc = "seal", !.i = 0]
    BY <1>9, <1>15
  <2>2. /\ op'.pc = "seal" /\ op'.kind = op.kind /\ op'.old = op.old /\ op'.locs = op.locs
        /\ op'.name = op.name /\ op'.stream = op.stream
    BY ONLY <1>1, <2>1 DEF OpType
  <2>3. OldWhole'
    BY <1>13, <1>14, <2>2 DEF OldWhole, At, Apart
  <2>4. PICK e : e = NewSet(op'.name, op'.stream) /\ e = set
    BY <1>5, <2>2
  <2>5. \A k \in DOMAIN op'.locs : slots'[op'.locs[k]] = e[k]
    BY <1>4, <1>7, <1>12, <1>15, <2>2, <2>4
  <2>6. NewWhole'
    BY <1>1, <1>4, <1>6, <1>14, <2>2, <2>4, <2>5 DEF NewWhole, At, Apart, Consecutive, Wanted
  <2>. QED
    BY <1>11, <2>3, <2>6 DEF SetInv
<1>16. CASE j # w
  <2>1. PICK k \in Nat : k = j + 1
    OBVIOUS
  <2>2. op' = [op EXCEPT !.i = k]
    BY <1>4, <1>9, <1>16, <2>1
  <2>3. /\ op'.pc = op.pc /\ op'.kind = op.kind /\ op'.old = op.old /\ op'.locs = op.locs
        /\ op'.name = op.name /\ op'.stream = op.stream /\ op'.i = k
    BY ONLY <1>1, <2>2, k \in Nat DEF OpType
  <2>4. OldWhole'
    BY <1>1, <1>13, <1>14, <2>3 DEF OldWhole, At, Apart
  <2>5. PICK e : e = NewSet(op'.name, op'.stream) /\ e = set
    BY <1>5, <2>3
  <2>6. k - 1 = j
    BY <2>1
  <2>7. \A x \in 1..(op'.i - 1) : slots'[op'.locs[x]] = e[x]
    BY <1>4, <1>12, <2>3, <2>5, <2>6
  <2>8. NewWhole'
    BY <1>1, <1>4, <1>6, <1>14, <2>3, <2>5, <2>7 DEF NewWhole, At, Apart, Consecutive, Wanted
  <2>. QED
    BY <1>11, <2>4, <2>8 DEF SetInv
<1>. QED
  BY <1>15, <1>16

(* The checksum of a set that is written vouches for its name.             *)
LEMMA ChecksumCovers ==
    ASSUME NEW n \in Names, NEW set \in Seq(Slot), Len(set) >= 3,
           set[2].tag = "stream", set[2].len = Units[n],
           \A k \in 3..Len(set) : set[k].tag = "name" /\ set[k].part = NamePart(n, k - 2)
    PROVE  Covers(Checksum(set), n)
<1>. DEFINE q == Checksum(set)
<1>1. DOMAIN set = 1..Len(set) /\ Len(set) \in Nat
  OBVIOUS
<1>2. q \in Seq(Contents)
  BY ChecksumOK
<1>3. DOMAIN q = DOMAIN set /\ \A k \in DOMAIN set : q[k] = Content(set[k])
  BY DEF Checksum
<1>. HIDE DEF q
<1>4. Len(q) = Len(set)
  BY <1>1, <1>2, <1>3
<1>5. q[2] = set[2] /\ \A k \in 3..Len(set) : q[k] = set[k]
  BY <1>1, <1>3 DEF Content
<1>. QED
  BY <1>4, <1>5 DEF Covers, q

(* A set gets its checksum, and the File of a caller its locators.         *)
LEMMA GivenWhole ==
    ASSUME TypeInv, SetInv, NEW n \in Names, NEW l \in Seq(DOMAIN slots), WholeAt(l, n),
           NEW q, Covers(q, n), NEW s \in Slot, Alike(s, slots[l[1]]), s.sum = q,
           slots' = [slots EXCEPT ![l[1]] = s], decoder' = decoder, op' = Idle,
           handle' = handle \/ handle' = [handle EXCEPT ![n] = l]
    PROVE  SetInv'
<1>1. slots \in Seq(Slot) /\ HandlesWhole /\ SumsInv /\ decoder = FreshDecoder /\ handle \in [Names -> Locators]
  BY DEF TypeInv, DeviceOK, SetInv, HandlesOK
<1>2. l[1] \in DOMAIN slots
  BY DEF WholeAt, HeadAt
<1>3. /\ DOMAIN slots' = DOMAIN slots /\ slots'[l[1]] = s
      /\ \A j \in DOMAIN slots : j # l[1] => slots'[j] = slots[j]
  BY <1>1, <1>2
<1>4. \A i \in DOMAIN slots : Alike(slots'[i], slots[i])
  BY <1>1, <1>3, AlikeItself
<1>5. SumsInv'
  <2>1. ASSUME SumsWhole, NEW j \in DOMAIN slots', slots'[j].tag = "primary", slots'[j].sum # <<>>
        PROVE  \E m \in Names : Covers(slots'[j].sum, m)
    <3>1. CASE j = l[1]
      BY <1>3, <3>1
    <3>2. CASE j # l[1]
      BY <1>3, <2>1, <3>2 DEF SumsWhole
    <3>. QED
      BY <3>1, <3>2
  <2>2. SumsWhole => SumsWhole'
    BY <2>1 DEF SumsWhole, Covers
  <2>. QED
    BY <1>1, <2>2 DEF SumsInv
<1>6. ASSUME NEW m \in Names, handle'[m] # <<>> PROVE WholeAt(handle[m], m)'
  <2>1. PICK h \in Seq(DOMAIN slots) : h = handle'[m] /\ WholeAt(h, m)
    <3>1. CASE handle'[m] = handle[m]
      BY <1>1, <1>6, <3>1, HandleSlots DEF HandlesWhole
    <3>2. CASE handle'[m] # handle[m]
      <4>1. m = n /\ handle'[m] = l
        BY <1>1, <3>2
      <4>. QED
        BY <4>1
    <3>. QED
      BY <3>1, <3>2
  <2>2. \A k \in DOMAIN h : Alike(slots'[h[k]], slots[h[k]])
    BY <1>4
  <2>3. WholeAt(h, m)'
    BY <2>1, <2>2, WholeKept
  <2>. QED
    BY <2>1, <2>3 DEF WholeAt, HeadAt, Consecutive, NamesAt
<1>7. HandlesWhole'
  BY <1>6 DEF HandlesWhole
<1>. QED
  BY <1>1, <1>5, <1>7, OverWhole DEF SetInv

LEMMA SetSeal ==
    ASSUME TypeInv, SetInv, SealNewSet
    PROVE  SetInv'
<1>1. /\ slots \in Seq(Slot) /\ op \in OpType /\ op.name \in Names /\ op.pc = "seal"
      /\ decoder' = decoder /\ handle \in [Names -> Locators]
  BY DEF TypeInv, DeviceOK, OpOK, HandlesOK, SealNewSet, At
<1>2. PICK w \in Nat \ {0, 1, 2} : w = Wanted /\ w = SetSize(op.name)
  BY <1>1, Parameters DEF Wanted
<1>3. op.locs \in Seq(DOMAIN slots) /\ op.stream \in Stream
  BY <1>1 DEF OpType, Locators
<1>4. PICK l \in Seq(DOMAIN slots), n \in Names : l = op.locs /\ n = op.name
  BY <1>1, <1>3
<1>5. PICK set : set = NewSet(n, op.stream)
  OBVIOUS
<1>6. set \in Seq(Slot) /\ Len(set) = w /\ DOMAIN set = 1..w /\ Checksum(set) \in Seq(Contents)
  BY <1>2, <1>3, <1>4, <1>5, NewSetOK
<1>7. /\ set[1].tag = "primary" /\ set[1].used /\ set[1].secondaries = w - 1
      /\ set[2].tag = "stream" /\ set[2].used /\ set[2].len = Units[n]
      /\ \A k \in 3..w : set[k].tag = "name" /\ set[k].used /\ set[k].part = NamePart(n, k - 2)
  BY <1>2, <1>4, <1>5, NewSetIs
<1>8. Consecutive(l) /\ Apart(l) /\ Len(l) = w /\ \A k \in DOMAIN l : slots[l[k]] = set[k]
  BY <1>1, <1>2, <1>4, <1>5 DEF SetInv, NewWhole, At
<1>9. DOMAIN l = 1..w /\ \A k \in 1..w : l[k] \in DOMAIN slots
  BY <1>8
<1>10. PICK o \in Slot : o = slots[l[1]] /\ o.tag = "primary"
  <2>1. 1 \in DOMAIN l /\ 1 \in 1..w
    BY <1>9
  <2>2. slots[l[1]] = set[1] /\ slots[l[1]] \in Slot
    BY <1>1, <1>8, <1>9, <2>1
  <2>3. set[1].tag = "primary"
    BY <1>7
  <2>. QED
    BY <2>2, <2>3
<1>11. PICK q \in Seq(Contents) : q = Checksum(set)
  BY <1>6
<1>12. PICK s \in Slot : s = WithSum(o, q) /\ Alike(s, o) /\ s.sum = q
  BY <1>10, SlotEdited, EditedAlike
<1>13. slots' = [slots EXCEPT ![l[1]] = s]
  BY <1>4, <1>5, <1>10, <1>11, <1>12 DEF SealNewSet, WithSum
<1>14. Covers(q, n)
  <2>1. set[2].tag = "stream" /\ set[2].len = Units[n]
    BY <1>7
  <2>2. \A k \in 3..Len(set) : set[k].tag = "name" /\ set[k].part = NamePart(n, k - 2)
    BY <1>6, <1>7
  <2>3. Len(set) >= 3
    BY <1>6
  <2>. QED
    BY <1>6, <1>11, <2>1, <2>2, <2>3, ChecksumCovers
<1>15. WholeAt(l, n)
  <2>1. 1 \in DOMAIN l /\ 2 \in DOMAIN l /\ \A k \in 3..w : k \in DOMAIN l
    BY <1>9
  <2>2. slots[l[1]] = set[1] /\ slots[l[2]] = set[2] /\ \A k \in 3..w : slots[l[k]] = set[k]
    BY <1>8, <2>1
  <2>3. w >= 3
    OBVIOUS
  <2>4. HeadAt(l) /\ slots[l[2]].len = Units[n]
    BY <1>7, <1>8, <2>2, <2>3 DEF HeadAt
  <2>5. NamesAt(l, n, w)
    BY <1>7, <2>2 DEF NamesAt
  <2>. QED
    BY <1>8, <2>4, <2>5 DEF WholeAt
<1>16. CASE op.kind = "rename"
  <2>1. op' = [op EXCEPT !.pc = "retire", !.i = 1] /\ handle' = handle
    BY <1>16 DEF SealNewSet
  <2>2. op'.pc = "retire" /\ op'.kind = op.kind /\ op'.old = op.old
    BY ONLY <1>1, <2>1 DEF OpType
  <2>3. /\ decoder' = FreshDecoder /\ SumsInv' /\ HandlesWhole' /\ \A x : Apart(x) => Apart(x)'
    <3>1. l[1] \in DOMAIN slots
      BY <1>9
    <3>2. Alike(s, slots[l[1]]) /\ \E x \in Names : Covers(s.sum, x)
      BY <1>10, <1>12, <1>14
    <3>. QED
      BY <1>1, <1>13, <2>1, <3>1, <3>2, EditWhole
  <2>4. PICK m : m = op.old /\ Apart(m)
    BY <1>16 DEF SetInv, OldWhole
  <2>5. Apart(m)'
    BY <2>3, <2>4
  <2>6. OldWhole'
    BY <1>16, <2>2, <2>4, <2>5 DEF OldWhole, At, Apart
  <2>7. NewWhole'
    BY <2>2 DEF NewWhole, At
  <2>. QED
    BY <2>3, <2>6, <2>7 DEF SetInv
<1>17. CASE op.kind # "rename"
  <2>1. op' = Idle /\ handle' = [handle EXCEPT ![n] = l]
    BY <1>4, <1>17 DEF SealNewSet
  <2>2. SetInv'
    BY <1>1, <1>9, <1>10, <1>12, <1>13, <1>14, <1>15, <2>1, GivenWhole
  <2>. QED
    BY <2>2
<1>. QED
  BY <1>16, <1>17

LEMMA SetRetire ==
    ASSUME TypeInv, SetInv, RetireSlot
    PROVE  SetInv'
<1>1. /\ slots \in Seq(Slot) /\ op \in OpType /\ op.pc = "retire" /\ op.i \in DOMAIN op.old
      /\ decoder' = decoder /\ handle' = handle
  BY DEF TypeInv, DeviceOK, OpOK, RetireSlot, At
<1>2. PICK l \in Seq(DOMAIN slots) : l = op.old
  BY <1>1 DEF OpType, Locators
<1>3. PICK j \in DOMAIN l : j = op.i
  BY <1>1, <1>2
<1>4. l[j] \in DOMAIN slots
  OBVIOUS
<1>5. PICK o \in Slot : o = slots[l[j]]
  BY <1>1, <1>4
<1>6. PICK s \in Slot : s = Unused(o) /\ s.tag = o.tag /\ (o.tag = "primary" => s.sum = o.sum)
  BY SlotEdited, EditedAlike
<1>7. /\ slots' = [slots EXCEPT ![l[j]] = s]
      /\ op' = IF j = Len(l) THEN Idle ELSE [op EXCEPT !.i = @ + 1]
  BY <1>2, <1>3, <1>5, <1>6 DEF RetireSlot, Retired, AfterRetire, Unused
<1>8. op.kind \in {"remove", "rename"} /\ Apart(l)
  BY <1>1, <1>2 DEF SetInv, OldWhole
<1>9. \A n \in Names : \A k \in DOMAIN handle[n] : handle[n][k] # l[j]
  BY <1>8 DEF Apart
<1>10. decoder' = FreshDecoder /\ SumsInv' /\ HandlesWhole' /\ Apart(l)'
  BY <1>1, <1>4, <1>5, <1>6, <1>7, <1>8, <1>9, EditWhole
<1>11. CASE op' = Idle
  BY <1>10, <1>11, OverWhole DEF SetInv
<1>12. CASE op' # Idle
  <2>1. PICK k \in Nat : k = j + 1
    OBVIOUS
  <2>2. op' = [op EXCEPT !.i = k]
    BY <1>3, <1>7, <1>12, <2>1
  <2>3. op'.pc = op.pc /\ op'.kind = op.kind /\ op'.old = op.old
    BY ONLY <1>1, <2>2, k \in Nat DEF OpType
  <2>4. OldWhole'
    BY <1>1, <1>2, <1>8, <1>10, <2>3 DEF OldWhole, At, Apart
  <2>5. NewWhole'
    BY <1>1, <2>3 DEF NewWhole, At
  <2>. QED
    BY <1>10, <2>4, <2>5 DEF SetInv
<1>. QED
  BY <1>11, <1>12

(* The checksum of whatever the slots now hold is that of the set.         *)
LEMMA SetReseal ==
    ASSUME TypeInv, SetInv, Reseal
    PROVE  SetInv'
<1>1. /\ slots \in Seq(Slot) /\ op \in OpType /\ op.name \in Names /\ op.pc = "reseal"
      /\ decoder' = decoder /\ op' = Idle
  BY DEF TypeInv, DeviceOK, OpOK, Reseal, At
<1>2. PICK l \in Seq(DOMAIN slots), n \in Names : l = op.old /\ n = op.name
  BY <1>1 DEF OpType, Locators
<1>3. WholeAt(l, n)
  BY <1>1, <1>2 DEF SetInv, OldWhole
<1>4. PICK b \in Seq(Slot) : b = SlotsAt(l) /\ DOMAIN b = DOMAIN l /\ \A k \in DOMAIN l : b[k] = slots[l[k]]
  BY <1>1, SlotsAtOK
<1>5. Len(l) >= 3 /\ Len(b) = Len(l) /\ 1 \in DOMAIN l /\ 2 \in DOMAIN l /\ \A k \in 3..Len(l) : k \in DOMAIN l
  BY <1>3, <1>4 DEF WholeAt, HeadAt
<1>6. PICK q \in Seq(Contents) : q = Checksum(b)
  BY ChecksumOK
<1>7. Covers(q, n)
  <2>1. b[2].tag = "stream" /\ b[2].len = Units[n]
    BY <1>3, <1>4, <1>5 DEF WholeAt, HeadAt
  <2>2. \A k \in 3..Len(b) : b[k].tag = "name" /\ b[k].part = NamePart(n, k - 2)
    <3>1. \A k \in 3..Len(l) : slots[l[k]].tag = "name" /\ slots[l[k]].part = NamePart(n, k - 2)
      BY <1>3 DEF WholeAt, NamesAt
    <3>2. \A k \in 3..Len(l) : b[k] = slots[l[k]]
      BY <1>4, <1>5
    <3>. QED
      BY <1>5, <3>1, <3>2
  <2>. QED
    BY <1>5, <1>6, <2>1, <2>2, ChecksumCovers
<1>8. l[1] \in DOMAIN slots /\ slots[l[1]].tag = "primary"
  BY <1>3, <1>5 DEF WholeAt, HeadAt
<1>9. PICK o \in Slot : o = slots[l[1]] /\ o.tag = "primary"
  BY <1>1, <1>8
<1>10. PICK s \in Slot : s = WithSum(o, q) /\ Alike(s, o) /\ s.sum = q
  BY <1>9, SlotEdited, EditedAlike
<1>11. slots' = [slots EXCEPT ![l[1]] = s] /\ (handle' = handle \/ handle' = [handle EXCEPT ![n] = l])
  BY <1>2, <1>4, <1>6, <1>9, <1>10 DEF Reseal, WithSum
<1>. QED
  BY <1>1, <1>3, <1>7, <1>9, <1>10, <1>11, GivenWhole

LEMMA SetUpdateStream ==
    ASSUME TypeInv, SetInv, UpdateStream
    PROVE  SetInv'
<1>1. /\ slots \in Seq(Slot) /\ op \in OpType /\ op.name \in Names /\ op.pc = "stream"
      /\ decoder' = decoder /\ handle' = handle
  BY DEF TypeInv, DeviceOK, OpOK, UpdateStream, At
<1>2. PICK l \in Seq(DOMAIN slots), n \in Names, x \in Stream : l = op.old /\ n = op.name /\ x = op.stream
  BY <1>1 DEF OpType, Locators
<1>3. /\ WholeAt(l, n) /\ op.kind \in {"create", "update"} /\ (op.kind = "update" => l = handle[n])
      /\ (op.kind # "update" => Apart(l))
  BY <1>1, <1>2 DEF SetInv, OldWhole, At
<1>4. 2 \in DOMAIN l /\ l[2] \in DOMAIN slots /\ slots[l[2]].tag = "stream"
  BY <1>3 DEF WholeAt, HeadAt
<1>5. PICK o \in Slot : o = slots[l[2]] /\ o.tag = "stream"
  BY <1>1, <1>4
<1>6. PICK s \in Slot : s = WithData(o, x) /\ Alike(s, o) /\ s.tag = "stream"
  <2>1. PICK s : s = WithData(o, x)
    OBVIOUS
  <2>2. s \in Slot /\ s.tag = o.tag
    BY ONLY o \in Slot, x \in Stream, <2>1, SlotEdited
  <2>3. Alike(s, o)
    BY ONLY o \in Slot, x \in Stream, <1>5, <2>1, EditedAlike
  <2>. QED
    BY <1>5, <2>1, <2>2, <2>3
<1>7. slots' = [slots EXCEPT ![l[2]] = s] /\ op' = [op EXCEPT !.pc = "reseal"]
  BY <1>2, <1>5, <1>6 DEF UpdateStream, WithData
<1>8. Alike(s, slots[l[2]]) /\ s.tag # "primary"
  BY <1>5, <1>6
<1>9. /\ decoder' = FreshDecoder /\ SumsInv' /\ HandlesWhole' /\ \A m : Apart(m) => Apart(m)'
      /\ slots'[l[2]] = s /\ \A j \in DOMAIN slots : j # l[2] => slots'[j] = slots[j]
  BY <1>1, <1>4, <1>7, <1>8, EditWhole
<1>10. \A k \in DOMAIN l : Alike(slots'[l[k]], slots[l[k]])
  BY <1>1, <1>8, <1>9, AlikeItself
<1>11. WholeAt(l, n)' /\ (op.kind # "update" => Apart(l)')
  BY <1>3, <1>9, <1>10, WholeKept
<1>12. op'.pc = "reseal" /\ op'.kind = op.kind /\ op'.old = op.old /\ op'.name = op.name
  BY ONLY <1>1, <1>7 DEF OpType
<1>13. OldWhole'
  BY <1>1, <1>2, <1>3, <1>11, <1>12 DEF OldWhole, At, Apart, WholeAt, HeadAt, Consecutive, NamesAt
<1>14. NewWhole'
  BY <1>12 DEF NewWhole, At
<1>. QED
  BY <1>9, <1>13, <1>14 DEF SetInv

(* An edit past the head of a set leaves the head.                         *)
LEMMA HeadEdited ==
    ASSUME slots \in Seq(Slot), NEW l \in Seq(DOMAIN slots), HeadAt(l), NEW i \in 2..Len(l),
           \A j \in DOMAIN slots : j # l[i] => slots'[j] = slots[j],
           i = 2 => slots'[l[2]].tag = "stream" /\ slots'[l[2]].used
    PROVE  HeadAt(l)' /\ \A k \in DOMAIN l : k # i => slots'[l[k]] = slots[l[k]]
<1>1. DOMAIN l = 1..Len(l) /\ Len(l) \in Nat /\ 1 \in DOMAIN l /\ 2 \in DOMAIN l /\ i \in DOMAIN l /\ i # 1
  BY DEF HeadAt
<1>2. ASSUME NEW k \in DOMAIN l, k # i PROVE slots'[l[k]] = slots[l[k]]
  <2>1. l[k] # l[i] /\ l[k] \in DOMAIN slots
    BY <1>1, <1>2, Distinct DEF HeadAt
  <2>. QED
    BY <2>1
<1>3. slots'[l[1]] = slots[l[1]] /\ (i # 2 => slots'[l[2]] = slots[l[2]])
  BY <1>1, <1>2
<1>4. /\ Len(l) >= 3 /\ Consecutive(l)
      /\ slots[l[1]].tag = "primary" /\ slots[l[1]].used /\ slots[l[1]].secondaries = Len(l) - 1
      /\ slots[l[2]].tag = "stream" /\ slots[l[2]].used
  BY DEF HeadAt
<1>5. slots'[l[2]].tag = "stream" /\ slots'[l[2]].used
  BY <1>3, <1>4
<1>6. slots'[l[1]].tag = "primary" /\ slots'[l[1]].used /\ slots'[l[1]].secondaries = Len(l) - 1
  BY <1>3, <1>4
<1>7. HeadAt(l)'
  BY <1>4, <1>5, <1>6 DEF HeadAt, Consecutive
<1>. QED
  BY <1>2, <1>7

LEMMA SetRenameStream ==
    ASSUME TypeInv, SetInv, RenameStream
    PROVE  SetInv'
<1>1. /\ slots \in Seq(Slot) /\ op \in OpType /\ op.name \in Names /\ op.pc = "restream"
      /\ decoder' = decoder /\ handle' = handle
  BY DEF TypeInv, DeviceOK, OpOK, RenameStream, At
<1>2. PICK l \in Seq(DOMAIN slots), n \in Names : l = op.old /\ n = op.name
  BY <1>1 DEF OpType, Locators
<1>3. HeadAt(l) /\ op.kind \in {"remove", "rename"} /\ Apart(l)
  BY <1>1, <1>2 DEF SetInv, OldWhole, At
<1>4. 2 \in DOMAIN l /\ 2 \in 2..Len(l) /\ l[2] \in DOMAIN slots /\ slots[l[2]].tag = "stream" /\ slots[l[2]].used
  BY <1>3 DEF HeadAt
<1>5. PICK o \in Slot : o = slots[l[2]] /\ o.tag = "stream"
  BY <1>1, <1>4
<1>6. PICK u \in Nat : u = Units[n]
  BY Parameters
<1>7. PICK s \in Slot : s = WithLen(o, u) /\ s.tag = "stream"
  <2>1. PICK s : s = WithLen(o, u)
    OBVIOUS
  <2>2. s \in Slot /\ s.tag = o.tag
    BY ONLY o \in Slot, u \in Nat, <2>1, SlotEdited
  <2>. QED
    BY <1>5, <2>1, <2>2
<1>8. s.used = o.used /\ s.len = u
  BY <1>5, <1>7, EditedAlike
<1>9. slots' = [slots EXCEPT ![l[2]] = s] /\ op' = [op EXCEPT !.pc = "rename", !.i = 1]
  BY <1>2, <1>5, <1>6, <1>7 DEF RenameStream, WithLen
<1>10. \A m \in Names : \A k \in DOMAIN handle[m] : handle[m][k] # l[2]
  BY <1>3, <1>4 DEF Apart
<1>11. s.tag # "primary"
  BY <1>7
<1>12. /\ decoder' = FreshDecoder /\ SumsInv' /\ HandlesWhole' /\ \A m : Apart(m) => Apart(m)'
       /\ slots'[l[2]] = s /\ \A j \in DOMAIN slots : j # l[2] => slots'[j] = slots[j]
  BY <1>1, <1>4, <1>9, <1>10, <1>11, EditWhole
<1>13. HeadAt(l)' /\ Apart(l)' /\ slots'[l[2]].len = Units[n]
  <2>1. slots'[l[2]].used
    BY <1>4, <1>5, <1>8, <1>12
  <2>2. HeadAt(l)'
    BY <1>1, <1>3, <1>4, <1>7, <1>12, <2>1, HeadEdited
  <2>. QED
    BY <1>3, <1>6, <1>8, <1>12, <2>2
<1>14. op'.pc = "rename" /\ op'.kind = op.kind /\ op'.old = op.old /\ op'.name = op.name /\ op'.i = 1
  BY ONLY <1>1, <1>9 DEF OpType
<1>15. OldWhole'
  <2>1. 3..(1 + 1) = {}
    OBVIOUS
  <2>. QED
    BY <1>2, <1>3, <1>13, <1>14, <2>1 DEF OldWhole, At, Apart, HeadAt, Consecutive, NamesAt
<1>16. NewWhole'
  BY <1>14 DEF NewWhole, At
<1>. QED
  BY <1>12, <1>15, <1>16 DEF SetInv

LEMMA SetRenameSlot ==
    ASSUME TypeInv, SetInv, RenameSlot
    PROVE  SetInv'
<1>1. /\ slots \in Seq(Slot) /\ op \in OpType /\ op.name \in Names /\ op.pc = "rename" /\ op.i + 2 \in DOMAIN op.old
      /\ decoder' = decoder /\ handle' = handle
  BY DEF TypeInv, DeviceOK, OpOK, RenameSlot, At
<1>2. PICK l \in Seq(DOMAIN slots), n \in Names, j \in Nat : l = op.old /\ n = op.name /\ j = op.i
  BY <1>1 DEF OpType, Locators
<1>3. /\ HeadAt(l) /\ slots[l[2]].len = Units[n] /\ j # 0 /\ NamesAt(l, n, j + 1)
      /\ op.kind \in {"remove", "rename"} /\ Apart(l)
  BY <1>1, <1>2 DEF SetInv, OldWhole, At
<1>4. PICK w \in Nat : w = Len(l) /\ DOMAIN l = 1..w /\ w >= 3
  BY <1>3 DEF HeadAt
<1>5. j + 2 \in 1..w /\ j + 2 \in 2..Len(l) /\ l[j + 2] \in DOMAIN slots
  <2>1. j + 2 \in DOMAIN l
    BY <1>1, <1>2
  <2>2. l[j + 2] \in DOMAIN slots
    BY <2>1
  <2>. QED
    BY <1>4, <2>1, <2>2
<1>6. PICK p : p = NamePart(n, j)
  OBVIOUS
<1>7. PICK s : s = NameSlot(p)
  OBVIOUS
<1>8. s.tag = "name" /\ s.used /\ s.part = p
  BY <1>7 DEF NameSlot
<1>9. s \in Slot
  <2>1. p \in Parts
    BY <1>6 DEF NamePart, Parts
  <2>. QED
    BY <1>7, <2>1 DEF NameSlot, Slot, Contents
<1>10. /\ slots' = [slots EXCEPT ![l[j + 2]] = s]
       /\ op' = IF j + 2 = w THEN [op EXCEPT !.pc = "reseal", !.i = 0] ELSE [op EXCEPT !.i = @ + 1]
  BY <1>2, <1>4, <1>6, <1>7 DEF RenameSlot, SetSlot
<1>11. \A m \in Names : \A k \in DOMAIN handle[m] : handle[m][k] # l[j + 2]
  BY <1>3, <1>4, <1>5 DEF Apart
<1>12. s.tag # "primary"
  BY <1>8
<1>13. /\ decoder' = FreshDecoder /\ SumsInv' /\ HandlesWhole' /\ \A m : Apart(m) => Apart(m)'
       /\ slots'[l[j + 2]] = s /\ \A k \in DOMAIN slots : k # l[j + 2] => slots'[k] = slots[k]
  BY <1>1, <1>5, <1>9, <1>10, <1>11, <1>12, EditWhole
<1>14. HeadAt(l)' /\ Apart(l)' /\ \A k \in DOMAIN l : k # j + 2 => slots'[l[k]] = slots[l[k]]
  <2>1. j + 2 # 2
    BY <1>3
  <2>2. HeadAt(l)' /\ \A k \in DOMAIN l : k # j + 2 => slots'[l[k]] = slots[l[k]]
    BY <1>1, <1>3, <1>5, <1>13, <2>1, HeadEdited
  <2>. QED
    BY <1>3, <1>13, <2>2
<1>15. slots'[l[2]].len = Units[n]
  <2>1. 2 \in DOMAIN l /\ 2 # j + 2
    BY <1>3, <1>4
  <2>. QED
    BY <1>3, <1>14, <2>1
<1>16. NamesAt(l, n, j + 2)'
  <2>1. ASSUME NEW k \in 3..(j + 2)
        PROVE  slots'[l[k]].tag = "name" /\ slots'[l[k]].used /\ slots'[l[k]].part = NamePart(n, k - 2)
    <3>1. CASE k = j + 2
      <4>1. k - 2 = j /\ slots'[l[k]] = s
        BY <1>13, <3>1
      <4>. QED
        BY <1>6, <1>8, <4>1
    <3>2. CASE k # j + 2
      <4>1. k \in 3..(j + 1) /\ k \in DOMAIN l
        BY <1>4, <1>5, <3>2
      <4>2. slots'[l[k]] = slots[l[k]]
        BY <1>14, <3>2, <4>1
      <4>3. slots[l[k]].tag = "name" /\ slots[l[k]].used /\ slots[l[k]].part = NamePart(n, k - 2)
        BY <1>3, <4>1 DEF NamesAt
      <4>. QED
        BY <4>2, <4>3
    <3>. QED
      BY <3>1, <3>2
  <2>. QED
    BY <2>1 DEF NamesAt
<1>17. CASE j + 2 = w
  <2>1. op' = [op EXCEPT !.pc = "reseal", !.i = 0]
    BY <1>10, <1>17
  <2>2. op'.pc = "reseal" /\ op'.kind = op.kind /\ op'.old = op.old /\ op'.name = op.name
    BY ONLY <1>1, <2>1 DEF OpType
  <2>3. WholeAt(l, n)'
    BY <1>4, <1>14, <1>15, <1>16, <1>17 DEF WholeAt, NamesAt
  <2>4. OldWhole'
    BY <1>2, <1>3, <1>14, <2>2, <2>3 DEF OldWhole, At, Apart, WholeAt, HeadAt, Consecutive, NamesAt
  <2>5. NewWhole'
    BY <2>2 DEF NewWhole, At
  <2>. QED
    BY <1>13, <2>4, <2>5 DEF SetInv
<1>18. CASE j + 2 # w
  <2>1. PICK i \in Nat : i = j + 1
    OBVIOUS
  <2>2. op' = [op EXCEPT !.i = i]
    BY <1>2, <1>10, <1>18, <2>1
  <2>3. op'.pc = op.pc /\ op'.kind = op.kind /\ op'.old = op.old /\ op'.name = op.name /\ op'.i = i
    BY ONLY <1>1, <2>2, i \in Nat DEF OpType
  <2>4. i + 1 = j + 2 /\ i # 0
    BY <2>1
  <2>5. OldWhole'
    <3>1. op'.old = l /\ op'.name = n /\ op'.pc = "rename" /\ op'.kind \in {"remove", "rename"} /\ op'.i # 0
      BY <1>1, <1>2, <1>3, <2>3, <2>4
    <3>2. HeadAt(op.old)' /\ slots'[op'.old[2]].len = Units[op'.name] /\ Apart(op.old)'
      BY <1>14, <1>15, <3>1 DEF HeadAt, Consecutive, Apart
    <3>3. NamesAt(op.old, op.name, op.i + 1)'
      BY <1>16, <2>3, <2>4, <3>1 DEF NamesAt
    <3>. QED
      BY <3>1, <3>2, <3>3 DEF OldWhole, At
  <2>6. NewWhole'
    BY <1>1, <2>3 DEF NewWhole, At
  <2>. QED
    BY <1>13, <2>5, <2>6 DEF SetInv
<1>. QED
  BY <1>17, <1>18

LEMMA SetStep ==
    ASSUME TypeInv, SetInv, decoder' = FreshDecoder, "renameOpen" \notin Ops, [Next]_vars
    PROVE  SetInv'
<1>1. CASE \E n \in Names : \/ Open(n) \/ Close(n) \/ LookupFails(n)
                            \/ \E k \in 1..(MaxClusters * SectorsPerCluster) : LookupIoError(n, k)
  <2>1. \A k \in 1..(MaxClusters * SectorsPerCluster) : k \in Nat
    OBVIOUS
  <2>. QED
    BY <1>1, <2>1, SetLookups
<1>2. CASE \E n \in Names : \/ CreateAbsent(n) \/ CreateExisting(n) \/ Remove(n)
                            \/ \E s \in Streams : Update(n, s)
  BY <1>2, SetBegins
<1>3. CASE \E p \in Renames : Rename(p[1], p[2])
  <2>1. \A p \in Renames : p[1] \in Names /\ p[2] \in Names
    BY DirectoryAssumption
  <2>. QED
    BY <1>3, <2>1, SetRename
<1>4. CASE Search \/ ReachEnd \/ NoSpace \/ IoError
  BY <1>4, SetSearch, SetReachEnd, SetOver
<1>5. CASE LinkCluster \/ PadOldTail \/ RecordLength \/ SealLength
  BY <1>5, SetLink, SetPad, SetRecord
<1>6. CASE WriteSlot \/ SealNewSet \/ RetireSlot
  BY <1>6, SetWrite, SetSeal, SetRetire
<1>7. CASE RenameStream \/ RenameSlot \/ UpdateStream \/ Reseal
  BY <1>7, SetRenameStream, SetRenameSlot, SetUpdateStream, SetReseal
<1>8. CASE Panic \/ Crash
  BY <1>8, SetRestart DEF Panic, Crash
<1>9. CASE UNCHANGED vars
  <2>1. slots' = slots /\ handle' = handle /\ decoder' = decoder /\ op' = op
    BY <1>9 DEF vars
  <2>2. OldWhole'
    BY <2>1 DEF SetInv, OldWhole, At, Apart, WholeAt, HeadAt, Consecutive, NamesAt
  <2>3. NewWhole'
    BY <2>1 DEF SetInv, NewWhole, At, Apart, Consecutive, Vacant, OldEnd, Wanted
  <2>. QED
    BY <2>1, <2>2, <2>3, SameWhole DEF SetInv
<1>. QED
  BY <1>1, <1>2, <1>3, <1>4, <1>5, <1>6, <1>7, <1>8, <1>9 DEF Next, Step

(* With a Workspace of its own, each call has a fresh decoder.             *)
LEMMA StaysFresh ==
    ASSUME ~SharedWorkspace, decoder = FreshDecoder, [Next]_vars
    PROVE  decoder' = FreshDecoder
<1>1. CASE Step
  BY <1>1 DEF Step, Search, ReachEnd, LinkCluster, PadOldTail, RecordLength, SealLength, NoSpace, WriteSlot,
              SealNewSet, RetireSlot, RenameStream, RenameSlot, UpdateStream, Reseal, Panic, Restart
<1>2. CASE IoError \/ Crash \/ UNCHANGED vars
  BY <1>2 DEF IoError, Crash, Restart, vars
<1>3. ASSUME NEW n \in Names,
             \/ Open(n) \/ Close(n) \/ LookupFails(n) \/ CreateAbsent(n) \/ CreateExisting(n) \/ Remove(n)
             \/ \E s \in Streams : Update(n, s)
             \/ \E k \in 1..(MaxClusters * SectorsPerCluster) : LookupIoError(n, k)
      PROVE  decoder' = FreshDecoder
  BY <1>3 DEF Open, Close, LookupFails, CreateAbsent, CreateExisting, Remove, Update, LookupIoError, Leave
<1>4. ASSUME NEW n, NEW m, Rename(n, m) PROVE decoder' = FreshDecoder
  BY <1>4 DEF Rename, Leave
<1>. QED
  BY <1>1, <1>2, <1>3, <1>4 DEF Next

LEMMA SetInvariant ==
    ASSUME ~SharedWorkspace, "renameOpen" \notin Ops
    PROVE  Spec => []SetInv
<1>1. TypeInv /\ SetInv /\ [Next]_vars => SetInv'
  BY StaysFresh, SetStep DEF SetInv
<1>. QED
  BY SetInit, TypeInvariant, <1>1, PTL DEF Spec

LEMMA SetLocators ==
    ASSUME TypeInv, SetInv
    PROVE  LocatorsHold
<1>. SUFFICES ASSUME NEW n \in Names, handle[n] # <<>>
              PROVE  LET set == SlotsAt(handle[n])
                     IN  /\ set[1].tag = "primary" /\ set[1].used /\ set[1].secondaries = Len(set) - 1
                         /\ set[2].tag = "stream" /\ set[2].used
                         /\ \A k \in 3..Len(set) : set[k].tag = "name" /\ set[k].used
                         /\ op.pc \in {"write", "seal"} => Range(handle[n]) \cap Range(op.locs) = {}
                         /\ \A m \in Names \ {n} : Range(handle[n]) \cap Range(handle[m]) = {}
  BY DEF LocatorsHold
<1>1. slots \in Seq(Slot)
  BY DEF TypeInv, DeviceOK
<1>2. PICK h \in Seq(DOMAIN slots) : h = handle[n]
  BY HandleSlots
<1>3. WholeAt(h, n)
  BY <1>2 DEF SetInv, HandlesWhole
<1>4. PICK set \in Seq(Slot) : set = SlotsAt(h) /\ DOMAIN set = DOMAIN h /\ \A k \in DOMAIN h : set[k] = slots[h[k]]
  BY <1>1, SlotsAtOK
<1>5. Len(set) = Len(h) /\ 1 \in DOMAIN h /\ 2 \in DOMAIN h /\ \A k \in 3..Len(h) : k \in DOMAIN h
  BY <1>3, <1>4 DEF WholeAt, HeadAt
<1>6. set[1] = slots[h[1]] /\ set[2] = slots[h[2]] /\ \A k \in 3..Len(h) : set[k] = slots[h[k]]
  BY <1>4, <1>5
<1>7. /\ slots[h[1]].tag = "primary" /\ slots[h[1]].used /\ slots[h[1]].secondaries = Len(h) - 1
      /\ slots[h[2]].tag = "stream" /\ slots[h[2]].used
      /\ \A k \in 3..Len(h) : slots[h[k]].tag = "name" /\ slots[h[k]].used
  BY <1>3 DEF WholeAt, HeadAt, NamesAt
<1>8. ASSUME op.pc \in {"write", "seal"} PROVE Range(h) \cap Range(op.locs) = {}
  <2>1. Apart(op.locs)
    BY <1>8 DEF SetInv, NewWhole
  <2>. QED
    BY <1>2, <2>1, RangeIs DEF Apart
<1>9. ASSUME NEW m \in Names \ {n} PROVE Range(h) \cap Range(handle[m]) = {}
  <2>1. PICK g \in Seq(DOMAIN slots) : g = handle[m]
    BY HandleSlots
  <2>2. CASE g = <<>>
    <3>1. DOMAIN g = {}
      BY <2>2
    <3>. QED
      BY <2>1, <3>1, RangeIs
  <2>3. CASE g # <<>>
    <3>1. WholeAt(g, m)
      BY <2>1, <2>3 DEF SetInv, HandlesWhole
    <3>2. DOMAIN slots \in SUBSET Nat
      BY <1>1
    <3>3. \A j \in DOMAIN h : \A k \in DOMAIN g : h[j] # g[k]
      BY <1>3, <3>1, <3>2, NamesApart
    <3>. QED
      BY <2>1, <3>3, RangeIs
  <2>. QED
    BY <2>2, <2>3
<1>10. /\ set[1].tag = "primary" /\ set[1].used /\ set[1].secondaries = Len(set) - 1
       /\ set[2].tag = "stream" /\ set[2].used
  BY <1>5, <1>6, <1>7
<1>11. \A k \in 3..Len(set) : set[k].tag = "name" /\ set[k].used
  BY <1>5, <1>6, <1>7
<1>. QED
  BY <1>2, <1>4, <1>8, <1>9, <1>10, <1>11

(* Whatever callers do with other names, and wherever an operation or the  *)
(* program is cut off, the locators that a File keeps name its own set:    *)
(* provided each call brings its own Workspace and nobody renames a file   *)
(* that is open.                                                           *)
THEOREM LocatorsStay ==
    ASSUME ~SharedWorkspace, "renameOpen" \notin Ops
    PROVE  Spec => []LocatorsHold
BY SetInvariant, TypeInvariant, SetLocators, PTL

(* A listing never shows a name that nobody gave a file, nor half a name:  *)
(* a set that was cut short in writing, in renaming or in retiring has no  *)
(* checksum that fits.  The sets that are there at first are whole.        *)
THEOREM ShownStayWhole ==
    ASSUME ~SharedWorkspace, "renameOpen" \notin Ops, InitialSumsWhole
    PROVE  Spec => []ShownAreWhole
<1>1. TypeInv /\ SetInv => ShownAreWhole
  BY ShownNamed DEF SetInv, SumsInv, ShownAreWhole
<1>. QED
  BY <1>1, SetInvariant, TypeInvariant, PTL
=============================================================================
