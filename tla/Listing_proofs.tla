----------------------------- MODULE Listing_proofs -----------------------------
(***************************************************************************)
(* What a listing shows, while no operation leaves a set half written: the *)
(* directory is a map from names to streams, as DirectoryStore has it.     *)
(***************************************************************************)
EXTENDS Directories_proofs

-----------------------------------------------------------------------------
(* The sets of a view.                                                     *)

(* The set of the file n with the stream s, sealed, from p on.             *)
Held(v, p, n, s) ==
    /\ p \in DOMAIN v /\ p + SetSize(n) - 1 <= Len(v)
    /\ \A k \in 1..SetSize(n) : v[p + k - 1] = SealedSet(n, s)[k]
Run(p, n) == [k \in 1..SetSize(n) |-> p + k - 1]
Span(p, n) == p..(p + SetSize(n) - 1)
Starts(x) == x.tag = "primary" /\ x.used

(* The streams that callers give, and what rename makes of them.           *)
Given == Streams \cup {Relocated(s) : s \in Streams}

(* A view in which each primary begins such a set, no two of one name, and *)
(* nothing lies behind an end marker.                                      *)
Formed(v) == \A p \in DOMAIN v : Starts(v[p]) => \E n \in Names, s \in Given : Held(v, p, n, s)
Once(v) ==
    \A n \in Names, p, q \in DOMAIN v, s, r \in Given : Held(v, p, n, s) /\ Held(v, q, n, r) => p = q
EndsBehind(v) == \A i \in DOMAIN v : v[i].tag = "end" => \A j \in i..Len(v) : v[j].tag = "end"
Absent(v, n) == \A p \in DOMAIN v, s \in Given : ~Held(v, p, n, s)

IsView(v) == Len(v) \in Nat /\ DOMAIN v = 1..Len(v)

(* A slot that is in no set.                                               *)
Empties(x) == ~x.used \/ x.tag = "pad"
Loose(v, i) == /\ ~Starts(v[i])
               /\ \A p \in DOMAIN v, n \in Names, s \in Given :
                      Held(v, p, n, s) => i \notin Span(p, n)

LEMMA HeldIn ==
    ASSUME NEW v, NEW p, NEW n, NEW s, Held(v, p, n, s)
    PROVE  p \in DOMAIN v
BY DEF Held

LEMMA GivenStreams ==
    /\ Given \subseteq Stream /\ Streams \subseteq Given /\ Empty \in Given
    /\ \A s \in Given : Relocated(s) \in Given /\ Relocated(Relocated(s)) = Relocated(s)
<1>1. ASSUME NEW s \in Stream PROVE /\ Relocated(s) \in Stream
                                    /\ Relocated(Relocated(s)) = Relocated(s)
  <2>1. PICK d \in Nat, v \in Nat : s = [data |-> d, valid |-> v]
    BY DEF Stream
  <2>2. Relocated(s) = [data |-> d, valid |-> d]
    BY <2>1 DEF Relocated
  <2>3. Relocated([data |-> d, valid |-> d]) = [data |-> d, valid |-> d]
    BY DEF Relocated
  <2>. QED
    BY <2>1, <2>2, <2>3 DEF Stream
<1>. QED
  BY <1>1, ContentsAssumption, DirectoryAssumption DEF Given

LEMMA SumReplaced ==
    ASSUME NEW a, NEW q, NEW r
    PROVE  [Primary(a, q) EXCEPT !.sum = r] = Primary(a, r)
<1>. DEFINE R == [tag : {"primary"}, used : BOOLEAN, secondaries : {a}, sum : {q, r}]
            p == Primary(a, q)
            e == Primary(a, r)
<1>1. p \in R /\ p.tag = "primary" /\ p.used = TRUE /\ p.secondaries = a
  BY DEF Primary
<1>2. e \in R /\ e.tag = "primary" /\ e.used = TRUE /\ e.secondaries = a /\ e.sum = r
  BY DEF Primary
<1>. HIDE DEF p, e
<1>3. [p EXCEPT !.sum = r] = e
  BY <1>1, <1>2
<1>. QED
  BY <1>3 DEF p, e

LEMMA PrimaryEdited ==
    ASSUME NEW a, NEW q, NEW r
    PROVE  [Primary(a, q) EXCEPT !.sum = r] = Primary(a, r) /\ Content(Primary(a, q)) = Primary(a, <<>>)
<1>1. Primary(a, q).tag = "primary"
  BY DEF Primary
<1>. QED
  BY <1>1, SumReplaced DEF Content

LEMMA SlotKinds ==
    /\ \A a, q : Starts(Primary(a, q)) /\ Primary(a, q).tag = "primary" /\ Primary(a, q).used
    /\ \A a, q : /\ StreamSlot(a, q).used /\ StreamSlot(a, q).tag = "stream"
                 /\ ~Starts(StreamSlot(a, q))
    /\ \A a : NameSlot(a).used /\ NameSlot(a).tag = "name" /\ ~Starts(NameSlot(a))
BY DEF Starts, Primary, StreamSlot, NameSlot

(* A sealed set, slot by slot.                                             *)
LEMMA SealedSlots ==
    ASSUME NEW n \in Names, NEW s \in Given
    PROVE  /\ SetSize(n) \in Nat \ {0, 1, 2}
           /\ DOMAIN SealedSet(n, s) = 1..SetSize(n) /\ SealedSet(n, s) \in Seq(Slot)
           /\ Checksum(NewSet(n, s)) \in Seq(Contents) /\ Len(Checksum(NewSet(n, s))) = SetSize(n)
           /\ SealedSet(n, s)[1] = Primary(SetSize(n) - 1, Checksum(NewSet(n, s)))
           /\ SealedSet(n, s)[2] = StreamSlot(Units[n], s)
           /\ \A k \in 3..SetSize(n) : SealedSet(n, s)[k] = NameSlot(NamePart(n, k - 2))
           /\ \A k \in 2..SetSize(n) : SealedSet(n, s)[k] = NewSet(n, s)[k]
           /\ NewSet(n, s)[1] = Primary(SetSize(n) - 1, <<>>)
           /\ \A k \in 1..SetSize(n) : Checksum(NewSet(n, s))[k] = Content(SealedSet(n, s)[k])
           /\ \A k \in 1..SetSize(n) : SealedSet(n, s)[k].used /\ SealedSet(n, s)[k].tag \notin {"end", "pad"}
           /\ Starts(SealedSet(n, s)[1]) /\ \A k \in 2..SetSize(n) : ~Starts(SealedSet(n, s)[k])
<1>. DEFINE N == NewSet(n, s)
            C == Checksum(N)
            S == SealedSet(n, s)
            z == SetSize(n)
<1>1. s \in Stream /\ z \in Nat \ {0, 1, 2}
  BY GivenStreams, Parameters
<1>2. N \in Seq(Slot) /\ DOMAIN N = 1..z /\ Len(N) = z /\ C \in Seq(Contents)
  BY <1>1, NewSetOK
<1>3. DOMAIN C = 1..z /\ \A k \in 1..z : C[k] = Content(N[k])
  BY <1>2 DEF Checksum
<1>4. N[1] = Primary(z - 1, <<>>)
  BY <1>1 DEF NewSet, Secondaries
<1>5. N[2] = StreamSlot(Units[n], s)
  BY <1>1 DEF NewSet
<1>6. \A k \in 3..z : N[k] = NameSlot(NamePart(n, k - 2))
  BY <1>1 DEF NewSet
<1>7. DOMAIN S = 1..z /\ S[1] = [N[1] EXCEPT !.sum = C] /\ \A k \in 2..z : S[k] = N[k]
  BY <1>1, <1>2 DEF SealedSet
<1>8. S[1] = Primary(z - 1, C)
  BY <1>4, <1>7, PrimaryEdited
<1>9. Len(C) = z
  BY <1>1, <1>2, <1>3
<1>10. \A k \in 1..z : C[k] = Content(S[k])
  <2>1. Content(S[1]) = Content(N[1])
    BY <1>4, <1>8, PrimaryEdited
  <2>2. \A k \in 1..z : k = 1 \/ k \in 2..z
    BY <1>1
  <2>. QED
    BY <2>1, <2>2, <1>3, <1>7
<1>11. \A k \in 1..z : k = 1 \/ k = 2 \/ k \in 3..z
  BY <1>1
<1>12. \A k \in 1..z : S[k].used /\ S[k].tag \notin {"end", "pad"}
  <2>. SUFFICES ASSUME NEW k \in 1..z PROVE S[k].used /\ S[k].tag \notin {"end", "pad"}
    OBVIOUS
  <2>1. CASE k = 1
    BY <2>1, <1>8, SlotKinds
  <2>2. CASE k # 1
    <3>1. k \in 2..z /\ (k = 2 \/ k \in 3..z)
      BY <2>2, <1>1
    <3>. QED
      BY <3>1, <1>5, <1>6, <1>7, SlotKinds
  <2>. QED
    BY <2>1, <2>2
<1>13. Starts(S[1])
  BY <1>8, SlotKinds
<1>14. \A k \in 2..z : ~Starts(S[k])
  <2>. SUFFICES ASSUME NEW k \in 2..z PROVE ~Starts(S[k])
    OBVIOUS
  <2>1. k = 2 \/ k \in 3..z
    BY <1>1
  <2>. QED
    BY <2>1, <1>5, <1>6, <1>7, SlotKinds
<1>15. S \in Seq(Slot)
  <2>1. S[1] \in Slot
    BY <1>1, <1>2, <1>8 DEF Primary, Slot
  <2>2. \A k \in 1..z : S[k] \in Slot
    BY <2>1, <1>1, <1>2, <1>7, <1>11
  <2>3. S = [k \in 1..z |-> S[k]]
    BY <1>2, <1>7 DEF SealedSet
  <2>. HIDE DEF S
  <2>. QED
    BY <2>2, <2>3, <1>1
<1>. QED
  BY <1>1, <1>2, <1>4, <1>5, <1>6, <1>7, <1>8, <1>9, <1>10, <1>12, <1>13, <1>14, <1>15

(* What the slots of a set look like.                                      *)
LEMMA HeldSlots ==
    ASSUME NEW v, IsView(v), NEW p \in DOMAIN v, NEW n \in Names, NEW s \in Given, Held(v, p, n, s)
    PROVE  /\ SetSize(n) \in Nat \ {0, 1, 2} /\ p \in Nat \ {0} /\ p \in DOMAIN v /\ p + SetSize(n) - 1 \in DOMAIN v
           /\ Starts(v[p]) /\ v[p] = Primary(SetSize(n) - 1, Checksum(NewSet(n, s)))
           /\ v[p + 1] = StreamSlot(Units[n], s)
           /\ v[p + 2].part = <<n, 1>>
           /\ \A i \in Span(p, n) :
                /\ i \in DOMAIN v /\ i - p + 1 \in 1..SetSize(n) /\ v[i] = SealedSet(n, s)[i - p + 1]
                /\ v[i].used /\ v[i].tag \notin {"end", "pad"} /\ (Starts(v[i]) => i = p)
<1>1. SetSize(n) \in Nat \ {0, 1, 2} /\ p \in Nat \ {0} /\ p \in DOMAIN v /\ Len(v) \in Nat
  BY SealedSlots DEF IsView, Held
<1>2. /\ 1 \in 1..SetSize(n) /\ 2 \in 1..SetSize(n) /\ 3 \in 1..SetSize(n)
      /\ p + 1 - 1 = p /\ p + 2 - 1 = p + 1 /\ p + 3 - 1 = p + 2 /\ 3 - 2 = 1
  BY <1>1
<1>3. v[p] = SealedSet(n, s)[1] /\ v[p + 1] = SealedSet(n, s)[2] /\ v[p + 2] = SealedSet(n, s)[3]
  BY <1>2 DEF Held
<1>4. v[p + 2] = NameSlot(NamePart(n, 1))
  BY <1>1, <1>2, <1>3, SealedSlots
<1>5. NamePart(n, 1) = <<n, 1>>
  BY Parameters DEF NamePart
<1>6. ASSUME NEW i \in Span(p, n)
      PROVE  /\ i \in DOMAIN v /\ i - p + 1 \in 1..SetSize(n) /\ v[i] = SealedSet(n, s)[i - p + 1]
             /\ v[i].used /\ v[i].tag \notin {"end", "pad"} /\ (Starts(v[i]) => i = p)
  <2>1. i \in DOMAIN v /\ i - p + 1 \in 1..SetSize(n) /\ p + (i - p + 1) - 1 = i
    BY <1>1, <1>6 DEF Held, IsView, Span
  <2>2. v[i] = SealedSet(n, s)[i - p + 1]
    BY <2>1 DEF Held
  <2>3. i # p => i - p + 1 \in 2..SetSize(n)
    BY <1>1, <1>6 DEF Span
  <2>4. v[i].used /\ v[i].tag \notin {"end", "pad"}
    BY <2>1, <2>2, SealedSlots
  <2>5. i # p => ~Starts(v[i])
    BY <2>2, <2>3, SealedSlots
  <2>. QED
    BY <2>1, <2>2, <2>4, <2>5
<1>7. p + SetSize(n) - 1 \in Span(p, n)
  BY <1>1 DEF Span
<1>. QED
  BY <1>1, <1>3, <1>4, <1>5, <1>6, <1>7, SealedSlots DEF NameSlot

LEMMA SlotHeld ==
    ASSUME NEW v, IsView(v), NEW p \in DOMAIN v, NEW n \in Names, NEW s \in Given, Held(v, p, n, s),
           NEW i \in Span(p, n)
    PROVE  i \in DOMAIN v /\ v[i].used /\ (Starts(v[i]) => i = p)
BY HeldSlots

(* A place holds one set, *)
LEMMA HeldSame ==
    ASSUME NEW v, IsView(v), NEW p \in DOMAIN v, NEW n \in Names, NEW s \in Given, Held(v, p, n, s),
           NEW m \in Names, NEW r \in Given, Held(v, p, m, r)
    PROVE  n = m /\ s = r
<1>1. v[p + 2].part = <<n, 1>> /\ v[p + 1] = StreamSlot(Units[n], s)
  BY HeldSlots
<1>2. v[p + 2].part = <<m, 1>> /\ v[p + 1] = StreamSlot(Units[m], r)
  BY HeldSlots
<1>. QED
  BY <1>1, <1>2 DEF StreamSlot

(* and two have no slot in common.                                         *)
LEMMA HeldApart ==
    ASSUME NEW v, IsView(v), NEW p \in DOMAIN v, NEW n \in Names, NEW s \in Given, Held(v, p, n, s),
           NEW q \in DOMAIN v, NEW m \in Names, NEW r \in Given, Held(v, q, m, r),
           NEW i \in Span(p, n), i \in Span(q, m)
    PROVE  p = q
<1>1. /\ SetSize(n) \in Nat /\ SetSize(m) \in Nat /\ p \in Nat /\ q \in Nat
      /\ Starts(v[p]) /\ Starts(v[q])
  BY HeldSlots
<1>2. p \in Span(q, m) \/ q \in Span(p, n)
  BY <1>1 DEF Span
<1>. QED
  BY <1>1, <1>2, HeldSlots

(* What is empty is in none.                                               *)
LEMMA EmptyLoose ==
    ASSUME NEW v, IsView(v), NEW i \in DOMAIN v, Empties(v[i])
    PROVE  Loose(v, i)
<1>1. ~Starts(v[i])
  BY DEF Empties, Starts
<1>2. ASSUME NEW p \in DOMAIN v, NEW n \in Names, NEW s \in Given, Held(v, p, n, s),
             i \in Span(p, n)
      PROVE  FALSE
  BY <1>2, HeldSlots DEF Empties
<1>. QED
  BY <1>1, <1>2 DEF Loose

(* Held is about the slots of the set only.                                *)
Agree(v, w, p, n) == \A i \in Span(p, n) : i \in DOMAIN w /\ w[i] = v[i]

LEMMA HeldMoves ==
    ASSUME NEW v, IsView(v), NEW w, IsView(w), NEW p \in DOMAIN v, NEW n \in Names, NEW s \in Given,
           Held(v, p, n, s),
           Agree(v, w, p, n)
    PROVE  Held(w, p, n, s)
<1>1. SetSize(n) \in Nat \ {0, 1, 2} /\ p \in Nat \ {0} /\ Len(w) \in Nat
  BY HeldSlots DEF IsView
<1>2. p \in Span(p, n) /\ p + SetSize(n) - 1 \in Span(p, n)
  BY <1>1 DEF Span
<1>3. p + SetSize(n) - 1 <= Len(w) /\ p \in DOMAIN w
  BY <1>1, <1>2 DEF IsView, Agree
<1>4. ASSUME NEW k \in 1..SetSize(n) PROVE w[p + k - 1] = SealedSet(n, s)[k]
  <2>1. p + k - 1 \in Span(p, n)
    BY <1>1 DEF Span
  <2>. QED
    BY <2>1 DEF Held, Agree
<1>. QED
  BY <1>3, <1>4 DEF Held

-----------------------------------------------------------------------------
(* What a write makes of the sets of a view: nothing,                      *)

Same(v, w) ==
    \A n \in Names, s \in Given : \A p : Held(w, p, n, s) <=> Held(v, p, n, s)

LEMMA OnceKept ==
    ASSUME NEW v, NEW w, Once(v),
           \A n \in Names, s \in Given : \A p : Held(w, p, n, s) => Held(v, p, n, s)
    PROVE  Once(w)
<1>. SUFFICES ASSUME NEW n \in Names, NEW p \in DOMAIN w, NEW q \in DOMAIN w, NEW s \in Given, NEW r \in Given,
                     Held(w, p, n, s), Held(w, q, n, r)
              PROVE  p = q
  BY DEF Once
<1>1. Held(v, p, n, s) /\ Held(v, q, n, r)
  OBVIOUS
<1>2. p \in DOMAIN v /\ q \in DOMAIN v
  BY <1>1 DEF Held
<1>. QED
  BY <1>1, <1>2 DEF Once

(* when only slots outside of sets change, and into slots that start none, *)
LEMMA Loosened ==
    ASSUME NEW v, IsView(v), Formed(v), NEW w, IsView(w),
           \A i \in DOMAIN w : (i \in DOMAIN v /\ w[i] = v[i]) \/ Empties(w[i]),
           \A i \in DOMAIN v : (i \in DOMAIN w /\ w[i] = v[i]) \/ Loose(v, i)
    PROVE  Same(v, w) /\ Formed(w) /\ (Once(v) => Once(w))
<1>1. ASSUME NEW n \in Names, NEW s \in Given, NEW p \in DOMAIN w, Held(w, p, n, s)
      PROVE  Held(v, p, n, s)
  <2>1. Agree(w, v, p, n)
    BY <1>1, HeldSlots DEF Empties, Agree
  <2>. QED
    BY <1>1, <2>1, HeldMoves
<1>2. ASSUME NEW n \in Names, NEW s \in Given, NEW p \in DOMAIN v, Held(v, p, n, s)
      PROVE  Held(w, p, n, s)
  <2>1. Agree(v, w, p, n)
    BY <1>2, HeldSlots DEF Loose, Agree
  <2>. QED
    BY <1>2, <2>1, HeldMoves
<1>3. ASSUME NEW p \in DOMAIN w, Starts(w[p])
      PROVE  \E n \in Names, s \in Given : Held(w, p, n, s)
  <2>1. p \in DOMAIN v /\ w[p] = v[p]
    BY <1>3 DEF Starts, Empties
  <2>2. PICK n \in Names, s \in Given : Held(v, p, n, s)
    BY <1>3, <2>1 DEF Formed
  <2>. QED
    BY <2>1, <2>2, <1>2
<1>. QED
  BY <1>1, <1>2, <1>3, OnceKept, HeldIn DEF Same, Formed

(* a set more, when one takes the place of empty slots,                    *)
LEMMA Appears ==
    ASSUME NEW v, IsView(v), Formed(v), NEW w, IsView(w), Len(w) = Len(v),
           NEW q \in DOMAIN w, NEW m \in Names, NEW r \in Given, Held(w, q, m, r),
           \A i \in DOMAIN v : w[i] = v[i] \/ (i \in Span(q, m) /\ Empties(v[i])),
           \A i \in Span(q, m) : Empties(v[i])
    PROVE  /\ Formed(w)
           /\ \A n \in Names, s \in Given : \A p :
                  Held(w, p, n, s) <=> Held(v, p, n, s) \/ (p = q /\ n = m /\ s = r)
           /\ Once(v) /\ Absent(v, m) => Once(w)
<1>0. DOMAIN w = DOMAIN v
  BY DEF IsView
<1>1. ASSUME NEW n \in Names, NEW s \in Given, NEW p \in DOMAIN v, Held(v, p, n, s)
      PROVE  Held(w, p, n, s)
  <2>1. Agree(v, w, p, n)
    BY <1>0, <1>1, HeldSlots DEF Empties, Agree
  <2>. QED
    BY <1>1, <2>1, HeldMoves
<1>2. ASSUME NEW n \in Names, NEW s \in Given, NEW p \in DOMAIN w, Held(w, p, n, s), p # q
      PROVE  Held(v, p, n, s)
  <2>1. ASSUME NEW i \in Span(p, n)
        PROVE  i \in DOMAIN w /\ i \notin Span(q, m)
    <3>1. i \in DOMAIN w
      BY <1>2, HeldSlots
    <3>2. i \in Span(q, m) => p = q
      BY <1>2, HeldApart
    <3>. QED
      BY <3>1, <3>2, <1>2
  <2>2. Agree(w, v, p, n)
    BY <1>0, <2>1 DEF Agree
  <2>. QED
    BY <1>2, <2>2, HeldMoves
<1>3. \A n \in Names, s \in Given : Held(w, q, n, s) => n = m /\ s = r
  BY HeldSame
<1>4. \A n \in Names, s \in Given : \A p :
          Held(w, p, n, s) <=> Held(v, p, n, s) \/ (p = q /\ n = m /\ s = r)
  BY <1>1, <1>2, <1>3, HeldIn
<1>5. Formed(w)
  <2>. SUFFICES ASSUME NEW p \in DOMAIN w, Starts(w[p]), p # q
                PROVE  \E n \in Names, s \in Given : Held(w, p, n, s)
    BY DEF Formed
  <2>1. p \notin Span(q, m)
    BY HeldSlots
  <2>2. p \in DOMAIN v /\ w[p] = v[p]
    BY <1>0, <2>1
  <2>. QED
    BY <2>2, <1>1 DEF Formed
<1>6. ASSUME Once(v), Absent(v, m) PROVE Once(w)
  <2>. SUFFICES ASSUME NEW n \in Names, NEW x \in DOMAIN w, NEW y \in DOMAIN w, NEW s \in Given, NEW t \in Given,
                       Held(w, x, n, s), Held(w, y, n, t)
                PROVE  x = y
    BY DEF Once
  <2>1. Held(v, x, n, s) \/ (x = q /\ n = m)
    BY <1>4
  <2>2. Held(v, y, n, t) \/ (y = q /\ n = m)
    BY <1>4
  <2>3. n = m => ~Held(v, x, n, s) /\ ~Held(v, y, n, t)
    BY <1>0, <1>6 DEF Absent
  <2>. QED
    BY <1>0, <1>6, <2>1, <2>2, <2>3 DEF Once
<1>. QED
  BY <1>4, <1>5, <1>6

(* or a set less, when its primary is emptied.                             *)
LEMMA Vanishes ==
    ASSUME NEW v, IsView(v), Formed(v), NEW w, IsView(w), Len(w) = Len(v),
           NEW q \in DOMAIN v, NEW m \in Names, NEW r \in Given, Held(v, q, m, r), Empties(w[q]),
           \A i \in DOMAIN v : w[i] = v[i] \/ (i \in Span(q, m) /\ Empties(w[i]))
    PROVE  /\ Formed(w)
           /\ \A n \in Names, s \in Given : \A p : Held(w, p, n, s) <=> Held(v, p, n, s) /\ p # q
           /\ Once(v) => Once(w) /\ Absent(w, m)
<1>0. DOMAIN w = DOMAIN v
  BY DEF IsView
<1>1. ASSUME NEW n \in Names, NEW s \in Given, NEW p \in DOMAIN v, Held(v, p, n, s), p # q
      PROVE  Held(w, p, n, s)
  <2>1. ASSUME NEW i \in Span(p, n)
        PROVE  i \in DOMAIN v /\ i \notin Span(q, m)
    <3>1. i \in DOMAIN v
      BY <1>1, HeldSlots
    <3>2. i \in Span(q, m) => p = q
      BY <1>1, HeldApart
    <3>. QED
      BY <3>1, <3>2, <1>1
  <2>2. Agree(v, w, p, n)
    BY <1>0, <2>1 DEF Agree
  <2>. QED
    BY <1>1, <2>2, HeldMoves
<1>2. ASSUME NEW n \in Names, NEW s \in Given, NEW p \in DOMAIN w, Held(w, p, n, s)
      PROVE  Held(v, p, n, s) /\ p # q
  <2>1. Agree(w, v, p, n)
    BY <1>0, <1>2, HeldSlots DEF Empties, Agree
  <2>2. Starts(w[p])
    BY <1>2, HeldSlots
  <2>3. p # q
    BY <2>2 DEF Starts, Empties
  <2>. QED
    BY <1>2, <2>1, <2>3, HeldMoves
<1>3. Formed(w)
  <2>. SUFFICES ASSUME NEW p \in DOMAIN w, Starts(w[p])
                PROVE  \E n \in Names, s \in Given : Held(w, p, n, s)
    BY DEF Formed
  <2>1. p \in DOMAIN v /\ w[p] = v[p] /\ p # q
    BY <1>0 DEF Starts, Empties
  <2>. QED
    BY <2>1, <1>1 DEF Formed
<1>4. ASSUME Once(v) PROVE Once(w) /\ Absent(w, m)
  <2>1. Once(w)
    BY <1>2, <1>4, OnceKept, HeldIn
  <2>2. ASSUME NEW p \in DOMAIN w, NEW s \in Given, Held(w, p, m, s) PROVE FALSE
    <3>1. Held(v, p, m, s) /\ p # q /\ p \in DOMAIN v /\ q \in DOMAIN v
      BY <1>2, <2>2 DEF Held
    <3>. QED
      BY <1>4, <3>1 DEF Once
  <2>. QED
    BY <2>1, <2>2 DEF Absent
<1>. QED
  BY <1>1, <1>2, <1>3, <1>4, HeldIn

-----------------------------------------------------------------------------
(* A scan of such a view.                                                  *)

Decoding ==
    [left : Nat, ignored : BOOLEAN, seen : BOOLEAN, len : Nat, name : Seq(Parts),
     stream : Stream \cup {None}, locs : Seq(Nat), sum : Seq(Contents),
     expect : Seq(Contents), out : {"none", "entry", "corrupt", "end", "absent"}]

SameBut(d, e) ==
    /\ d.ignored = e.ignored /\ d.seen = e.seen /\ d.len = e.len /\ d.name = e.name /\ d.stream = e.stream
    /\ d.locs = e.locs /\ d.sum = e.sum /\ d.expect = e.expect /\ d.left = e.left

(* The edits of a decoder, field by field.                                 *)
LEMMA OutOf ==
    ASSUME NEW d \in Decoding, NEW x \in {"none", "entry", "corrupt", "end", "absent"},
           NEW e, e = WithOut(d, x)
    PROVE  e \in Decoding /\ e.out = x /\ SameBut(e, d)
BY DEF Decoding, WithOut, SameBut

LEMMA TakenOf ==
    ASSUME NEW d \in Decoding, NEW i \in Nat, NEW s \in Slot, d.left # 0, NEW e, e = Taken(d, i, s)
    PROVE  /\ e \in Decoding /\ e.out = "none" /\ e.left = d.left - 1 /\ e.ignored = d.ignored
           /\ e.locs = Append(d.locs, i) /\ e.sum = Append(d.sum, Content(s))
           /\ e.seen = d.seen /\ e.len = d.len /\ e.name = d.name /\ e.stream = d.stream
           /\ e.expect = d.expect
<1>. DEFINE C == Contents
            L == Seq(Nat)
            Q == Seq(C)
            P == Seq(Parts)
            T == Stream \cup {None}
            Type == [left : Nat, ignored : BOOLEAN, seen : BOOLEAN, len : Nat, name : P,
                     stream : T, locs : L, sum : Q, expect : Q,
                     out : {"none", "entry", "corrupt", "end", "absent"}]
            a == Append(d.locs, i)
            b == Append(d.sum, Content(s))
            m == d.left - 1
<1>1. Content(s) \in C /\ d \in Type /\ d.locs \in L /\ d.sum \in Q /\ Decoding = Type
  BY ContentType DEF Decoding
<1>. HIDE DEF C
<1>2. a \in L /\ b \in Q /\ m \in Nat
  BY <1>1
<1>3. e = [d EXCEPT !.left = m, !.locs = a, !.sum = b, !.out = "none"]
  BY DEF Taken
<1>. HIDE DEF L, Q, P, T, a, b, m
<1>4. e \in Type
  BY <1>1, <1>2, <1>3
<1>5. /\ e.out = "none" /\ e.left = m /\ e.ignored = d.ignored
      /\ e.locs = a /\ e.sum = b /\ e.seen = d.seen /\ e.len = d.len /\ e.name = d.name
      /\ e.stream = d.stream /\ e.expect = d.expect
  BY <1>1, <1>2, <1>3
<1>. QED
  BY <1>1, <1>4, <1>5, Zenon DEF a, b, m

LEMMA StreamOf ==
    ASSUME NEW d \in Decoding, NEW n \in Nat, NEW s \in Stream, NEW e, e = WithStream(d, n, s)
    PROVE  /\ e \in Decoding /\ e.out = d.out /\ e.left = d.left /\ e.ignored = d.ignored
           /\ e.seen /\ e.len = n /\ e.name = d.name /\ e.stream = s
           /\ e.locs = d.locs /\ e.sum = d.sum /\ e.expect = d.expect
BY DEF Decoding, WithStream

LEMMA NameOf ==
    ASSUME NEW d \in Decoding, NEW p \in Parts, NEW e, e = WithName(d, p)
    PROVE  /\ e \in Decoding /\ e.out = d.out /\ e.left = d.left /\ e.ignored = d.ignored
           /\ e.seen = d.seen /\ e.len = d.len /\ e.name = Append(d.name, p) /\ e.stream = d.stream
           /\ e.locs = d.locs /\ e.sum = d.sum /\ e.expect = d.expect
<1>. DEFINE P == Parts
            a == Append(d.name, p)
<1>1. d.name \in Seq(P) /\ p \in P
  BY DEF Decoding
<1>. HIDE DEF P
<1>2. a \in Seq(P) /\ e = [d EXCEPT !.name = a]
  BY <1>1 DEF WithName
<1>. HIDE DEF a
<1>3. e \in Decoding
  BY <1>2 DEF Decoding, P
<1>4. /\ e.out = d.out /\ e.left = d.left /\ e.ignored = d.ignored
      /\ e.seen = d.seen /\ e.len = d.len /\ e.name = a /\ e.stream = d.stream
      /\ e.locs = d.locs /\ e.sum = d.sum /\ e.expect = d.expect
  BY <1>2 DEF Decoding
<1>. QED
  BY <1>3, <1>4, Zenon DEF a

LEMMA FreshOf ==
    /\ FreshDecoder \in Decoding /\ FreshDecoder.left = 0 /\ FreshDecoder.out = "none"
<1>1. <<>> \in Seq(Parts) /\ <<>> \in Seq(Nat) /\ <<>> \in Seq(Contents)
  OBVIOUS
<1>. QED
  BY <1>1 DEF FreshDecoder, Decoding

LEMMA BegunOf ==
    ASSUME NEW i \in Nat, NEW n \in Nat, NEW x \in Seq(Contents), NEW c \in Contents,
           NEW e, e = Begun(i, n, x, c)
    PROVE  /\ e \in Decoding /\ e.out = "none" /\ e.left = n /\ ~e.ignored /\ ~e.seen
           /\ e.len = 0 /\ e.name = <<>> /\ e.locs = <<i>> /\ e.sum = <<c>> /\ e.expect = x
<1>. DEFINE C == Contents
            a == <<i>>
            b == <<c>>
            L == Seq(Nat)
            Q == Seq(C)
            P == Seq(Parts)
            T == Stream \cup {None}
            Type == [left : Nat, ignored : BOOLEAN, seen : BOOLEAN, len : Nat, name : P,
                     stream : T, locs : L, sum : Q, expect : Q,
                     out : {"none", "entry", "corrupt", "end", "absent"}]
<1>1. c \in C /\ x \in Q
  OBVIOUS
<1>3. FreshDecoder \in Type /\ Decoding = Type
  BY FreshOf DEF Decoding
<1>. HIDE DEF C
<1>2. a \in L /\ b \in Q /\ e = [FreshDecoder EXCEPT !.left = n, !.expect = x, !.locs = a, !.sum = b]
  BY <1>1 DEF Begun
<1>. HIDE DEF a, b, L, Q, P, T
<1>4. /\ e.out = "none" /\ e.left = n /\ ~e.ignored /\ ~e.seen
      /\ e.len = 0 /\ e.name = <<>> /\ e.locs = a /\ e.sum = b /\ e.expect = x
  BY <1>2 DEF FreshDecoder
<1>5. e \in Decoding
  BY <1>1, <1>2, <1>3
<1>. QED
  BY <1>4, <1>5, Zenon DEF a, b

(* How many name entries a name takes.                                     *)
LEMMA RoundsUp ==
    ASSUME NEW u \in Nat \ {0}, NEW e \in Nat \ {0}
    PROVE  /\ (u + e - 1) \div e \in Nat
           /\ ((u + e - 1) \div e - 1) * e < u /\ u <= ((u + e - 1) \div e) * e
<1>. DEFINE a == u + e - 1
            m == a \div e
            r == a % e
            p == m * e
<1>1. a \in Nat
  OBVIOUS
<1>. HIDE DEF a
<1>2. m \in Nat /\ r \in 0..(e - 1) /\ a = e * m + r
  BY <1>1
<1>. HIDE DEF m, r
<1>3. p \in Nat /\ p = e * m /\ (m - 1) * e = p - e
  BY <1>2
<1>. HIDE DEF p
<1>4. a = p + r
  BY <1>2, <1>3
<1>5. p - e < u /\ u <= p
  BY <1>2, <1>3, <1>4 DEF a
<1>. QED
  BY <1>2, <1>3, <1>5 DEF m, p, a

LEMMA NameRoom ==
    ASSUME NEW n \in Names
    PROVE  /\ NameEntries(n) = SetSize(n) - 2
           /\ \A k \in 1..(NameEntries(n)) : (k - 1) * UnitsPerEntry < Units[n]
           /\ Units[n] <= NameEntries(n) * UnitsPerEntry
<1>1. PICK u \in Nat \ {0}, e \in Nat \ {0}, m \in Nat \ {0} : u = Units[n] /\ e = UnitsPerEntry /\ m = NameEntries(n)
  BY Parameters
<1>2. m = (u + e - 1) \div e
  BY <1>1 DEF NameEntries
<1>3. (m - 1) * e < u /\ u <= m * e
  BY <1>2, RoundsUp
<1>4. ASSUME NEW k \in 1..m PROVE (k - 1) * e < u
  <2>1. PICK j \in Nat : m = k + j
    <3>1. m - k \in Nat /\ m = k + (m - k)
      OBVIOUS
    <3>. QED
      BY <3>1
  <2>2. (m - 1) * e = (k - 1) * e + j * e /\ j * e \in Nat /\ (k - 1) * e \in Nat
    BY <2>1
  <2>. QED
    BY <1>3, <2>2
<1>. QED
  BY <1>1, <1>3, <1>4 DEF SetSize

(* The decoder when it has read the first k slots of a set.                *)
Sums(n, s) == Checksum(NewSet(n, s))
Midway(d, p, n, s, k) ==
    /\ d.left = SetSize(n) - k /\ ~d.ignored /\ d.expect = Sums(n, s)
    /\ d.seen <=> k >= 2
    /\ k >= 2 => d.len = Units[n] /\ d.stream = s /\ Len(d.name) = k - 2
    /\ k < 2 => d.name = <<>>
    /\ Len(d.locs) = k /\ \A j \in 1..k : d.locs[j] = p + j - 1
    /\ Len(d.sum) = k /\ \A j \in 1..k : d.sum[j] = Sums(n, s)[j]
    /\ \A j \in 1..(k - 2) : d.name[j] = NamePart(n, j)
OutAt(n, k) == IF k = SetSize(n) THEN "entry" ELSE "none"

LEMMA MidwayBegins ==
    ASSUME NEW d \in Decoding, d.left = 0, NEW p \in Nat, NEW n \in Names, NEW s \in Given,
           NEW x, x = SealedSet(n, s)[1]
    PROVE  /\ Push(d, p, x) \in Decoding /\ Push(d, p, x).out = "none"
           /\ Midway(Push(d, p, x), p, n, s, 1)
<1>1. PICK z \in Nat : z = SetSize(n) - 1 /\ z >= 2 /\ SetSize(n) = z + 1
  <2>1. SetSize(n) \in Nat \ {0, 1, 2}
    BY Parameters
  <2>. QED
    BY <2>1
<1>2. x = Primary(z, Sums(n, s)) /\ Starts(x) /\ Sums(n, s) \in Seq(Contents) /\ Content(x) = Sums(n, s)[1]
  BY <1>1, SealedSlots DEF Sums
<1>3. x.secondaries = z /\ x.sum = Sums(n, s) /\ x.tag = "primary" /\ x.used
  BY <1>2 DEF Primary
<1>4. x \in Slot /\ Content(x) \in Contents
  <2>1. 1 \in 1..SetSize(n)
    BY <1>1
  <2>2. x \in Slot
    BY <2>1, SealedSlots
  <2>. QED
    BY <2>2, ContentType
<1>5. PICK e : e = Begun(p, x.secondaries, x.sum, Content(x))
  OBVIOUS
<1>6. Push(d, p, x) = e
  <2>1. ~(z < 2)
    BY <1>1
  <2>2. ~(d.left # 0 \/ x.secondaries < 2)
    BY <1>3, <2>1
  <2>. QED
    BY <1>3, <1>5, <2>2 DEF Push, Begun
<1>10. PICK q \in Seq(Contents), c \in Contents : q = Sums(n, s) /\ c = Content(x)
  BY <1>2, <1>4
<1>11. e = Begun(p, z, q, c)
  BY <1>3, <1>5, <1>10
<1>12. /\ e \in Decoding /\ e.out = "none" /\ e.left = z /\ ~e.ignored /\ ~e.seen
       /\ e.len = 0 /\ e.name = <<>> /\ e.locs = <<p>> /\ e.sum = <<c>> /\ e.expect = q
  BY ONLY <1>11, p \in Nat, z \in Nat, q \in Seq(Contents), c \in Contents, BegunOf
<1>7. /\ e \in Decoding /\ e.out = "none" /\ e.left = z /\ ~e.ignored /\ ~e.seen
      /\ e.len = 0 /\ e.name = <<>> /\ e.locs = <<p>> /\ e.sum = <<Content(x)>> /\ e.expect = Sums(n, s)
  BY <1>10, <1>12
<1>8. Len(e.locs) = 1 /\ e.locs[1] = p /\ Len(e.sum) = 1 /\ e.sum[1] = Sums(n, s)[1]
  BY <1>2, <1>7
<1>9. Midway(e, p, n, s, 1)
  <2>1. SetSize(n) - 1 = z /\ \A j \in 1..1 : j = 1 /\ p + j - 1 = p
    BY <1>1
  <2>2. 1..(1 - 2) = {}
    OBVIOUS
  <2>3. e.left = z /\ ~e.ignored /\ e.expect = Sums(n, s) /\ ~e.seen /\ e.name = <<>>
    BY <1>7
  <2>. QED
    BY <1>8, <2>1, <2>2, <2>3 DEF Midway
<1>. QED
  BY <1>6, <1>7, <1>9

LEMMA MidwayComplete ==
    ASSUME NEW p \in Nat, NEW n \in Names, NEW s \in Given, NEW k \in 2..SetSize(n),
           NEW d \in Decoding, d.out = "none", Midway(d, p, n, s, k)
    PROVE  /\ Complete(d) \in Decoding /\ Complete(d).out = OutAt(n, k)
           /\ Midway(Complete(d), p, n, s, k)
<1>1. SetSize(n) \in Nat \ {0, 1, 2} /\ NameEntries(n) = SetSize(n) - 2
  BY Parameters, NameRoom
<1>2. CASE k # SetSize(n)
  <2>1. d.left # 0
    BY <1>1, <1>2 DEF Midway
  <2>. QED
    BY <1>2, <2>1 DEF Complete, OutAt
<1>3. CASE k = SetSize(n)
  <2>1. d.left = 0 /\ d.seen /\ Len(d.name) = NameEntries(n) /\ d.len = Units[n]
    BY <1>1, <1>3 DEF Midway
  <2>2. ~(Len(d.name) * UnitsPerEntry < d.len)
    <3>1. Units[n] \in Nat /\ NameEntries(n) \in Nat /\ UnitsPerEntry \in Nat
      BY Parameters
    <3>2. NameEntries(n) * UnitsPerEntry \in Nat
      BY <3>1
    <3>. QED
      BY <2>1, <3>1, <3>2, NameRoom
  <2>3. d.sum = d.expect
    <3>1. PICK a \in Seq(Contents), b \in Seq(Contents) : a = d.sum /\ b = Sums(n, s)
      BY SealedSlots DEF Decoding, Sums
    <3>2. Len(a) = k /\ Len(b) = k /\ \A j \in 1..k : a[j] = b[j]
      BY <1>3, <3>1, SealedSlots DEF Midway, Sums
    <3>3. a = b
      BY <3>2
    <3>. QED
      BY <3>1, <3>3 DEF Midway
  <2>4. PICK e : e = WithOut(d, "entry")
    OBVIOUS
  <2>5. e \in Decoding /\ e.out = "entry" /\ SameBut(e, d)
    BY <2>4, OutOf
  <2>6. Complete(d) = e
    BY <2>1, <2>2, <2>3, <2>4 DEF Complete, WithOut
  <2>7. Midway(e, p, n, s, k)
    BY <2>5 DEF Midway, SameBut
  <2>. QED
    BY <1>3, <2>5, <2>6, <2>7 DEF OutAt
<1>. QED
  BY <1>2, <1>3

(* What is taken goes behind what was.                                     *)
LEMMA MidwayTaken ==
    ASSUME NEW p \in Nat, NEW n \in Names, NEW s \in Given, NEW k \in 2..SetSize(n),
           NEW d \in Decoding, Midway(d, p, n, s, k - 1), NEW x, x = SealedSet(n, s)[k],
           NEW e, e = Taken(d, p + k - 1, x)
    PROVE  /\ x \in Slot /\ d.left # 0 /\ ~d.ignored /\ e \in Decoding /\ e.out = "none" /\ ~e.ignored
           /\ e.left = SetSize(n) - k /\ e.expect = Sums(n, s)
           /\ e.seen = d.seen /\ e.len = d.len /\ e.stream = d.stream /\ e.name = d.name
           /\ Len(e.locs) = k /\ \A j \in 1..k : e.locs[j] = p + j - 1
           /\ Len(e.sum) = k /\ \A j \in 1..k : e.sum[j] = Sums(n, s)[j]
<1>1. SetSize(n) \in Nat \ {0, 1, 2}
  BY Parameters
<1>2. d.left = SetSize(n) - (k - 1) /\ d.left # 0 /\ ~d.ignored /\ d.expect = Sums(n, s)
  BY <1>1 DEF Midway
<1>3. k \in 1..SetSize(n) /\ x \in Slot /\ Content(x) = Sums(n, s)[k]
  <2>1. k \in 1..SetSize(n)
    BY <1>1
  <2>. QED
    BY <2>1, SealedSlots DEF Sums
<1>4. PICK i \in Nat : i = p + k - 1
  BY <1>1
<1>5. /\ e \in Decoding /\ e.out = "none" /\ e.left = d.left - 1 /\ e.ignored = d.ignored
      /\ e.locs = Append(d.locs, i) /\ e.sum = Append(d.sum, Content(x))
      /\ e.seen = d.seen /\ e.len = d.len /\ e.name = d.name /\ e.stream = d.stream
      /\ e.expect = d.expect
  BY <1>2, <1>3, <1>4, TakenOf
<1>6. PICK l \in Seq(Nat), q \in Seq(Contents), c \in Contents : l = d.locs /\ q = d.sum /\ c = Content(x)
  BY <1>3, ContentType DEF Decoding
<1>7. /\ Len(l) = k - 1 /\ Len(q) = k - 1 /\ \A j \in 1..(k - 1) : l[j] = p + j - 1 /\ q[j] = Sums(n, s)[j]
  BY <1>6 DEF Midway
<1>8. \A j \in 1..k : j \in 1..(k - 1) \/ j = k
  BY <1>1
<1>9. Len(Append(l, i)) = k /\ \A j \in 1..k : Append(l, i)[j] = p + j - 1
  <2>1. Len(Append(l, i)) = k /\ Append(l, i)[k] = i /\ \A j \in 1..(k - 1) : Append(l, i)[j] = l[j]
    BY <1>1, <1>7
  <2>. QED
    BY <1>4, <1>7, <1>8, <2>1
<1>10. Len(Append(q, c)) = k /\ \A j \in 1..k : Append(q, c)[j] = Sums(n, s)[j]
  <2>1. Len(Append(q, c)) = k /\ Append(q, c)[k] = c /\ \A j \in 1..(k - 1) : Append(q, c)[j] = q[j]
    BY <1>1, <1>7
  <2>. QED
    BY <1>3, <1>6, <1>7, <1>8, <2>1
<1>11. e.left = SetSize(n) - k
  BY <1>1, <1>2, <1>5
<1>. QED
  BY <1>2, <1>3, <1>5, <1>6, <1>9, <1>10, <1>11

LEMMA MidwayGoesOn ==
    ASSUME NEW p \in Nat, NEW n \in Names, NEW s \in Given, NEW k \in 2..SetSize(n),
           NEW d \in Decoding, Midway(d, p, n, s, k - 1), NEW x, x = SealedSet(n, s)[k]
    PROVE  /\ Push(d, p + k - 1, x) \in Decoding /\ Push(d, p + k - 1, x).out = OutAt(n, k)
           /\ Midway(Push(d, p + k - 1, x), p, n, s, k)
<1>0. PICK i : i = p + k - 1
  OBVIOUS
<1>1. SetSize(n) \in Nat \ {0, 1, 2} /\ Units[n] \in Nat /\ s \in Stream
  BY Parameters, GivenStreams
<1>2. PICK e : e = Taken(d, p + k - 1, x)
  OBVIOUS
<1>3. /\ x \in Slot /\ d.left # 0 /\ ~d.ignored /\ e \in Decoding /\ e.out = "none" /\ ~e.ignored
      /\ e.left = SetSize(n) - k /\ e.expect = Sums(n, s)
      /\ e.seen = d.seen /\ e.len = d.len /\ e.stream = d.stream /\ e.name = d.name
      /\ Len(e.locs) = k /\ \A j \in 1..k : e.locs[j] = p + j - 1
      /\ Len(e.sum) = k /\ \A j \in 1..k : e.sum[j] = Sums(n, s)[j]
  BY <1>2, MidwayTaken
<1>4. CASE k = 2
  <2>1. x = StreamSlot(Units[n], s)
    BY <1>4, SealedSlots
  <2>2. x.tag = "stream" /\ x.used /\ x.len = Units[n] /\ x.stream = s
    BY <2>1 DEF StreamSlot
  <2>3. ~d.seen /\ Len(d.locs) = 1 /\ d.name = <<>>
    BY <1>4 DEF Midway
  <2>4. PICK f : f = WithStream(e, Units[n], s)
    OBVIOUS
  <2>5. /\ f \in Decoding /\ f.out = e.out /\ f.left = e.left /\ f.ignored = e.ignored
        /\ f.seen /\ f.len = Units[n] /\ f.name = e.name /\ f.stream = s
        /\ f.locs = e.locs /\ f.sum = e.sum /\ f.expect = e.expect
    <3>1. e \in Decoding /\ s \in Stream /\ Units[n] \in Nat
      BY <1>1, <1>3
    <3>. QED
      BY ONLY <3>1, <2>4, StreamOf
  <2>6. Push(d, i, x) = Complete(f)
    BY <1>0, <1>2, <1>3, <2>2, <2>3, <2>4 DEF Push, WithStream
  <2>7. Len(f.name) = 0
    BY <1>3, <2>3, <2>5
  <2>8. Midway(f, p, n, s, k)
    BY <1>3, <1>4, <2>5, <2>7 DEF Midway
  <2>. QED
    BY <1>0, <1>3, <2>5, <2>6, <2>8, MidwayComplete
<1>5. CASE k # 2
  <2>1. k \in 3..SetSize(n) /\ k - 1 \in 2..SetSize(n) /\ k - 2 \in 1..NameEntries(n)
    BY <1>1, <1>5, NameRoom
  <2>2. x = NameSlot(NamePart(n, k - 2))
    BY <2>1, SealedSlots
  <2>3. x.tag = "name" /\ x.used /\ x.part = NamePart(n, k - 2)
    BY <2>2 DEF NameSlot
  <2>4. d.seen /\ d.len = Units[n] /\ d.stream = s /\ Len(d.name) = k - 3
    BY <2>1 DEF Midway
  <2>5. Len(d.name) * UnitsPerEntry < d.len
    <3>1. (k - 2 - 1) * UnitsPerEntry < Units[n]
      BY <2>1, NameRoom
    <3>2. k - 2 - 1 = k - 3
      BY <1>1
    <3>. QED
      BY <2>4, <3>1, <3>2
  <2>6. x.part \in Parts
    BY <1>3, <2>3, SlotFields
  <2>7. PICK f : f = WithName(e, x.part)
    OBVIOUS
  <2>8. /\ f \in Decoding /\ f.out = e.out /\ f.left = e.left /\ f.ignored = e.ignored
        /\ f.seen = e.seen /\ f.len = e.len /\ f.name = Append(e.name, x.part) /\ f.stream = e.stream
        /\ f.locs = e.locs /\ f.sum = e.sum /\ f.expect = e.expect
    <3>1. e \in Decoding
      BY <1>3
    <3>. QED
      BY ONLY <3>1, <2>6, <2>7, NameOf
  <2>9. Push(d, i, x) = Complete(f)
    BY <1>0, <1>2, <1>3, <2>3, <2>4, <2>5, <2>7 DEF Push, WithName
  <2>10. Len(f.name) = k - 2 /\ \A j \in 1..(k - 2) : f.name[j] = NamePart(n, j)
    <3>1. PICK m \in Seq(Parts) : m = d.name
      BY DEF Decoding
    <3>2. Len(m) = k - 3 /\ \A j \in 1..(k - 3) : m[j] = NamePart(n, j)
      <4>1. k - 1 - 2 = k - 3
        BY <1>1
      <4>. QED
        BY <2>4, <3>1, <4>1 DEF Midway
    <3>3. f.name = Append(m, x.part)
      BY <1>3, <2>8, <3>1
    <3>4. /\ Len(Append(m, x.part)) = k - 2 /\ Append(m, x.part)[k - 2] = x.part
          /\ \A j \in 1..(k - 3) : Append(m, x.part)[j] = m[j]
      BY <2>1, <2>6, <3>2
    <3>5. \A j \in 1..(k - 2) : j \in 1..(k - 3) \/ j = k - 2
      BY <1>1
    <3>. QED
      BY <2>3, <3>2, <3>3, <3>4, <3>5
  <2>11. Midway(f, p, n, s, k)
    BY <1>3, <2>1, <2>4, <2>8, <2>10 DEF Midway
  <2>. QED
    BY <1>0, <1>3, <2>8, <2>9, <2>11, MidwayComplete
<1>. QED
  BY <1>4, <1>5

(* The decoder behind i slots: between sets, or in one.                    *)
Outside(v, i) == \A p \in DOMAIN v, n \in Names, s \in Given : Held(v, p, n, s) => i \notin Span(p, n)
Between(v, d, i) ==
    d.left = 0 /\ Outside(v, i) /\ d.out = (IF i # 0 /\ v[i].tag = "end" THEN "end" ELSE "none")
Within(v, d, i, p, n, s) ==
    Held(v, p, n, s) /\ i \in Span(p, n) /\ Midway(d, p, n, s, i - p + 1) /\ d.out = OutAt(n, i - p + 1)
Scanned(v, d, i) ==
    /\ d \in Decoding
    /\ Between(v, d, i) \/ \E p \in DOMAIN v, n \in Names, s \in Given : Within(v, d, i, p, n, s)

(* A set that goes on behind i has the next slot.                          *)
LEMMA WithinNext ==
    ASSUME NEW v, IsView(v), NEW d, NEW i \in Nat, NEW p \in DOMAIN v, NEW n \in Names, NEW s \in Given,
           Within(v, d, i, p, n, s)
    PROVE  /\ d.left = 0 <=> i + 1 \notin Span(p, n)
           /\ i - p + 1 \in 1..SetSize(n) /\ p \in Nat \ {0} /\ i + 1 # p /\ i # 0
           /\ d.out \in {"entry", "none"}
           /\ d.left = 0 <=> d.out = "entry"
           /\ i + 1 \in Span(p, n) => (i + 1) - p + 1 \in 2..SetSize(n) /\ ((i + 1) - p + 1) - 1 = i - p + 1
<1>1. SetSize(n) \in Nat \ {0, 1, 2} /\ p \in Nat \ {0}
  BY HeldSlots DEF Within
<1>2. i \in p..(p + SetSize(n) - 1) /\ d.left = SetSize(n) - (i - p + 1)
  BY DEF Within, Midway, Span
<1>3. d.left = 0 <=> i - p + 1 = SetSize(n)
  BY <1>1, <1>2
<1>. QED
  BY <1>1, <1>2, <1>3 DEF Within, OutAt, Span

LEMMA ScanAdvances ==
    ASSUME NEW v, IsView(v), \A j \in DOMAIN v : v[j] \in Slot, Formed(v), EndsBehind(v),
           NEW i \in Nat, i + 1 \in DOMAIN v, NEW d, Scanned(v, d, i)
    PROVE  Scanned(v, Advance(d, i + 1, v[i + 1]), i + 1)
<1>. DEFINE x == v[i + 1]
            e == Advance(d, i + 1, x)
<1>1. d \in Decoding /\ x \in Slot /\ i + 1 \in 1..Len(v) /\ Len(v) \in Nat /\ i + 1 # 0
  BY DEF Scanned, IsView
<1>2. ASSUME x.tag = "end" PROVE Outside(v, i + 1)
  BY <1>2, HeldSlots DEF Outside
<1>3. ASSUME NEW p \in DOMAIN v, NEW n \in Names, NEW s \in Given, Within(v, d, i, p, n, s), d.left # 0
      PROVE  x.tag # "end" /\ ~Starts(x)
  <2>1. i + 1 \in Span(p, n) /\ i + 1 # p
    BY <1>3, WithinNext
  <2>. QED
    BY <1>3, <2>1, HeldSlots DEF Within
<1>4. CASE d.out = "end"
  <2>1. Between(v, d, i)
    BY <1>4, WithinNext DEF Scanned
  <2>2. i \in DOMAIN v /\ v[i].tag = "end" /\ i + 1 \in i..Len(v)
    BY <1>1, <1>4, <2>1 DEF Between, IsView
  <2>3. x.tag = "end"
    BY <2>2 DEF EndsBehind
  <2>4. e = d
    BY <1>4 DEF Advance
  <2>5. Between(v, d, i + 1)
    BY <1>1, <1>2, <1>4, <2>1, <2>3 DEF Between
  <2>. QED
    BY <1>1, <2>4, <2>5 DEF Scanned
<1>5. CASE d.out # "end"
  <2>1. d.out # "corrupt"
    BY WithinNext DEF Scanned, Between
  <2>2. CASE x.tag = "end"
    <3>1. d.left = 0
      BY <1>3, <2>2 DEF Scanned, Between
    <3>2. PICK f : f = WithOut(d, "end")
      OBVIOUS
    <3>3. f \in Decoding /\ f.out = "end" /\ f.left = d.left
      BY <1>1, <3>2, OutOf DEF SameBut
    <3>4. e = f
      BY <1>5, <2>1, <2>2, <3>2 DEF Advance, WithOut
    <3>5. Between(v, f, i + 1)
      BY <1>1, <1>2, <2>2, <3>1, <3>3 DEF Between
    <3>. QED
      BY <3>3, <3>4, <3>5 DEF Scanned
  <2>3. CASE x.tag # "end" /\ Starts(x)
    <3>1. PICK n \in Names, s \in Given : Held(v, i + 1, n, s)
      BY <2>3 DEF Formed
    <3>2. d.left = 0
      BY <1>3, <2>3 DEF Scanned, Between
    <3>3. e = Push(d, i + 1, x)
      BY <1>5, <2>1, <2>3 DEF Advance
    <3>4. x = SealedSet(n, s)[1] /\ i + 1 \in Span(i + 1, n) /\ (i + 1) - (i + 1) + 1 = 1 /\ i + 1 \in Nat
      <4>1. SetSize(n) \in Nat \ {0, 1, 2} /\ 1 \in 1..SetSize(n) /\ (i + 1) + 1 - 1 = i + 1
        BY Parameters
      <4>2. x = SealedSet(n, s)[1]
        BY <3>1, <4>1 DEF Held
      <4>. QED
        BY <4>1, <4>2 DEF Span
    <3>5. e \in Decoding /\ e.out = "none" /\ Midway(e, i + 1, n, s, 1)
      <4>1. PICK y, j : y = x /\ j = i + 1
        OBVIOUS
      <4>2. d \in Decoding /\ d.left = 0 /\ j \in Nat /\ y = SealedSet(n, s)[1]
        BY <1>1, <3>2, <3>4, <4>1
      <4>3. Push(d, j, y) \in Decoding /\ Push(d, j, y).out = "none" /\ Midway(Push(d, j, y), j, n, s, 1)
        BY ONLY <4>2, n \in Names, s \in Given, MidwayBegins
      <4>. QED
        BY <3>3, <4>1, <4>3
    <3>6. OutAt(n, 1) = "none"
      BY Parameters DEF OutAt
    <3>7. Within(v, e, i + 1, i + 1, n, s)
      BY <3>1, <3>4, <3>5, <3>6 DEF Within
    <3>. QED
      BY <3>5, <3>7 DEF Scanned
  <2>4. CASE x.tag # "end" /\ ~Starts(x) /\ d.left # 0
    <3>1. PICK p \in DOMAIN v, n \in Names, s \in Given : Within(v, d, i, p, n, s)
      BY <2>4 DEF Scanned, Between
    <3>2. PICK k \in 2..SetSize(n) : k = (i + 1) - p + 1 /\ k - 1 = i - p + 1 /\ i + 1 \in Span(p, n) /\ p \in Nat
      BY <2>4, <3>1, WithinNext
    <3>3. p + k - 1 = i + 1
      BY <3>2
    <3>4. x = SealedSet(n, s)[k] /\ Midway(d, p, n, s, k - 1)
      BY <3>1, <3>2, HeldSlots DEF Within
    <3>5. e = Push(d, p + k - 1, x)
      BY <1>5, <2>1, <2>4, <3>3 DEF Advance
    <3>6. e \in Decoding /\ e.out = OutAt(n, k) /\ Midway(e, p, n, s, k)
      <4>1. PICK y : y = x
        OBVIOUS
      <4>2. d \in Decoding /\ p \in Nat /\ y = SealedSet(n, s)[k] /\ Midway(d, p, n, s, k - 1)
        BY <1>1, <3>2, <3>4, <4>1
      <4>3. /\ Push(d, p + k - 1, y) \in Decoding /\ Push(d, p + k - 1, y).out = OutAt(n, k)
            /\ Midway(Push(d, p + k - 1, y), p, n, s, k)
        BY ONLY <4>2, n \in Names, s \in Given, k \in 2..SetSize(n), MidwayGoesOn
      <4>. QED
        BY <3>5, <4>1, <4>3
    <3>7. Within(v, e, i + 1, p, n, s)
      BY <3>1, <3>2, <3>6 DEF Within
    <3>. QED
      BY <3>6, <3>7 DEF Scanned
  <2>5. CASE x.tag # "end" /\ ~Starts(x) /\ d.left = 0
    <3>1. PICK f : f = WithOut(d, "none")
      OBVIOUS
    <3>2. e = f
      BY <1>5, <2>1, <2>5, <3>1 DEF Advance, Push, Starts, WithOut
    <3>3. f \in Decoding /\ f.out = "none" /\ f.left = d.left
      BY <1>1, <3>1, OutOf DEF SameBut
    <3>4. Outside(v, i + 1)
      <4>1. SUFFICES ASSUME NEW q \in DOMAIN v, NEW m \in Names, NEW r \in Given, Held(v, q, m, r),
                            i + 1 \in Span(q, m)
                     PROVE  FALSE
        BY DEF Outside
      <4>2. i + 1 # q
        BY <2>5, <4>1, HeldSlots
      <4>3. i \in Span(q, m)
        <5>1. q \in Nat /\ SetSize(m) \in Nat
          BY <4>1, HeldSlots
        <5>. QED
          BY <4>1, <4>2, <5>1 DEF Span
      <4>4. PICK p \in DOMAIN v, n \in Names, s \in Given : Within(v, d, i, p, n, s)
        BY <4>1, <4>3 DEF Scanned, Between, Outside
      <4>5. p = q
        BY <4>1, <4>3, <4>4, HeldApart DEF Within
      <4>6. n = m
        BY <4>1, <4>4, <4>5, HeldSame DEF Within
      <4>. QED
        BY <2>5, <4>1, <4>4, <4>5, <4>6, WithinNext
    <3>5. Between(v, f, i + 1)
      BY <1>1, <2>5, <3>3, <3>4 DEF Between
    <3>. QED
      BY <3>2, <3>3, <3>5 DEF Scanned
  <2>. QED
    BY <2>2, <2>3, <2>4, <2>5
<1>. QED
  BY <1>4, <1>5

LEMMA ScanFormed ==
    ASSUME NEW v, IsView(v), \A j \in DOMAIN v : v[j] \in Slot, Formed(v), EndsBehind(v),
           NEW t, t = Trace(FreshDecoder, v)
    PROVE  /\ DOMAIN t = 1..(Len(v) + 1) /\ Len(t) = Len(v) + 1
           /\ \A i \in 0..Len(v) : Scanned(v, t[i + 1], i)
<1>. DEFINE n == Len(v)
            T == {m \in 0..n : Scanned(v, t[m + 1], m)}
<1>1. n \in Nat /\ DOMAIN v = 1..n
  BY DEF IsView
<1>2. /\ IsSeq(t) /\ Len(t) = n + 1 /\ t[1] = FreshDecoder
      /\ \A i \in 1..n : t[i + 1] = Advance(t[i], i, v[i])
  BY <1>1, TraceScans DEF Scans
<1>3. 0 \in T
  <2>1. Outside(v, 0)
    <3>1. ASSUME NEW p \in DOMAIN v, NEW m \in Names PROVE 0 \notin Span(p, m)
      BY <1>1, Parameters DEF Span
    <3>. QED
      BY <3>1 DEF Outside
  <2>2. Scanned(v, FreshDecoder, 0)
    BY <2>1, FreshOf DEF Scanned, Between
  <2>. QED
    BY <1>1, <1>2, <2>2
<1>4. ASSUME NEW m \in 1..n, m - 1 \in T PROVE m \in T
  <2>1. PICK i \in Nat : i = m - 1 /\ i + 1 = m /\ i + 1 \in DOMAIN v
    BY <1>1
  <2>2. Scanned(v, t[i + 1], i)
    BY <1>4, <2>1
  <2>3. t[m + 1] = Advance(t[i + 1], i + 1, v[i + 1])
    BY <1>2, <2>1
  <2>4. Scanned(v, t[m + 1], i + 1)
    BY <2>1, <2>2, <2>3, ScanAdvances
  <2>. QED
    BY <1>1, <2>1, <2>4
<1>5. DOMAIN t = 1..(n + 1)
  BY <1>1, <1>2 DEF IsSeq
<1>. HIDE DEF T, n
<1>6. \A m \in 0..n : m \in T
  BY <1>1, <1>3, <1>4, Numbers!IntervalInduction
<1>. QED
  BY <1>2, <1>5, <1>6 DEF T, n

(* What a scan shows: each set of the view, and nothing else.              *)
FoundIn(v, d, p, n, s) ==
    /\ Held(v, p, n, s) /\ d.out = "entry" /\ d.left = 0
    /\ IsNamed(d, n) /\ d.locs = Run(p, n) /\ d.stream = s
Behind(p, n) == p + SetSize(n)
Legible(v) == IsView(v) /\ (\A j \in DOMAIN v : v[j] \in Slot) /\ Formed(v) /\ EndsBehind(v)

LEMMA NamedOnce ==
    ASSUME NEW n \in Names, NEW m \in Names, NameParts(n) = NameParts(m)
    PROVE  n = m
<1>1. 1 \in 1..NameEntries(n) /\ 1 \in 1..NameEntries(m)
  BY Parameters
<1>2. NameParts(n)[1] = NamePart(n, 1) /\ NameParts(m)[1] = NamePart(m, 1)
  BY <1>1 DEF NameParts
<1>3. NamePart(n, 1) = <<n, 1>> /\ NamePart(m, 1) = <<m, 1>>
  BY Parameters DEF NamePart
<1>. QED
  BY <1>2, <1>3

LEMMA WithinFound ==
    ASSUME NEW v, IsView(v), NEW d \in Decoding, NEW p \in DOMAIN v, NEW n \in Names, NEW s \in Given,
           NEW i \in Nat, Within(v, d, i, p, n, s), d.out = "entry"
    PROVE  FoundIn(v, d, p, n, s) /\ i + 1 = Behind(p, n)
<1>1. /\ SetSize(n) \in Nat \ {0, 1, 2} /\ NameEntries(n) = SetSize(n) - 2 /\ NameEntries(n) \in Nat
      /\ p \in Nat
  BY Parameters, NameRoom, HeldSlots DEF Within
<1>2. i - p + 1 = SetSize(n) /\ i + 1 = Behind(p, n)
  <2>1. i - p + 1 = SetSize(n)
    BY DEF Within, OutAt
  <2>. QED
    BY <1>1, <2>1 DEF Behind
<1>3. Midway(d, p, n, s, SetSize(n)) /\ Held(v, p, n, s)
  BY <1>2 DEF Within
<1>4. d.left = 0 /\ d.len = Units[n] /\ d.stream = s
  BY <1>1, <1>3 DEF Midway
<1>5. d.name = NameParts(n)
  <2>1. PICK m \in Seq(Parts) : m = d.name
    BY DEF Decoding
  <2>2. Len(m) = NameEntries(n) /\ \A j \in 1..NameEntries(n) : m[j] = NamePart(n, j)
    BY <1>1, <1>3, <2>1 DEF Midway
  <2>3. m = [j \in 1..NameEntries(n) |-> NamePart(n, j)]
    BY <1>1, <2>2
  <2>. QED
    BY <2>1, <2>3 DEF NameParts
<1>6. d.locs = Run(p, n)
  <2>1. PICK l \in Seq(Nat) : l = d.locs
    BY DEF Decoding
  <2>2. Len(l) = SetSize(n) /\ \A j \in 1..SetSize(n) : l[j] = p + j - 1
    BY <1>3, <2>1 DEF Midway
  <2>3. l = [j \in 1..SetSize(n) |-> p + j - 1]
    BY <1>1, <2>2
  <2>. QED
    BY <2>1, <2>3 DEF Run
<1>. QED
  BY <1>2, <1>3, <1>4, <1>5, <1>6 DEF FoundIn, IsNamed

(* One step of the scan per set.                                           *)
LEMMA ScanFinds ==
    ASSUME NEW v, Legible(v), NEW t, t = Trace(FreshDecoder, v)
    PROVE  /\ \A i \in DOMAIN t : /\ t[i].out # "corrupt" /\ t[i].out # "absent"
                                  /\ t[i].out = "entry" =>
                                       \E p \in DOMAIN v, n \in Names, s \in Given :
                                           FoundIn(v, t[i], p, n, s) /\ i = Behind(p, n)
           /\ \A p \in DOMAIN v, n \in Names, s \in Given :
                  Held(v, p, n, s) => /\ Behind(p, n) \in DOMAIN t
                                      /\ FoundIn(v, t[Behind(p, n)], p, n, s)
           /\ t[Len(t)] \in Decoding /\ t[Len(t)].left = 0
<1>1. /\ DOMAIN t = 1..(Len(v) + 1) /\ Len(t) = Len(v) + 1
      /\ \A i \in 0..Len(v) : Scanned(v, t[i + 1], i)
  BY ScanFormed DEF Legible
<1>2. Len(v) \in Nat /\ IsView(v) /\ DOMAIN v = 1..Len(v)
  BY DEF Legible, IsView
<1>3. ASSUME NEW i \in DOMAIN t
      PROVE  /\ t[i].out # "corrupt" /\ t[i].out # "absent"
             /\ t[i].out = "entry" =>
                  \E p \in DOMAIN v, n \in Names, s \in Given : FoundIn(v, t[i], p, n, s) /\ i = Behind(p, n)
  <2>1. PICK j \in Nat : j = i - 1 /\ j \in 0..Len(v) /\ i = j + 1
    BY <1>1, <1>2
  <2>2. Scanned(v, t[i], j)
    BY <1>1, <2>1
  <2>3. CASE Between(v, t[i], j)
    BY <2>3 DEF Between
  <2>4. CASE \E p \in DOMAIN v, n \in Names, s \in Given : Within(v, t[i], j, p, n, s)
    <3>1. PICK p \in DOMAIN v, n \in Names, s \in Given : Within(v, t[i], j, p, n, s)
      BY <2>4
    <3>2. t[i].out \in {"entry", "none"}
      BY <1>2, <3>1, WithinNext
    <3>3. t[i].out = "entry" => FoundIn(v, t[i], p, n, s) /\ j + 1 = Behind(p, n)
      <4>1. PICK d : d = t[i]
        OBVIOUS
      <4>2. d \in Decoding /\ Within(v, d, j, p, n, s)
        BY <2>2, <3>1, <4>1 DEF Scanned
      <4>3. d.out = "entry" => FoundIn(v, d, p, n, s) /\ j + 1 = Behind(p, n)
        BY <1>2, <4>2, WithinFound
      <4>. QED
        BY <4>1, <4>3
    <3>. QED
      BY <2>1, <3>2, <3>3
  <2>. QED
    BY <2>2, <2>3, <2>4 DEF Scanned
<1>4. ASSUME NEW p \in DOMAIN v, NEW n \in Names, NEW s \in Given, Held(v, p, n, s)
      PROVE  Behind(p, n) \in DOMAIN t /\ FoundIn(v, t[Behind(p, n)], p, n, s)
  <2>1. SetSize(n) \in Nat \ {0, 1, 2} /\ p \in Nat \ {0} /\ p + SetSize(n) - 1 \in DOMAIN v
    BY <1>2, <1>4, HeldSlots
  <2>2. PICK j \in Nat : /\ j - p + 1 = SetSize(n) /\ j + 1 = Behind(p, n) /\ j \in 0..Len(v) /\ j \in Span(p, n)
                         /\ j + 1 \in 1..(Len(v) + 1)
    <3>1. PICK z \in Nat \ {0, 1, 2}, x \in Nat \ {0}, l \in Nat : z = SetSize(n) /\ x = p /\ l = Len(v)
      BY <1>2, <2>1
    <3>2. x + z - 1 \in 1..l
      BY <1>2, <2>1, <3>1
    <3>3. PICK j \in Nat : j = x + z - 1
      BY <3>1
    <3>4. j - x + 1 = z /\ j + 1 = x + z /\ j \in 0..l /\ j \in x..(x + z - 1) /\ j + 1 \in 1..(l + 1)
      BY <3>2, <3>3
    <3>. QED
      BY <3>1, <3>4 DEF Span, Behind
  <2>3. PICK d : d = t[j + 1]
    OBVIOUS
  <2>4. Scanned(v, d, j)
    BY <1>1, <2>2, <2>3
  <2>5. ~Between(v, d, j)
    BY <1>4, <2>2 DEF Between, Outside
  <2>6. PICK q \in DOMAIN v, m \in Names, r \in Given : Within(v, d, j, q, m, r)
    BY <2>4, <2>5 DEF Scanned
  <2>7. q = p
    <3>1. j \in Span(p, n) /\ j \in Span(q, m) /\ Held(v, q, m, r)
      BY <2>2, <2>6 DEF Within
    <3>. QED
      BY <1>2, <1>4, <3>1, HeldApart
  <2>8. m = n /\ r = s
    BY <1>2, <1>4, <2>6, <2>7, HeldSame DEF Within
  <2>9. d.out = "entry"
    BY <2>2, <2>6, <2>7, <2>8 DEF Within, OutAt
  <2>10. FoundIn(v, d, p, n, s)
    BY <1>2, <2>4, <2>6, <2>7, <2>8, <2>9, WithinFound DEF Scanned
  <2>11. Behind(p, n) \in DOMAIN t
    BY <1>1, <2>2
  <2>. QED
    BY <2>2, <2>3, <2>10, <2>11
<1>5. t[Len(t)] \in Decoding /\ t[Len(t)].left = 0
  <2>2. Len(v) \in 0..Len(v) /\ Len(v) + 1 \notin DOMAIN v
    BY <1>2
  <2>3. PICK e : e = t[Len(t)]
    OBVIOUS
  <2>4. Scanned(v, e, Len(v))
    BY <1>1, <2>2, <2>3
  <2>5. ASSUME NEW p \in DOMAIN v, NEW n \in Names, NEW s \in Given, Within(v, e, Len(v), p, n, s)
        PROVE  e.left = 0
    <3>1. Len(v) + 1 \notin Span(p, n)
      BY <1>2, <2>2, <2>5, HeldSlots DEF Within
    <3>. QED
      BY <1>2, <2>5, <3>1, WithinNext
  <2>. QED
    BY <2>3, <2>4, <2>5 DEF Scanned, Between
<1>. QED
  BY <1>3, <1>4, <1>5

LEMMA ShownIs ==
    ASSUME NEW v, Legible(v)
    PROVE  /\ \A d \in Shown(v) : \E p \in DOMAIN v, n \in Names, s \in Given : FoundIn(v, d, p, n, s)
           /\ \A p \in DOMAIN v, n \in Names, s \in Given :
                  Held(v, p, n, s) => \E d \in Shown(v) : FoundIn(v, d, p, n, s)
           /\ \A d, e \in Shown(v), p \in DOMAIN v, n, m \in Names, s, r \in Given :
                  FoundIn(v, d, p, n, s) /\ FoundIn(v, e, p, m, r) => d = e
           /\ Readable(v)
<1>1. PICK t : t = Trace(FreshDecoder, v)
  OBVIOUS
<1>2. /\ \A i \in DOMAIN t : /\ t[i].out # "corrupt"
                             /\ t[i].out = "entry" =>
                                  \E p \in DOMAIN v, n \in Names, s \in Given :
                                      FoundIn(v, t[i], p, n, s) /\ i = Behind(p, n)
      /\ \A p \in DOMAIN v, n \in Names, s \in Given :
             Held(v, p, n, s) => Behind(p, n) \in DOMAIN t /\ FoundIn(v, t[Behind(p, n)], p, n, s)
  BY <1>1, ScanFinds
<1>3. Shown(v) = {d \in {t[i] : i \in DOMAIN t} : d.out = "entry"} /\ Range(t) = {t[i] : i \in DOMAIN t}
  BY <1>1, RangeIs DEF Shown
<1>4. ASSUME NEW d \in Shown(v)
      PROVE  \E p \in DOMAIN v, n \in Names, s \in Given : FoundIn(v, d, p, n, s) /\ d = t[Behind(p, n)]
  <2>1. PICK i \in DOMAIN t : d = t[i] /\ t[i].out = "entry"
    BY <1>3
  <2>. QED
    BY <1>2, <2>1
<1>5. ASSUME NEW p \in DOMAIN v, NEW n \in Names, NEW s \in Given, Held(v, p, n, s)
      PROVE  \E d \in Shown(v) : FoundIn(v, d, p, n, s)
  <2>1. Behind(p, n) \in DOMAIN t /\ FoundIn(v, t[Behind(p, n)], p, n, s)
    BY <1>2, <1>5
  <2>2. t[Behind(p, n)] \in Shown(v)
    BY <1>3, <2>1 DEF FoundIn
  <2>. QED
    BY <2>1, <2>2
<1>6. ASSUME NEW d \in Shown(v), NEW p \in DOMAIN v, NEW n \in Names, NEW s \in Given, FoundIn(v, d, p, n, s)
      PROVE  d = t[Behind(p, n)]
  <2>1. PICK q \in DOMAIN v, m \in Names, r \in Given : FoundIn(v, d, q, m, r) /\ d = t[Behind(q, m)]
    BY <1>4
  <2>2. Run(q, m) = Run(p, n) /\ NameParts(m) = NameParts(n)
    BY <1>6, <2>1 DEF FoundIn, IsNamed
  <2>3. m = n
    BY <2>2, NamedOnce
  <2>4. q = p
    <3>1. 1 \in 1..SetSize(n) /\ p + 1 - 1 = p /\ q + 1 - 1 = q
      BY Parameters DEF Legible, IsView
    <3>2. Run(p, n)[1] = p /\ Run(q, m)[1] = q
      BY <2>3, <3>1 DEF Run
    <3>. QED
      BY <2>2, <3>2
  <2>. QED
    BY <2>1, <2>3, <2>4
<1>7. ASSUME NEW d \in Shown(v), NEW e \in Shown(v), NEW p \in DOMAIN v, NEW n \in Names, NEW m \in Names,
             NEW s \in Given, NEW r \in Given, FoundIn(v, d, p, n, s), FoundIn(v, e, p, m, r)
      PROVE  d = e
  <2>1. n = m
    BY <1>7, HeldSame DEF FoundIn, Legible
  <2>. QED
    BY <1>6, <1>7, <2>1
<1>8. Readable(v)
  BY <1>1, <1>2, <1>3 DEF Readable
<1>. QED
  BY <1>4, <1>5, <1>7, <1>8

(* What find_child finds, with a fresh decoder.                            *)
FoundOrAbsent(v, d, n) ==
    /\ d.left = 0 /\ d.out \in {"entry", "absent"}
    /\ d.out = "entry" => \E p \in DOMAIN v, s \in Given : FoundIn(v, d, p, n, s)
    /\ d.out = "absent" => Absent(v, n)

LEMMA ScanForIs ==
    ASSUME NEW v, Legible(v), NEW n \in Names, NEW d, d = ScanFor(FreshDecoder, v, n)
    PROVE  FoundOrAbsent(v, d, n)
<1>1. PICK t : t = Trace(FreshDecoder, v)
  OBVIOUS
<1>2. /\ \A i \in DOMAIN t : /\ t[i].out # "corrupt" /\ t[i].out # "absent"
                             /\ t[i].out = "entry" =>
                                  \E p \in DOMAIN v, m \in Names, s \in Given :
                                      FoundIn(v, t[i], p, m, s) /\ i = Behind(p, m)
      /\ \A p \in DOMAIN v, m \in Names, s \in Given :
             Held(v, p, m, s) => Behind(p, m) \in DOMAIN t /\ FoundIn(v, t[Behind(p, m)], p, m, s)
      /\ t[Len(t)] \in Decoding /\ t[Len(t)].left = 0
  BY <1>1, ScanFinds
<1>. DEFINE hits == {i \in DOMAIN t : t[i].out = "entry" /\ IsNamed(t[i], n)}
            last == t[Len(t)]
            first == t[Least(hits)]
<1>3. d = IF hits # {} THEN first ELSE [last EXCEPT !.out = IF @ = "corrupt" THEN @ ELSE "absent"]
  BY <1>1 DEF ScanFor
<1>4. IsView(v) /\ DOMAIN t = 1..(Len(v) + 1) /\ Len(t) = Len(v) + 1
  BY <1>1, ScanFormed DEF Legible
<1>5. CASE hits # {}
  <2>1. hits \subseteq Nat
    BY <1>4 DEF IsView
  <2>2. Least(hits) \in hits
    BY <1>5, <2>1, LeastIn
  <2>3. PICK i \in DOMAIN t : t[i] = first /\ t[i].out = "entry" /\ IsNamed(t[i], n)
    BY <2>2
  <2>4. PICK p \in DOMAIN v, m \in Names, s \in Given : FoundIn(v, t[i], p, m, s)
    BY <1>2, <2>3
  <2>5. NameParts(m) = NameParts(n)
    BY <2>3, <2>4 DEF FoundIn, IsNamed
  <2>6. m = n
    BY <2>5, NamedOnce
  <2>7. d = t[i]
    BY <1>3, <1>5, <2>3
  <2>8. d.left = 0 /\ d.out = "entry" /\ FoundIn(v, d, p, n, s)
    BY <2>4, <2>6, <2>7 DEF FoundIn
  <2>. QED
    BY <2>8 DEF FoundOrAbsent
<1>6. CASE hits = {}
  <2>1. Len(t) \in DOMAIN t
    BY <1>4 DEF IsView
  <2>2. last.out # "corrupt" /\ last \in Decoding /\ last.left = 0
    BY <1>2, <2>1
  <2>. HIDE DEF last, first, hits
  <2>3. d = [last EXCEPT !.out = IF @ = "corrupt" THEN @ ELSE "absent"]
    BY <1>3, <1>6
  <2>4. d = WithOut(last, "absent")
    BY <2>2, <2>3 DEF WithOut
  <2>5. d.out = "absent" /\ SameBut(d, last)
    BY <2>2, <2>4, OutOf
  <2>6. d.left = 0
    BY <2>2, <2>5 DEF SameBut
  <2>7. ASSUME NEW p \in DOMAIN v, NEW s \in Given, Held(v, p, n, s)
        PROVE  FALSE
    <3>1. Behind(p, n) \in DOMAIN t /\ FoundIn(v, t[Behind(p, n)], p, n, s)
      BY <1>2, <2>7
    <3>2. Behind(p, n) \in hits
      BY <3>1 DEF FoundIn, hits
    <3>. QED
      BY <1>6, <3>2
  <2>8. Absent(v, n)
    BY <2>7 DEF Absent
  <2>. QED
    BY <2>5, <2>6, <2>8 DEF FoundOrAbsent
<1>. QED
  BY <1>5, <1>6

-----------------------------------------------------------------------------
(* The directory as it stands when the operation has not begun or is over, *)
(* slot by slot.                                                           *)

Visible == IF Kind = "root" THEN Settled ELSE SubSeq(Settled, 1, length * SlotsPerCluster)

Place(l, i) == CHOOSE k \in DOMAIN l : l[k] = i
Reach(sl, len) == IF Kind = "root" THEN Len(sl) ELSE len * SlotsPerCluster
Sight(sl, o, i) ==
    CASE o.pc \in {"write", "seal"} /\ i \in Range(o.locs) -> GoneSlot
      [] o.pc = "retire" /\ o.i = 1 /\ i \in Range(o.locs) -> GoneSlot
      [] o.pc \in {"rename", "stream", "reseal"} /\ i \in Range(o.old) ->
            o.before[Place(o.old, i)]
      [] OTHER -> sl[i]
View(sl, len, o) ==
    IF Kind = "root" THEN [i \in DOMAIN sl |-> Sight(sl, o, i)]
    ELSE SubSeq([i \in DOMAIN sl |-> Sight(sl, o, i)], 1, len * SlotsPerCluster)

LEMMA VisibleIs ==
    Visible = View(slots, length, op) /\ Visible' = View(slots', length', op')
BY DEF Visible, View, Settled, Sight, Place, At

LEMMA ViewIs ==
    ASSUME NEW sl \in Seq(Slot), NEW len \in Nat, Kind # "root" => len * SlotsPerCluster <= Len(sl),
           NEW o, NEW v, v = View(sl, len, o)
    PROVE  /\ IsView(v) /\ Len(v) = Reach(sl, len) /\ Len(v) \in Nat /\ Len(v) <= Len(sl)
           /\ \A i \in DOMAIN v : i \in 1..Len(v) /\ i \in DOMAIN sl /\ v[i] = Sight(sl, o, i)
<1>. DEFINE f == [i \in DOMAIN sl |-> Sight(sl, o, i)]
<1>1. Len(sl) \in Nat /\ DOMAIN sl = 1..Len(sl)
  OBVIOUS
<1>2. DOMAIN f = 1..Len(sl) /\ Len(f) = Len(sl) /\ \A i \in 1..Len(sl) : f[i] = Sight(sl, o, i)
  BY <1>1
<1>3. v = IF Kind = "root" THEN f ELSE SubSeq(f, 1, len * SlotsPerCluster)
  BY DEF View
<1>. HIDE DEF f
<1>4. CASE Kind = "root"
  BY <1>1, <1>2, <1>3, <1>4 DEF IsView, Reach
<1>5. CASE Kind # "root"
  <2>1. PICK m \in Nat : m = len * SlotsPerCluster
    BY Parameters
  <2>2. v = SubSeq(f, 1, m) /\ m <= Len(sl)
    BY <1>3, <1>5, <2>1
  <2>3. v = [i \in 1..m |-> f[i]]
    BY <2>2 DEF SubSeq
  <2>4. Len(v) = m /\ DOMAIN v = 1..m /\ \A i \in 1..m : v[i] = f[i]
    BY <2>3
  <2>. QED
    BY <1>1, <1>2, <1>5, <2>1, <2>2, <2>4 DEF IsView, Reach
<1>. QED
  BY <1>4, <1>5

(* A run of slots.                                                         *)
LEMMA RunIs ==
    ASSUME NEW p \in Nat, NEW n \in Names
    PROVE  /\ Range(Run(p, n)) = Span(p, n) /\ DOMAIN Run(p, n) = 1..SetSize(n) /\ Run(p, n) # <<>>
           /\ Len(Run(p, n)) = SetSize(n) /\ SetSize(n) \in Nat \ {0, 1, 2}
           /\ Run(p, n)[1] = p /\ Run(p, n)[2] = p + 1
           /\ \A k \in 1..SetSize(n) : Run(p, n)[k] = p + k - 1 /\ p + k - 1 \in Span(p, n)
           /\ \A i \in Span(p, n) :
                 /\ i - p + 1 \in 1..SetSize(n) /\ Run(p, n)[i - p + 1] = i
                 /\ Place(Run(p, n), i) = i - p + 1
<1>1. PICK z \in Nat \ {0, 1, 2} : z = SetSize(n)
  BY Parameters
<1>2. Run(p, n) = [k \in 1..z |-> p + k - 1] /\ Span(p, n) = p..(p + z - 1)
  BY <1>1 DEF Run, Span
<1>4. \A k \in 1..z : p + k - 1 \in p..(p + z - 1)
  OBVIOUS
<1>5. ASSUME NEW i \in p..(p + z - 1)
      PROVE  i - p + 1 \in 1..z /\ p + (i - p + 1) - 1 = i /\ \A k \in 1..z : p + k - 1 = i => k = i - p + 1
  OBVIOUS
<1>6. PICK r : r = Run(p, n)
  OBVIOUS
<1>7. DOMAIN r = 1..z /\ Len(r) = z /\ (\A k \in 1..z : r[k] = p + k - 1) /\ 1 \in 1..z /\ 2 \in 1..z
  BY <1>2, <1>6
<1>3. Range(r) = {r[k] : k \in DOMAIN r}
  BY RangeIs
<1>8. Range(r) = p..(p + z - 1)
  <2>1. \A i \in Range(r) : i \in p..(p + z - 1)
    BY <1>3, <1>4, <1>7
  <2>2. \A i \in p..(p + z - 1) : i \in Range(r)
    <3>. SUFFICES ASSUME NEW i \in p..(p + z - 1) PROVE i \in Range(r)
      OBVIOUS
    <3>1. i - p + 1 \in DOMAIN r /\ r[i - p + 1] = i
      BY <1>5, <1>7
    <3>. QED
      BY <1>3, <3>1
  <2>. QED
    BY <2>1, <2>2
<1>9. ASSUME NEW i \in p..(p + z - 1)
      PROVE  Place(r, i) = i - p + 1
  <2>1. \A k \in DOMAIN r : r[k] = i <=> k = i - p + 1
    BY <1>5, <1>7
  <2>2. i - p + 1 \in DOMAIN r
    BY <1>5, <1>7
  <2>. QED
    BY <2>1, <2>2 DEF Place
<1>10. r[1] = p /\ r[2] = p + 1
  BY <1>7
<1>11. r # <<>>
  <2>1. Len(<<>>) = 0
    OBVIOUS
  <2>. QED
    BY <1>7, <2>1
<1>. QED
  BY <1>1, <1>2, <1>4, <1>5, <1>6, <1>7, <1>8, <1>9, <1>10, <1>11

(* What an operation makes of what is in the slots.                        *)
LEMMA SightPlain ==
    ASSUME NEW sl, NEW o, o.pc \notin {"write", "seal", "rename", "stream", "reseal"},
           o.pc = "retire" => o.i # 1 \/ o.locs = <<>>, NEW i
    PROVE  Sight(sl, o, i) = sl[i]
<1>1. Range(<<>>) = {}
  BY RangeIs
<1>. QED
  BY <1>1 DEF Sight

LEMMA SightPlacing ==
    ASSUME NEW sl, NEW o, o.pc \in {"write", "seal"} \/ (o.pc = "retire" /\ o.i = 1),
           NEW q \in Nat, NEW m \in Names, o.locs = Run(q, m), NEW i
    PROVE  /\ i \in Span(q, m) => Sight(sl, o, i) = GoneSlot
           /\ i \notin Span(q, m) => Sight(sl, o, i) = sl[i]
<1>1. Range(o.locs) = Span(q, m)
  <2>1. Range(Run(q, m)) = Span(q, m)
    BY RunIs
  <2>. QED
    BY <2>1
<1>. QED
  BY <1>1 DEF Sight

LEMMA SightEditing ==
    ASSUME NEW sl, NEW o, o.pc \in {"rename", "stream", "reseal"},
           NEW p \in Nat, NEW n \in Names, o.old = Run(p, n), NEW i
    PROVE  /\ i \in Span(p, n) => Sight(sl, o, i) = o.before[i - p + 1]
           /\ i \notin Span(p, n) => Sight(sl, o, i) = sl[i]
<1>1. Range(o.old) = Span(p, n)
  BY RunIs
<1>2. i \in Span(p, n) => Place(o.old, i) = i - p + 1
  BY RunIs
<1>. QED
  BY <1>1, <1>2 DEF Sight

-----------------------------------------------------------------------------
(* The invariant of a listing.                                             *)

(* What the directory holds at first is as this code writes it.            *)
InitialFormed ==
    /\ \A p \in DOMAIN InitialSlots : Starts(InitialSlots[p]) =>
           \E n \in Names, s \in Streams : Held(InitialSlots, p, n, s)
    /\ Once(InitialSlots)
(* Lookups read a contiguous directory whole; no lookup leaves a set half  *)
(* read in a Workspace that others use; no set is left half written.       *)
LookupsWhole == Kind = "contiguous" => Len(InitialSlots) = SlotsPerCluster
LookupsFinished == ~SharedWorkspace \/ "io" \notin Faults \/ "lookup" \notin FaultPoints
SetsFinished == Faults = {} \/ FaultPoints \cap {"write", "seal", "rename", "reseal"} = {}
(* rename is given names that exist, are not open and do not become        *)
(* shorter, and names that do not exist.                                   *)
RenamesFit ==
    /\ "renameOpen" \notin Ops /\ "renameOnto" \notin Ops
    /\ \A r \in Renames : SetSize(r[1]) <= SetSize(r[2])

(* Where an operation stands: it has yet to write a set, has written it,   *)
(* edits one, or has begun to retire one.                                  *)
Writing == op.pc \in {"search", "link", "pad", "length", "sealLength", "write", "seal"}
Placing == op.pc \in {"write", "seal"} \/ (At("retire") /\ op.i = 1 /\ op.kind = "rename")
Editing == op.pc \in {"restream", "rename", "stream", "reseal"}
Retiring == At("retire") /\ op.i # 1
Pending == Writing \/ (op.kind = "rename" /\ ~Retiring)

HandlesHeld ==
    \A n \in Names : handle[n] # <<>> =>
        \E p \in DOMAIN Visible, s \in Given : Held(Visible, p, n, s) /\ handle[n] = Run(p, n)

(* The set that the operation writes.                                      *)
Written(q) == \A k \in 1..SetSize(op.name) : slots[q + k - 1] = SealedSet(op.name, op.stream)[k]
Room ==
    \E q \in DOMAIN Visible : /\ op.locs = Run(q, op.name) /\ q + SetSize(op.name) - 1 <= Len(Visible)
                              /\ At("retire") => Written(q)
NewForm ==
    /\ Writing \/ Placing => op.stream \in Given
    /\ Writing /\ op.kind = "create" => op.stream = Empty /\ op.old = <<>>
    /\ Pending => Absent(Visible, op.name)
    /\ Placing => Room
    /\ At("retire") /\ op.kind = "remove" => op.locs = <<>>

(* The set that the operation began with, as it was then,                  *)
OldIs(p, n, s) ==
    /\ Held(Visible, p, n, s) /\ op.old = Run(p, n) /\ op.before = SealedSet(n, s)
    /\ op.kind = "rename" => <<n, op.name>> \in Renames
    /\ op.kind # "rename" => n = op.name
    /\ op.kind = "rename" /\ ~Editing => op.stream = Relocated(s)

(* and slot by slot as it is.                                              *)
Done(k) == k # 1 /\ (At("reseal") \/ (At("rename") /\ k <= op.i + 1))
Goal(n, s) == IF op.kind = "rename" THEN SealedSet(op.name, s) ELSE SealedSet(n, op.stream)
Edited(n, s, k) == IF Done(k) THEN Goal(n, s)[k] ELSE SealedSet(n, s)[k]
EditIs(p, n, s) ==
    /\ SetSize(op.name) = SetSize(n)
    /\ op.kind \in {"create", "update", "rename"}
    /\ op.pc \in {"restream", "rename"} => op.kind = "rename"
    /\ op.kind # "rename" => op.stream \in Given
    /\ op.kind = "create" => op.stream = Empty
    /\ \A k \in 1..SetSize(n) : slots[p + k - 1] = Edited(n, s, k)
OldForm ==
    op.old # <<>> /\ ~Retiring =>
        \E p \in DOMAIN Visible, n \in Names, s \in Given : OldIs(p, n, s) /\ (Editing => EditIs(p, n, s))

(* What is left of a set that is being retired is in none, and rename has  *)
(* the new one.                                                            *)
RetireForm ==
    Retiring =>
        /\ \A k \in DOMAIN op.old : k >= op.i => op.old[k] \in DOMAIN Visible /\ Loose(Visible, op.old[k])
        /\ op.kind = "rename" =>
             \E q \in DOMAIN Visible, s \in Given :
                 s = op.before[2].stream /\ Held(Visible, q, op.name, Relocated(s))

(* Only a chain grows.                                                     *)
OneCluster ==
    Kind = "contiguous" => length = 1 /\ op.pc \notin {"link", "pad", "length", "sealLength"}
SetsHeld == Formed(Visible) /\ Once(Visible) /\ HandlesHeld
FormInv == OneCluster /\ SetsHeld /\ NewForm /\ OldForm /\ RetireForm

-----------------------------------------------------------------------------
(* Steps that leave the sets of the view alone.                            *)

LEMMA Emptied ==
    ASSUME NEW v, IsView(v), Formed(v), NEW w, IsView(w),
           \A i \in DOMAIN w : (i \in DOMAIN v /\ w[i] = v[i]) \/ Empties(w[i]),
           \A i \in DOMAIN v : (i \in DOMAIN w /\ w[i] = v[i]) \/ Empties(v[i])
    PROVE  Same(v, w) /\ Formed(w) /\ (Once(v) => Once(w))
<1>1. \A i \in DOMAIN v : (i \in DOMAIN w /\ w[i] = v[i]) \/ Loose(v, i)
  BY EmptyLoose
<1>. QED
  BY <1>1, Loosened

LEMMA Views ==
    ASSUME DeviceOK
    PROVE  /\ IsView(Visible) /\ Len(Visible) = Reach(slots, length) /\ Len(Visible) \in Nat
           /\ Len(Visible) <= Len(slots) /\ Len(slots) \in Nat /\ DOMAIN slots = 1..Len(slots)
           /\ \A i \in DOMAIN Visible : i \in 1..Len(Visible) /\ i \in DOMAIN slots /\ Visible[i] = Sight(slots, op, i)
<1>1. slots \in Seq(Slot) /\ length \in Nat /\ (Kind # "root" => length * SlotsPerCluster <= Len(slots))
  BY DEF DeviceOK
<1>. QED
  BY <1>1, ViewIs, VisibleIs

LEMMA ViewsNext ==
    ASSUME DeviceOK'
    PROVE  /\ IsView(Visible') /\ Len(Visible') = Reach(slots', length') /\ Len(Visible') \in Nat
           /\ Len(Visible') <= Len(slots') /\ Len(slots') \in Nat /\ DOMAIN slots' = 1..Len(slots')
           /\ \A i \in DOMAIN Visible' :
                  i \in 1..Len(Visible') /\ i \in DOMAIN slots' /\ Visible'[i] = Sight(slots', op', i)
<1>1. slots' \in Seq(Slot) /\ length' \in Nat /\ (Kind # "root" => length' * SlotsPerCluster <= Len(slots'))
  BY DEF DeviceOK
<1>. QED
  BY <1>1, ViewIs, VisibleIs

Forgets == \A n \in Names : handle'[n] = handle[n] \/ handle'[n] = <<>>

LEMMA SetsStay ==
    ASSUME SetsHeld, Same(Visible, Visible'), Formed(Visible'), Once(Visible'), Forgets
    PROVE  SetsHeld'
<1>1. ASSUME NEW n \in Names, handle'[n] # <<>>
      PROVE  \E p \in DOMAIN Visible', s \in Given : Held(Visible', p, n, s) /\ handle'[n] = Run(p, n)
  <2>1. PICK p \in DOMAIN Visible, s \in Given : Held(Visible, p, n, s) /\ handle[n] = Run(p, n)
    BY <1>1 DEF SetsHeld, HandlesHeld, Forgets
  <2>2. Held(Visible', p, n, s)
    BY <2>1 DEF Same
  <2>. QED
    BY <1>1, <2>1, <2>2, HeldIn DEF Forgets
<1>. QED
  BY <1>1 DEF SetsHeld, HandlesHeld

(* When slots that hold nothing are all that changes.                      *)
LEMMA Settling ==
    ASSUME DeviceOK, DeviceOK', SetsHeld, Forgets,
           \A i \in DOMAIN Visible' : \/ i \in DOMAIN Visible /\ Visible'[i] = Visible[i]
                                      \/ Empties(Visible'[i]),
           \A i \in DOMAIN Visible : \/ i \in DOMAIN Visible' /\ Visible'[i] = Visible[i]
                                     \/ Empties(Visible[i])
    PROVE  SetsHeld' /\ Same(Visible, Visible')
<1>1. IsView(Visible) /\ IsView(Visible') /\ Formed(Visible) /\ Once(Visible)
  BY Views, ViewsNext DEF SetsHeld
<1>2. Same(Visible, Visible') /\ Formed(Visible') /\ Once(Visible')
  BY <1>1, Emptied
<1>. QED
  BY <1>2, SetsStay

LEMMA AbsentStays ==
    ASSUME Same(Visible, Visible'), NEW n \in Names, Absent(Visible, n)
    PROVE  Absent(Visible', n)
BY HeldIn DEF Same, Absent

(* An operation that is over.                                              *)
LEMMA OverForms ==
    ASSUME op'.pc = "idle", op'.kind = "none", op'.old = <<>>
    PROVE  NewForm' /\ OldForm' /\ RetireForm'
BY DEF NewForm, OldForm, RetireForm, Writing, Placing, Pending, Retiring, At

-----------------------------------------------------------------------------
(* Lookups, and what begins with one.                                      *)

(* Between operations, every scan reads the whole directory.               *)
LEMMA IdleViews ==
    ASSUME TypeInv, EndsInv, SetInv, FormInv, At("idle")
    PROVE  /\ Legible(Visible) /\ LookupSlots = Visible /\ ListSlots = Visible
           /\ op.kind = "none" /\ op.old = <<>>
           /\ \A i \in DOMAIN Visible : i \in DOMAIN slots /\ Visible[i] = slots[i]
<1>1. DeviceOK /\ slots \in Seq(Slot) /\ EndMarkersLast /\ op.pc = "idle"
  BY DEF TypeInv, DeviceOK, EndsInv, At
<1>2. \A i : Sight(slots, op, i) = slots[i]
  BY <1>1, SightPlain
<1>3. /\ IsView(Visible) /\ Len(Visible) \in Nat /\ Len(Visible) <= Len(slots) /\ Len(slots) \in Nat
      /\ DOMAIN slots = 1..Len(slots)
      /\ \A i \in DOMAIN Visible : i \in 1..Len(Visible) /\ i \in DOMAIN slots /\ Visible[i] = slots[i]
  BY <1>1, <1>2, Views
<1>4. Settled = slots
  <2>1. Settled = [i \in DOMAIN slots |-> Sight(slots, op, i)]
    BY DEF Settled, Sight, Place, At
  <2>2. slots = [i \in DOMAIN slots |-> slots[i]]
    BY <1>1
  <2>. QED
    BY <1>2, <2>1, <2>2
<1>5. LookupSlots = Visible /\ ListSlots = Visible
  <2>1. Kind \in {"root", "chained", "contiguous"}
    BY DirectoryAssumption
  <2>2. Kind = "contiguous" => length = 1
    BY DEF FormInv, OneCluster
  <2>. QED
    BY <1>4, <2>1, <2>2 DEF LookupSlots, ListSlots, Visible, Clusters
<1>6. EndsBehind(Visible)
  BY <1>1, <1>3 DEF EndsBehind, EndMarkersLast, IsView
<1>7. \A i \in DOMAIN slots : slots[i] \in Slot
  BY <1>1
<1>8. Legible(Visible)
  BY <1>3, <1>6, <1>7 DEF Legible, FormInv, SetsHeld
<1>9. op.kind = "none" /\ op.old = <<>>
  BY DEF SetInv, OldWhole
<1>. QED
  BY <1>3, <1>5, <1>8, <1>9

LEMMA FreshFields ==
    /\ FreshDecoder.left = 0
    /\ WithOut(FreshDecoder, "corrupt").left = 0 /\ WithOut(FreshDecoder, "corrupt").out = "corrupt"
BY DEF FreshDecoder, WithOut

LEMMA LookupIs ==
    ASSUME TypeInv, EndsInv, SetInv, FormInv, At("idle"), NEW n \in Names, NEW d, d = Lookup(FreshDecoder, n)
    PROVE  /\ d.left = 0
           /\ d.out = "entry" => \E p \in DOMAIN Visible, s \in Given : FoundIn(Visible, d, p, n, s)
           /\ d.out = "absent" => Absent(Visible, n)
<1>1. Legible(Visible) /\ LookupSlots = Visible
  BY IdleViews
<1>2. CASE Reachable
  <2>1. d = ScanFor(FreshDecoder, Visible, n)
    BY <1>1, <1>2 DEF Lookup
  <2>. QED
    BY <1>1, <2>1, ScanForIs DEF FoundOrAbsent
<1>3. CASE ~Reachable
  <2>1. d = WithOut(FreshDecoder, "corrupt")
    BY <1>3 DEF Lookup, WithOut
  <2>. QED
    BY <2>1, FreshFields
<1>. QED
  BY <1>2, <1>3

LEMMA BeginIs ==
    ASSUME TypeInv, EndsInv, SetInv, FormInv, At("idle"), NEW n \in Names, NEW d, d = Begin(n)
    PROVE  /\ d.left = 0 /\ (Leave(d) => decoder' = FreshDecoder)
           /\ d.out = "entry" => \E p \in DOMAIN Visible, s \in Given : FoundIn(Visible, d, p, n, s)
           /\ d.out = "absent" => Absent(Visible, n)
<1>1. decoder = FreshDecoder
  BY DEF SetInv
<1>2. d = Lookup(FreshDecoder, n)
  BY <1>1 DEF Begin
<1>3. d.left = 0
  BY <1>2, LookupIs
<1>. QED
  BY <1>1, <1>2, <1>3, LookupIs DEF Leave, Left

(* So a Workspace that callers share is as good as a new one.              *)
LEMMA WorkspaceFresh ==
    ASSUME TypeInv, EndsInv, SetInv, FormInv, LookupsFinished, [Next]_vars
    PROVE  decoder' = FreshDecoder
<1>0. decoder = FreshDecoder
  BY DEF SetInv
<1>1. CASE Step
  BY <1>0, <1>1 DEF Step, Search, ReachEnd, LinkCluster, PadOldTail, RecordLength, SealLength, NoSpace, WriteSlot,
              SealNewSet, RetireSlot, RenameStream, RenameSlot, UpdateStream, Reseal, Panic, Restart
<1>2. CASE IoError \/ Crash \/ UNCHANGED vars
  BY <1>0, <1>2 DEF IoError, Crash, Restart, vars
<1>3. ASSUME NEW n \in Names,
             Open(n) \/ LookupFails(n) \/ CreateAbsent(n) \/ CreateExisting(n) \/ Remove(n)
      PROVE  decoder' = FreshDecoder
  <2>1. At("idle") /\ Leave(Begin(n))
    BY <1>3 DEF Open, LookupFails, CreateAbsent, CreateExisting, Remove
  <2>. QED
    BY <2>1, BeginIs
<1>4. ASSUME NEW n \in Names, Close(n) \/ \E s \in Streams : Update(n, s)
      PROVE  decoder' = FreshDecoder
  BY <1>0, <1>4 DEF Close, Update
<1>5. ASSUME NEW n \in Names, NEW k, LookupIoError(n, k)
      PROVE  decoder' = FreshDecoder
  BY <1>0, <1>5 DEF LookupIoError, LookupsFinished, Leave
<1>6. ASSUME NEW r \in Renames, Rename(r[1], r[2])
      PROVE  decoder' = FreshDecoder
  <2>1. At("idle") /\ Leave(Begin(r[1])) /\ r[1] \in Names
    BY <1>6, DirectoryAssumption DEF Rename
  <2>. QED
    BY <2>1, BeginIs
<1>. QED
  BY <1>1, <1>2, <1>3, <1>4, <1>5, <1>6 DEF Next

LEMMA FormLookups ==
    ASSUME TypeInv, EndsInv, SetInv, FormInv, NEW n \in Names,
           Open(n) \/ Close(n) \/ LookupFails(n) \/ \E k : LookupIoError(n, k)
    PROVE  FormInv' /\ Same(Visible, Visible')
<1>1. slots' = slots /\ length' = length /\ op' = op /\ At("idle")
  BY DEF Open, Close, LookupFails, LookupIoError, device
<1>2. Visible' = Visible
  BY <1>1, VisibleIs
<1>3. NewForm' /\ OldForm' /\ RetireForm'
  <2>1. op'.pc = "idle" /\ op'.kind = "none" /\ op'.old = <<>>
    BY <1>1, IdleViews DEF At
  <2>. QED
    BY <2>1, OverForms
<1>4. ASSUME NEW m \in Names, handle'[m] # <<>>
      PROVE  \E p \in DOMAIN Visible, s \in Given : Held(Visible, p, m, s) /\ handle'[m] = Run(p, m)
  <2>1. CASE handle'[m] = handle[m]
    BY <1>4, <2>1 DEF FormInv, SetsHeld, HandlesHeld
  <2>2. CASE handle'[m] # handle[m]
    <3>1. handle \in [Names -> Locators]
      BY DEF TypeInv, HandlesOK
    <3>2. Open(n)
      BY <1>4, <2>2, <3>1 DEF Close, LookupFails, LookupIoError
    <3>3. m = n /\ handle'[m] = Begin(n).locs /\ Begin(n).out = "entry"
      BY <2>2, <3>1, <3>2 DEF Open
    <3>4. PICK p \in DOMAIN Visible, s \in Given : FoundIn(Visible, Begin(n), p, n, s)
      BY <1>1, <3>3, BeginIs
    <3>. QED
      BY <3>3, <3>4 DEF FoundIn
  <2>. QED
    BY <2>1, <2>2
<1>5. SetsHeld'
  BY <1>2, <1>4 DEF FormInv, SetsHeld, HandlesHeld
<1>6. OneCluster'
  BY <1>1 DEF FormInv, OneCluster
<1>. QED
  BY <1>2, <1>3, <1>5, <1>6 DEF FormInv, Same

(* A set, slot by slot and as a copy of its slots.                         *)
LEMMA SetCopied ==
    ASSUME DeviceOK, NEW p \in DOMAIN Visible, NEW n \in Names, NEW s \in Given, Held(Visible, p, n, s),
           \A i \in DOMAIN Visible : Visible[i] = slots[i]
    PROVE  /\ SlotsAt(Run(p, n)) = SealedSet(n, s)
           /\ \A k \in 1..SetSize(n) : slots[p + k - 1] = SealedSet(n, s)[k]
<1>1. IsView(Visible)
  BY Views
<1>2. p \in Nat /\ \A i \in Span(p, n) : i \in DOMAIN Visible
  BY <1>1, HeldSlots
<1>3. DOMAIN Run(p, n) = 1..SetSize(n) /\ \A k \in 1..SetSize(n) : Run(p, n)[k] = p + k - 1 /\ p + k - 1 \in Span(p, n)
  BY <1>2, RunIs
<1>4. \A k \in 1..SetSize(n) : slots[p + k - 1] = SealedSet(n, s)[k]
  BY <1>2, <1>3 DEF Held
<1>5. SealedSet(n, s) \in Seq(Slot) /\ DOMAIN SealedSet(n, s) = 1..SetSize(n)
  BY SealedSlots
<1>6. SealedSet(n, s) = [k \in 1..SetSize(n) |-> SealedSet(n, s)[k]]
  BY <1>5
<1>7. SlotsAt(Run(p, n)) = [k \in 1..SetSize(n) |-> slots[Run(p, n)[k]]]
  BY <1>3 DEF SlotsAt
<1>. QED
  BY <1>3, <1>4, <1>6, <1>7

LEMMA FormBegun ==
    ASSUME TypeInv, TypeInv', EndsInv, SetInv, FormInv, At("idle"), UNCHANGED device, handle' = handle,
           NEW p \in DOMAIN Visible, NEW n \in Names, NEW s \in Given, Held(Visible, p, n, s),
           NEW o, o = op', o.old = Run(p, n), o.before = SlotsAt(Run(p, n)), o.locs = <<>>,
           \/ /\ o.kind = "rename" /\ o.pc \in {"search", "restream"}
              /\ <<n, o.name>> \in Renames /\ Absent(Visible, o.name)
              /\ o.pc = "search" => o.stream = Relocated(s)
              /\ o.pc = "restream" => SetSize(o.name) = SetSize(n)
           \/ o.kind = "remove" /\ o.pc = "retire" /\ o.i = 1 /\ o.name = n
           \/ /\ o.kind \in {"create", "update"} /\ o.pc = "stream" /\ o.name = n
              /\ o.stream \in Given /\ (o.kind = "create" => o.stream = Empty)
    PROVE  FormInv' /\ Same(Visible, Visible')
<1>1. /\ DeviceOK /\ DeviceOK' /\ slots' = slots /\ length' = length /\ SetsHeld
      /\ \A i \in DOMAIN Visible : i \in DOMAIN slots /\ Visible[i] = slots[i]
  BY IdleViews DEF TypeInv, device, FormInv
<1>2. SlotsAt(Run(p, n)) = SealedSet(n, s) /\ \A k \in 1..SetSize(n) : slots[p + k - 1] = SealedSet(n, s)[k]
  BY <1>1, SetCopied
<1>3. IsView(Visible) /\ Len(Visible) = Reach(slots, length)
  BY <1>1, Views
<1>4. p \in Nat /\ \A i \in Span(p, n) : i \in DOMAIN Visible /\ Visible[i] = SealedSet(n, s)[i - p + 1]
  BY <1>3, HeldSlots
<1>5. \A i \in DOMAIN Visible : Sight(slots, o, i) = Visible[i]
  <2>1. CASE o.pc = "stream"
    <3>1. ASSUME NEW i \in DOMAIN Visible
          PROVE  /\ i \in Span(p, n) => Sight(slots, o, i) = o.before[i - p + 1]
                 /\ i \notin Span(p, n) => Sight(slots, o, i) = slots[i]
      <4>1. p \in Nat /\ o.pc \in {"rename", "stream", "reseal"} /\ o.old = Run(p, n)
        BY <1>4, <2>1
      <4>. QED
        BY ONLY <4>1, n \in Names, SightEditing
    <3>. QED
      BY <1>1, <1>2, <1>4, <3>1
  <2>2. CASE o.pc # "stream"
    <3>1. \A i : Sight(slots, o, i) = slots[i]
      BY <2>2, SightPlain
    <3>. QED
      BY <1>1, <3>1
  <2>. QED
    BY <2>1, <2>2
<1>6. /\ IsView(Visible') /\ Len(Visible') = Len(Visible) /\ DOMAIN Visible' = DOMAIN Visible
      /\ \A i \in DOMAIN Visible : Visible'[i] = Visible[i]
  <2>1. /\ IsView(Visible') /\ Len(Visible') = Reach(slots, length)
        /\ \A i \in DOMAIN Visible' : Visible'[i] = Sight(slots, o, i)
    BY <1>1, ViewsNext
  <2>. QED
    BY <1>3, <1>5, <2>1 DEF IsView
<1>7. SetsHeld' /\ Same(Visible, Visible')
  BY <1>1, <1>6, Settling DEF Forgets
<1>8. o.kind = "rename" => Absent(Visible', o.name)
  <2>1. o.kind = "rename" => o.name \in Names
    BY DirectoryAssumption
  <2>. QED
    BY <1>7, <2>1, AbsentStays
<1>9. p \in DOMAIN Visible' /\ Held(Visible', p, n, s)
  BY <1>6, <1>7 DEF Same
<1>10. OldIs(p, n, s)'
  BY <1>2, <1>9 DEF OldIs, Editing
<1>11. Editing' => EditIs(p, n, s)'
  <2>1. Editing' => o.pc \in {"stream", "restream"}
    BY DEF Editing
  <2>2. ASSUME o.pc \in {"stream", "restream"}
        PROVE  \A k \in 1..SetSize(n) : slots'[p + k - 1] = Edited(n, s, k)'
    BY <1>1, <1>2, <2>2 DEF Edited, Done, At
  <2>. QED
    BY <2>1, <2>2 DEF EditIs
<1>12. OldForm'
  BY <1>9, <1>10, <1>11 DEF OldForm
<1>13. NewForm'
  <2>1. Relocated(s) \in Given
    BY GivenStreams
  <2>. QED
    BY <1>8, <2>1 DEF NewForm, Writing, Placing, Pending, Retiring, At
<1>14. RetireForm' /\ OneCluster'
  BY <1>1 DEF RetireForm, Retiring, At, FormInv, OneCluster
<1>. QED
  BY <1>7, <1>12, <1>13, <1>14 DEF FormInv

LEMMA FormAbsent ==
    ASSUME TypeInv, TypeInv', EndsInv, SetInv, FormInv, NEW n \in Names, CreateAbsent(n)
    PROVE  FormInv' /\ Same(Visible, Visible')
<1>1. /\ slots' = slots /\ length' = length /\ handle' = handle /\ At("idle")
      /\ op' = [Idle EXCEPT !.pc = "search", !.kind = "create", !.name = n] /\ Begin(n).out = "absent"
  BY DEF CreateAbsent, device
<1>2. PICK o : o = op'
  OBVIOUS
<1>3. o.pc = "search" /\ o.kind = "create" /\ o.name = n /\ o.old = <<>> /\ o.stream = Empty
  BY ONLY <1>1, <1>2 DEF Idle
<1>4. /\ DeviceOK /\ DeviceOK' /\ SetsHeld
      /\ \A i \in DOMAIN Visible : i \in DOMAIN slots /\ Visible[i] = slots[i]
  BY <1>1, IdleViews DEF TypeInv, FormInv
<1>5. /\ DOMAIN Visible' = DOMAIN Visible
      /\ \A i \in DOMAIN Visible' : Visible'[i] = slots[i]
  <2>1. IsView(Visible) /\ Len(Visible) = Reach(slots, length)
    BY <1>4, Views
  <2>2. /\ IsView(Visible') /\ Len(Visible') = Reach(slots, length)
        /\ \A i \in DOMAIN Visible' : Visible'[i] = Sight(slots, o, i)
    BY <1>1, <1>2, <1>4, ViewsNext
  <2>3. \A i : Sight(slots, o, i) = slots[i]
    BY <1>3, SightPlain
  <2>. QED
    BY <2>1, <2>2, <2>3 DEF IsView
<1>6. SetsHeld' /\ Same(Visible, Visible')
  BY <1>1, <1>4, <1>5, Settling DEF Forgets
<1>7. Absent(Visible', n)
  BY <1>1, <1>6, BeginIs, AbsentStays
<1>8. NewForm'
  <2>1. Empty \in Given
    BY GivenStreams
  <2>. QED
    BY <1>2, <1>3, <1>7, <2>1 DEF NewForm, Writing, Placing, Pending, Retiring, At
<1>9. OldForm' /\ RetireForm' /\ OneCluster'
  BY <1>1, <1>2, <1>3 DEF OldForm, RetireForm, Retiring, At, FormInv, OneCluster
<1>. QED
  BY <1>6, <1>8, <1>9 DEF FormInv

LEMMA FormBegins ==
    ASSUME TypeInv, TypeInv', EndsInv, SetInv, FormInv, NEW n \in Names,
           CreateExisting(n) \/ Remove(n) \/ \E s \in Streams : Update(n, s)
    PROVE  FormInv' /\ Same(Visible, Visible')
<1>1. UNCHANGED device /\ handle' = handle /\ At("idle")
  BY DEF CreateExisting, Remove, Update
<1>2. PICK d : d = Begin(n)
  OBVIOUS
<1>3. d.out = "entry" => \E p \in DOMAIN Visible, s \in Given : Held(Visible, p, n, s) /\ d.locs = Run(p, n)
  BY <1>1, <1>2, BeginIs DEF FoundIn
<1>4. PICK o : o = op'
  OBVIOUS
<1>. DEFINE l == d.locs
            b == SlotsAt(l)
<1>. HIDE DEF b, l
<1>5. CASE CreateExisting(n)
  <2>1. /\ o = [Idle EXCEPT !.pc = "stream", !.kind = "create", !.name = n, !.old = l, !.before = b]
        /\ d.out = "entry"
    BY <1>2, <1>4, <1>5 DEF CreateExisting, l, b
  <2>2. o.pc = "stream" /\ o.kind = "create" /\ o.name = n /\ o.old = l /\ o.before = b /\ o.locs = <<>> /\ o.stream = Empty
    BY ONLY <2>1 DEF Idle
  <2>3. PICK p \in DOMAIN Visible, s \in Given : Held(Visible, p, n, s) /\ l = Run(p, n) /\ b = SlotsAt(Run(p, n))
    BY <1>3, <2>1 DEF l, b
  <2>4. Empty \in Given
    BY GivenStreams
  <2>. QED
    BY <1>1, <1>4, <2>2, <2>3, <2>4, FormBegun
<1>6. CASE Remove(n)
  <2>1. /\ o = [Idle EXCEPT !.pc = "retire", !.kind = "remove", !.name = n, !.old = l, !.before = b, !.i = 1]
        /\ d.out = "entry"
    BY <1>2, <1>4, <1>6 DEF Remove, l, b
  <2>2. o.pc = "retire" /\ o.kind = "remove" /\ o.name = n /\ o.old = l /\ o.before = b /\ o.locs = <<>> /\ o.i = 1
    BY ONLY <2>1 DEF Idle
  <2>3. PICK p \in DOMAIN Visible, s \in Given : Held(Visible, p, n, s) /\ l = Run(p, n) /\ b = SlotsAt(Run(p, n))
    BY <1>3, <2>1 DEF l, b
  <2>. QED
    BY <1>1, <1>4, <2>2, <2>3, FormBegun
<1>7. ASSUME NEW r \in Streams, Update(n, r) PROVE FormInv' /\ Same(Visible, Visible')
  <2>. DEFINE h == handle[n]
              c == SlotsAt(h)
  <2>. HIDE DEF c, h
  <2>1. o = [Idle EXCEPT !.pc = "stream", !.kind = "update", !.name = n, !.stream = r, !.old = h, !.before = c]
    BY <1>4, <1>7 DEF Update, c, h
  <2>2. o.pc = "stream" /\ o.kind = "update" /\ o.name = n /\ o.old = h /\ o.before = c /\ o.locs = <<>> /\ o.stream = r
    BY ONLY <2>1 DEF Idle
  <2>3. handle[n] # <<>>
    BY <1>7 DEF Update
  <2>4. PICK p \in DOMAIN Visible, s \in Given : Held(Visible, p, n, s) /\ h = Run(p, n) /\ c = SlotsAt(Run(p, n))
    BY <2>3 DEF FormInv, SetsHeld, HandlesHeld, h, c
  <2>5. r \in Given
    BY GivenStreams
  <2>. QED
    BY <1>1, <1>4, <2>2, <2>4, <2>5, FormBegun
<1>. QED
  BY <1>5, <1>6, <1>7

LEMMA FormRename ==
    ASSUME TypeInv, TypeInv', EndsInv, SetInv, FormInv, RenamesFit,
           NEW e \in Renames, Rename(e[1], e[2])
    PROVE  FormInv' /\ Same(Visible, Visible')
<1>0. PICK n \in Names, m \in Names : n = e[1] /\ m = e[2] /\ <<n, m>> \in Renames /\ SetSize(n) <= SetSize(m)
  <2>1. e \in Names \X Names
    BY DirectoryAssumption
  <2>2. e[1] \in Names /\ e[2] \in Names /\ e = <<e[1], e[2]>>
    BY <2>1
  <2>3. SetSize(e[1]) <= SetSize(e[2])
    BY DEF RenamesFit
  <2>. QED
    BY <2>2, <2>3
<1>1. UNCHANGED device /\ handle' = handle /\ At("idle") /\ Lookup(FreshDecoder, m).out = "absent"
  BY <1>0 DEF Rename, RenamesFit
<1>2. PICK d : d = Begin(n)
  OBVIOUS
<1>3. d.out = "entry" /\ \E p \in DOMAIN Visible, s \in Given : FoundIn(Visible, d, p, n, s)
  BY <1>0, <1>1, <1>2, BeginIs DEF Rename
<1>4. PICK p \in DOMAIN Visible, s \in Given : Held(Visible, p, n, s) /\ d.locs = Run(p, n) /\ d.stream = s
  BY <1>3 DEF FoundIn
<1>5. PICK o : o = op'
  OBVIOUS
<1>. DEFINE l == d.locs
            b == SlotsAt(d.locs)
            r == Relocated(d.stream)
<1>6. o = IF SetSize(m) > Len(d.locs)
          THEN [[Idle EXCEPT !.kind = "rename", !.name = m, !.old = d.locs, !.before = SlotsAt(d.locs)]
                   EXCEPT !.pc = "search", !.stream = Relocated(d.stream)]
          ELSE [[Idle EXCEPT !.kind = "rename", !.name = m, !.old = d.locs, !.before = SlotsAt(d.locs)]
                   EXCEPT !.pc = "restream"]
  BY <1>0, <1>2, <1>5 DEF Rename
<1>. HIDE DEF b, l, r
<1>7. \/ o = [Idle EXCEPT !.kind = "rename", !.name = m, !.old = l, !.before = b, !.pc = "search", !.stream = r]
      \/ /\ o = [Idle EXCEPT !.kind = "rename", !.name = m, !.old = l, !.before = b, !.pc = "restream"]
         /\ ~(SetSize(m) > Len(d.locs))
  BY <1>6 DEF b, l, r, Idle
<1>8. /\ o.kind = "rename" /\ o.name = m /\ o.old = l /\ o.before = b /\ o.locs = <<>>
      /\ \/ o.pc = "search" /\ o.stream = r
         \/ o.pc = "restream" /\ ~(SetSize(m) > Len(d.locs))
  BY ONLY <1>7 DEF Idle
<1>9. l = Run(p, n) /\ b = SlotsAt(Run(p, n)) /\ r = Relocated(s)
  BY <1>4 DEF l, b, r
<1>10. o.pc = "restream" => SetSize(m) = SetSize(n)
  <2>1. IsView(Visible)
    BY Views DEF TypeInv
  <2>2. Len(d.locs) = SetSize(n) /\ SetSize(n) \in Nat /\ SetSize(m) \in Nat
    BY <1>4, <2>1, RunIs, Parameters DEF IsView
  <2>. QED
    BY <1>0, <1>8, <2>2
<1>11. Absent(Visible, m)
  BY <1>1, LookupIs
<1>. QED
  BY <1>0, <1>1, <1>4, <1>5, <1>8, <1>9, <1>10, <1>11, FormBegun

-----------------------------------------------------------------------------
(* Searching, growing and writing.                                         *)

LEMMA LocsRun ==
    ASSUME NEW S, NEW l \in Seq(S), NEW m \in Names, NEW q \in Nat, DOMAIN l = 1..SetSize(m),
           \A k \in 1..SetSize(m) : l[k] = q + k - 1
    PROVE  l = Run(q, m)
BY DEF Run

LEMMA GoneEmpty == Empties(GoneSlot)
BY DEF Empties, GoneSlot

(* An operation that has yet to write its set, and goes on.                *)
LEMMA FormWriting ==
    ASSUME TypeInv, TypeInv', SetInv, FormInv, Forgets, OneCluster', Writing,
           NEW o, o = op', o.pc \in {"search", "link", "pad", "length", "sealLength", "write", "seal"},
           o.kind = op.kind, o.name = op.name, o.old = op.old, o.stream = op.stream, o.before = op.before,
           \A i \in DOMAIN Visible' : \/ i \in DOMAIN Visible /\ Visible'[i] = Visible[i]
                                      \/ Empties(Visible'[i]),
           \A i \in DOMAIN Visible : \/ i \in DOMAIN Visible' /\ Visible'[i] = Visible[i]
                                     \/ Empties(Visible[i]),
           o.pc \in {"write", "seal"} =>
               \E q \in DOMAIN Visible' : o.locs = Run(q, o.name) /\ q + SetSize(o.name) - 1 <= Len(Visible')
    PROVE  FormInv' /\ Same(Visible, Visible')
<1>1. DeviceOK /\ DeviceOK' /\ SetsHeld /\ NewForm /\ OldForm
  BY DEF TypeInv, FormInv
<1>2. SetsHeld' /\ Same(Visible, Visible')
  BY <1>1, Settling
<1>3. /\ op.name \in Names /\ op.pc \in {"search", "link", "pad", "length", "sealLength", "write", "seal"}
      /\ op.kind \in {"create", "rename"}
  BY DEF TypeInv, OpOK, SetInv, OldWhole, Writing
<1>4. Absent(Visible', op.name)
  BY <1>1, <1>2, <1>3, AbsentStays DEF NewForm, Pending
<1>5. NewForm'
  <2>1. Room' \/ o.pc \notin {"write", "seal"}
    BY <1>3 DEF Room, At
  <2>2. op.stream \in Given /\ (op.kind = "create" => op.stream = Empty /\ op.old = <<>>)
    BY <1>1 DEF NewForm
  <2>. QED
    BY <1>4, <2>1, <2>2 DEF NewForm, Placing, Pending, Writing, Retiring, At
<1>6. OldForm'
  <2>1. CASE o.old = <<>>
    BY <2>1 DEF OldForm
  <2>2. CASE o.old # <<>>
    <3>1. PICK p \in DOMAIN Visible, n \in Names, s \in Given : OldIs(p, n, s)
      BY <1>1, <1>3, <2>2 DEF OldForm, Retiring, At
    <3>2. Held(Visible', p, n, s) /\ p \in DOMAIN Visible'
      BY <1>2, <3>1, HeldIn DEF OldIs, Same
    <3>3. OldIs(p, n, s)' /\ ~Editing'
      BY <1>3, <3>1, <3>2 DEF OldIs, Editing
    <3>. QED
      BY <3>2, <3>3 DEF OldForm
  <2>. QED
    BY <2>1, <2>2
<1>7. RetireForm'
  BY DEF RetireForm, Retiring, At
<1>. QED
  BY <1>2, <1>5, <1>6, <1>7 DEF FormInv

(* Slots that hold nothing are added, padded, and set aside for the set.   *)
LEMMA FormGrowing ==
    ASSUME TypeInv, TypeInv', SetInv, FormInv, Forgets, OneCluster', Writing, op.pc \notin {"write", "seal"},
           NEW o, o = op', o.pc \in {"search", "link", "pad", "length", "sealLength", "write"},
           o.kind = op.kind, o.name = op.name, o.old = op.old, o.stream = op.stream, o.before = op.before,
           \A i \in DOMAIN slots' : \/ i \in DOMAIN slots /\ slots'[i] = slots[i]
                                    \/ Empties(slots'[i]) /\ (i \in DOMAIN slots => Empties(slots[i])),
           Reach(slots, length) <= Reach(slots', length'),
           \A i \in DOMAIN slots' : i > Reach(slots, length) /\ i <= Reach(slots', length') => Empties(slots'[i]),
           o.pc = "write" =>
               \E q \in 1..Reach(slots', length') :
                   /\ o.locs = Run(q, o.name) /\ q + SetSize(o.name) - 1 <= Reach(slots', length')
                   /\ \A i \in DOMAIN slots' : i \in Span(q, o.name) => Empties(slots'[i])
    PROVE  FormInv' /\ Same(Visible, Visible')
<1>1. DeviceOK /\ DeviceOK' /\ op.pc \in {"search", "link", "pad", "length", "sealLength"} /\ op.name \in Names
  BY DEF TypeInv, Writing, OpOK
<1>2. PICK v : v = Visible
  OBVIOUS
<1>3. PICK w : w = Visible'
  OBVIOUS
<1>4. /\ IsView(v) /\ Len(v) = Reach(slots, length) /\ Len(v) \in Nat
      /\ \A i \in DOMAIN v : i \in 1..Len(v) /\ i \in DOMAIN slots /\ v[i] = slots[i]
  <2>1. \A i : Sight(slots, op, i) = slots[i]
    BY <1>1, SightPlain
  <2>. QED
    BY <1>1, <1>2, <2>1, Views
<1>5. /\ IsView(w) /\ Len(w) = Reach(slots', length') /\ Len(w) \in Nat
      /\ \A i \in DOMAIN w : i \in 1..Len(w) /\ i \in DOMAIN slots' /\ w[i] = Sight(slots', o, i)
  BY <1>1, <1>3, ViewsNext
<1>6. DOMAIN v = 1..Len(v) /\ DOMAIN w = 1..Len(w) /\ Len(v) <= Len(w)
  BY <1>4, <1>5 DEF IsView
<1>7. ASSUME NEW i \in DOMAIN w, w[i] = slots'[i]
      PROVE  /\ (i \in DOMAIN v /\ w[i] = v[i]) \/ Empties(w[i])
             /\ i \in DOMAIN v => w[i] = v[i] \/ Empties(v[i])
  <2>1. CASE i \in DOMAIN v
    BY <1>4, <1>5, <1>7, <2>1
  <2>2. CASE i \notin DOMAIN v
    <3>1. i > Len(v) /\ i <= Len(w)
      BY <1>4, <1>5, <1>6, <2>2
    <3>. QED
      BY <1>4, <1>5, <1>7, <2>2, <3>1
  <2>. QED
    BY <2>1, <2>2
<1>8. CASE o.pc = "write"
  <2>1. PICK q \in 1..Reach(slots', length') :
            /\ o.locs = Run(q, o.name) /\ q + SetSize(o.name) - 1 <= Reach(slots', length')
            /\ \A i \in DOMAIN slots' : i \in Span(q, o.name) => Empties(slots'[i])
    BY <1>8
  <2>2. q \in DOMAIN w /\ q \in Nat
    BY <1>5, <1>6, <2>1
  <2>3. ASSUME NEW i \in DOMAIN w
        PROVE  /\ i \in Span(q, o.name) => Empties(w[i])
               /\ i \notin Span(q, o.name) => w[i] = slots'[i]
    <3>1. /\ i \in Span(q, o.name) => Sight(slots', o, i) = GoneSlot
          /\ i \notin Span(q, o.name) => Sight(slots', o, i) = slots'[i]
      BY <1>1, <1>8, <2>1, <2>2, SightPlacing
    <3>. QED
      BY <1>5, <3>1, GoneEmpty
  <2>4. \A i \in DOMAIN w : (i \in DOMAIN v /\ w[i] = v[i]) \/ Empties(w[i])
    BY <1>7, <2>3
  <2>5. ASSUME NEW i \in DOMAIN v PROVE (i \in DOMAIN w /\ w[i] = v[i]) \/ Empties(v[i])
    <3>1. i \in DOMAIN w /\ i \in DOMAIN slots' /\ i \in DOMAIN slots /\ v[i] = slots[i]
      BY <1>4, <1>5, <1>6
    <3>2. CASE i \notin Span(q, o.name)
      BY <1>7, <2>3, <3>1, <3>2
    <3>3. CASE i \in Span(q, o.name)
      BY <2>1, <3>1, <3>3
    <3>. QED
      BY <3>2, <3>3
  <2>. QED
    BY <1>2, <1>3, <1>5, <2>1, <2>2, <2>4, <2>5, FormWriting
<1>9. CASE o.pc # "write"
  <2>1. \A i \in DOMAIN w : w[i] = slots'[i]
    <3>1. \A i : Sight(slots', o, i) = slots'[i]
      BY <1>9, SightPlain
    <3>. QED
      BY <1>5, <3>1
  <2>2. \A i \in DOMAIN w : (i \in DOMAIN v /\ w[i] = v[i]) \/ Empties(w[i])
    BY <1>7, <2>1
  <2>3. \A i \in DOMAIN v : (i \in DOMAIN w /\ w[i] = v[i]) \/ Empties(v[i])
    BY <1>6, <1>7, <2>1, <1>4, <1>5
  <2>. QED
    BY <1>2, <1>3, <1>9, <2>2, <2>3, FormWriting
<1>. QED
  BY <1>8, <1>9

LEMMA FormSearch ==
    ASSUME TypeInv, TypeInv', SetInv, FormInv, Search
    PROVE  FormInv' /\ Same(Visible, Visible')
<1>1. /\ slots' = slots /\ length' = length /\ handle' = handle /\ op.pc = "search"
      /\ DeviceOK /\ op.name \in Names
  BY DEF Search, device, At, TypeInv, OpOK
<1>2. PICK o : o = op'
  OBVIOUS
<1>3. /\ o \in OpType /\ o.name = op.name /\ o.kind = op.kind /\ o.old = op.old
      /\ o.stream = op.stream /\ o.before = op.before /\ o.pc = "write"
      /\ Wanted \in Nat \ {0, 1, 2} /\ DOMAIN o.locs = 1..Wanted /\ ViewOK(LookupSlots)
  BY <1>2, SearchOK
<1>4. PICK first \in Nat \ {0} :
         /\ first + Wanted - 1 <= Len(LookupSlots)
         /\ \A k \in 1..Wanted : o.locs[k] = first + k - 1
         /\ \A j \in first..(first + Wanted - 1) : ~slots[j].used
  BY <1>2, SearchOK
<1>5. o.locs \in Seq(DOMAIN slots)
  BY ONLY <1>3 DEF OpType, Locators
<1>6. o.locs = Run(first, o.name)
  <2>1. Wanted = SetSize(o.name) /\ o.name \in Names /\ first \in Nat
    BY <1>1, <1>3 DEF Wanted
  <2>2. DOMAIN o.locs = 1..SetSize(o.name) /\ \A k \in 1..SetSize(o.name) : o.locs[k] = first + k - 1
    BY <1>3, <1>4, <2>1
  <2>. QED
    BY ONLY <1>5, <2>1, <2>2, LocsRun
<1>7. Len(LookupSlots) = Reach(slots, length)
  <2>1. Kind \in {"root", "chained", "contiguous"}
    BY DirectoryAssumption
  <2>2. Kind = "contiguous" => length = 1
    BY DEF FormInv, OneCluster
  <2>3. Kind = "root" => LookupSlots = slots
    BY DEF LookupSlots
  <2>4. Kind # "root" => LookupSlots = Clusters(length)
    BY <2>1, <2>2 DEF LookupSlots
  <2>5. Kind # "root" => Len(Clusters(length)) = length * SlotsPerCluster
    BY TypeInvImplies, ClustersOK DEF ChainOK
  <2>. QED
    BY <2>3, <2>4, <2>5 DEF Reach
<1>8. Reach(slots, length) \in Nat
  BY <1>3, <1>7 DEF ViewOK
<1>9. first \in 1..Reach(slots', length') /\ first + SetSize(o.name) - 1 <= Reach(slots', length')
  BY <1>1, <1>3, <1>4, <1>7, <1>8 DEF Wanted
<1>10. \A i \in DOMAIN slots' : i \in Span(first, o.name) => Empties(slots'[i])
  BY <1>1, <1>3, <1>4 DEF Span, Wanted, Empties
<1>11. OneCluster'
  BY <1>1, <1>2, <1>3 DEF FormInv, OneCluster
<1>12. Forgets /\ Writing
  BY <1>1 DEF Forgets, Writing
<1>13. \A i \in DOMAIN slots' : i > Reach(slots, length) => ~(i <= Reach(slots', length'))
  <2>1. DOMAIN slots \subseteq Nat
    BY <1>1 DEF DeviceOK
  <2>. QED
    BY <1>1, <1>8, <2>1
<1>14. Reach(slots, length) <= Reach(slots', length')
  BY <1>1, <1>8
<1>. QED
  BY <1>1, <1>2, <1>3, <1>6, <1>9, <1>10, <1>11, <1>12, <1>13, <1>14, FormGrowing

LEMMA FormReachEnd ==
    ASSUME TypeInv, TypeInv', SetInv, FormInv, ReachEnd
    PROVE  FormInv' /\ Same(Visible, Visible')
<1>1. /\ slots' = slots /\ length' = length /\ handle' = handle /\ op.pc = "search"
      /\ DeviceOK /\ op \in OpType /\ ViewOK(LookupSlots) /\ CanGrow
  BY TypeInvImplies, ViewsOK DEF ReachEnd, device, At, TypeInv, OpOK, DeviceOK
<1>2. PICK r : r = TailRun(LookupSlots)
  OBVIOUS
<1>3. op' = [op EXCEPT !.pc = "link", !.run = r]
  BY <1>2 DEF ReachEnd
<1>4. PICK o : o = op'
  OBVIOUS
<1>5. /\ o.pc = "link" /\ o.name = op.name /\ o.kind = op.kind /\ o.old = op.old
      /\ o.stream = op.stream /\ o.before = op.before
  BY ONLY <1>1, <1>3, <1>4 DEF OpType
<1>6. Reach(slots, length) \in Nat /\ DOMAIN slots \subseteq Nat
  <2>1. Len(Visible) = Reach(slots, length) /\ Len(Visible) \in Nat
    BY <1>1, Views
  <2>. QED
    BY <1>1, <2>1 DEF DeviceOK
<1>7. OneCluster'
  BY <1>1 DEF OneCluster, CanGrow
<1>8. Forgets /\ Writing
  BY <1>1 DEF Forgets, Writing
<1>9. \A i \in DOMAIN slots' : i > Reach(slots, length) => ~(i <= Reach(slots', length'))
  BY <1>1, <1>6
<1>10. Reach(slots, length) <= Reach(slots', length')
  BY <1>1, <1>6
<1>. QED
  BY <1>1, <1>4, <1>5, <1>7, <1>8, <1>9, <1>10, FormGrowing

LEMMA EndEmpty == Empties(EndSlot) /\ Empties(PadSlot) /\ \A s \in Slot : s.tag = "end" => Empties(s)
BY DEF Empties, EndSlot, PadSlot, Slot, Contents

LEMMA FormLink ==
    ASSUME TypeInv, TypeInv', SetInv, FormInv, LinkCluster
    PROVE  FormInv' /\ Same(Visible, Visible')
<1>1. /\ slots' = slots \o [i \in 1..SlotsPerCluster |-> EndSlot] /\ op' = [op EXCEPT !.pc = "pad"]
      /\ length' = length /\ handle' = handle /\ op.pc = "link" /\ DeviceOK /\ DeviceOK' /\ op \in OpType
  BY DEF LinkCluster, At, TypeInv, OpOK
<1>2. PICK o : o = op'
  OBVIOUS
<1>3. /\ o.pc = "pad" /\ o.name = op.name /\ o.kind = op.kind /\ o.old = op.old
      /\ o.stream = op.stream /\ o.before = op.before
  BY ONLY <1>1, <1>2 DEF OpType
<1>4. /\ slots' \in Seq(Slot) /\ slots \in Seq(Slot) /\ Len(slots') = Len(slots) + SlotsPerCluster
      /\ \A i \in DOMAIN slots : slots'[i] = slots[i]
      /\ \A i \in DOMAIN slots' : i > Len(slots) => slots'[i].tag = "end"
  BY <1>1, Linked DEF DeviceOK
<1>5. /\ Len(slots) \in Nat /\ Len(slots') \in Nat /\ Len(slots) <= Len(slots')
      /\ DOMAIN slots = 1..Len(slots) /\ DOMAIN slots' = 1..Len(slots')
      /\ \A i \in DOMAIN slots' : i \in DOMAIN slots \/ Empties(slots'[i])
      /\ \A i \in DOMAIN slots' : i > Len(slots) => Empties(slots'[i])
  <2>1. \A i \in DOMAIN slots' : i > Len(slots) => Empties(slots'[i])
    <3>1. \A i \in DOMAIN slots' : slots'[i] \in Slot
      BY <1>4
    <3>. QED
      BY <1>4, <3>1, EndEmpty
  <2>2. Len(slots) \in Nat /\ Len(slots') \in Nat /\ DOMAIN slots = 1..Len(slots) /\ DOMAIN slots' = 1..Len(slots')
    BY <1>4
  <2>3. SlotsPerCluster \in Nat
    BY Parameters
  <2>. QED
    BY <1>4, <2>1, <2>2, <2>3
<1>6. \A i \in DOMAIN slots' : \/ i \in DOMAIN slots /\ slots'[i] = slots[i]
                               \/ Empties(slots'[i]) /\ (i \in DOMAIN slots => Empties(slots[i]))
  BY <1>4, <1>5
<1>7. /\ Reach(slots, length) \in Nat /\ Reach(slots, length) <= Reach(slots', length')
      /\ \A i \in DOMAIN slots' : i > Reach(slots, length) /\ i <= Reach(slots', length') => Empties(slots'[i])
  <2>1. Len(Visible) = Reach(slots, length) /\ Len(Visible) \in Nat
    BY <1>1, Views
  <2>2. CASE Kind = "root"
    BY <1>5, <2>2 DEF Reach
  <2>3. CASE Kind # "root"
    <3>1. Reach(slots, length) = Reach(slots', length')
      BY <1>1, <2>3 DEF Reach
    <3>. QED
      BY <1>5, <2>1, <3>1
  <2>. QED
    BY <2>2, <2>3
<1>8. OneCluster'
  BY <1>1 DEF FormInv, OneCluster
<1>9. Forgets /\ Writing
  BY <1>1 DEF Forgets, Writing
<1>. QED
  BY <1>1, <1>2, <1>3, <1>6, <1>7, <1>8, <1>9, FormGrowing

(* The set goes where growth left room for it.                             *)
LEMMA GrownRun ==
    ASSUME TypeInv, SetInv, op.pc \in {"pad", "sealLength"}, op' = AfterGrowth, NEW o, o = op'
    PROVE  /\ o.pc \in {"search", "write"} /\ o.kind = op.kind /\ o.name = op.name /\ o.old = op.old
           /\ o.stream = op.stream /\ o.before = op.before
           /\ o.pc = "write" =>
                \E q \in 1..Len(slots) :
                    /\ o.locs = Run(q, o.name) /\ q + SetSize(o.name) - 1 <= Len(slots)
                    /\ \A i \in DOMAIN slots : i \in Span(q, o.name) => Empties(slots[i])
<1>1. /\ o \in OpType /\ o.name = op.name /\ o.kind = op.kind /\ o.old = op.old
      /\ o.stream = op.stream /\ o.before = op.before
      /\ \/ o.pc = "search"
         \/ /\ o.pc = "write"
            /\ Wanted \in Nat \ {0, 1, 2} /\ DOMAIN o.locs = 1..Wanted
            /\ FirstLocator \in 1..OldEnd /\ FirstLocator + Wanted - 1 <= Len(slots)
            /\ FirstLocator = OldEnd - op.run + 1
            /\ \A k \in 1..Wanted : o.locs[k] = FirstLocator + k - 1
  BY GrowthOK
<1>2. slots \in Seq(Slot) /\ Len(slots) \in Nat /\ DOMAIN slots = 1..Len(slots) /\ op.name \in Names /\ op.run \in Nat
  BY DEF TypeInv, DeviceOK, OpOK, OpType
<1>3. CASE o.pc = "write"
  <2>1. o.locs \in Seq(DOMAIN slots)
    BY ONLY <1>1 DEF OpType, Locators
  <2>2. PICK q : q = FirstLocator
    OBVIOUS
  <2>3. /\ q \in Nat /\ DOMAIN o.locs = 1..SetSize(o.name) /\ \A k \in 1..SetSize(o.name) : o.locs[k] = q + k - 1
        /\ o.name \in Names /\ SetSize(o.name) \in Nat \ {0, 1, 2}
    BY <1>1, <1>2, <1>3, <2>2 DEF Wanted
  <2>4. o.locs = Run(q, o.name)
    BY ONLY <2>1, <2>3, LocsRun
  <2>5. q \in 1..Len(slots) /\ q + SetSize(o.name) - 1 <= Len(slots)
    BY <1>1, <1>2, <1>3, <2>2, <2>3 DEF Wanted
  <2>6. \A i \in DOMAIN slots : i > OldEnd - op.run => Empties(slots[i])
    BY DEF SetInv, NewWhole, Vacant, Empties
  <2>7. PICK b \in Nat : b = OldEnd - op.run
    BY <1>1, <1>2, <1>3, <2>2, <2>3, Parameters DEF OldEnd, TypeInv, OpOK, RoomOK
  <2>8. ASSUME NEW i \in DOMAIN slots, i \in Span(q, o.name) PROVE Empties(slots[i])
    <3>1. q = b + 1 /\ i \in q..(q + SetSize(o.name) - 1)
      BY <1>1, <1>3, <2>2, <2>7, <2>8 DEF Span
    <3>2. i > OldEnd - op.run
      BY <2>3, <2>7, <3>1
    <3>. QED
      BY <2>6, <3>2
  <2>. QED
    BY <1>1, <1>3, <2>4, <2>5, <2>8
<1>. QED
  BY <1>1, <1>3

LEMMA PaddedEmpty ==
    ASSUME slots \in Seq(Slot), NEW i \in DOMAIN slots
    PROVE  /\ Padded(i) = slots[i] \/ (Empties(Padded(i)) /\ Empties(slots[i]))
           /\ Empties(slots[i]) => Empties(Padded(i))
<1>1. slots[i] \in Slot
  OBVIOUS
<1>. QED
  BY <1>1, EndEmpty DEF Padded

LEMMA FormPad ==
    ASSUME TypeInv, TypeInv', SetInv, FormInv, PadOldTail
    PROVE  FormInv' /\ Same(Visible, Visible')
<1>1. /\ slots' = [i \in DOMAIN slots |-> Padded(i)] /\ op' = AfterPad
      /\ length' = length /\ handle' = handle /\ op.pc = "pad" /\ DeviceOK /\ DeviceOK' /\ op \in OpType
      /\ slots \in Seq(Slot)
  BY DEF PadOldTail, At, TypeInv, OpOK, DeviceOK
<1>2. PICK o : o = op'
  OBVIOUS
<1>3. DOMAIN slots' = DOMAIN slots /\ Len(slots') = Len(slots) /\ \A i \in DOMAIN slots : slots'[i] = Padded(i)
  <2>1. slots' \in Seq(Slot)
    BY <1>1 DEF DeviceOK
  <2>2. DOMAIN slots' = 1..Len(slots') /\ DOMAIN slots = 1..Len(slots) /\ Len(slots) \in Nat /\ Len(slots') \in Nat
    BY <1>1, <2>1
  <2>. QED
    BY <1>1, <2>2
<1>4. \A i \in DOMAIN slots' : /\ i \in DOMAIN slots
                               /\ slots'[i] = slots[i] \/ (Empties(slots'[i]) /\ Empties(slots[i]))
                               /\ Empties(slots[i]) => Empties(slots'[i])
  BY <1>1, <1>3, PaddedEmpty
<1>5. /\ Reach(slots, length) \in Nat /\ Reach(slots', length') = Reach(slots, length)
      /\ (Kind = "root" => Reach(slots, length) = Len(slots)) /\ DOMAIN slots' \subseteq Nat
  <2>1. Len(Visible) = Reach(slots, length) /\ Len(Visible) \in Nat
    BY <1>1, Views
  <2>. QED
    BY <1>1, <1>3, <2>1 DEF Reach
<1>6. /\ \A i \in DOMAIN slots' : i > Reach(slots, length) => ~(i <= Reach(slots', length'))
      /\ Reach(slots, length) <= Reach(slots', length')
  BY <1>5
<1>7. Forgets /\ Writing /\ Kind # "contiguous" /\ OneCluster'
  BY <1>1 DEF Forgets, Writing, FormInv, OneCluster
<1>8. CASE Kind = "root"
  <2>1. /\ o.pc \in {"search", "write"} /\ o.kind = op.kind /\ o.name = op.name /\ o.old = op.old
        /\ o.stream = op.stream /\ o.before = op.before
        /\ o.pc = "write" =>
             \E q \in 1..Len(slots) :
                 /\ o.locs = Run(q, o.name) /\ q + SetSize(o.name) - 1 <= Len(slots)
                 /\ \A i \in DOMAIN slots : i \in Span(q, o.name) => Empties(slots[i])
    BY <1>1, <1>2, <1>8, GrownRun DEF AfterPad
  <2>2. ASSUME o.pc = "write"
        PROVE  \E q \in 1..Reach(slots', length') :
                 /\ o.locs = Run(q, o.name) /\ q + SetSize(o.name) - 1 <= Reach(slots', length')
                 /\ \A i \in DOMAIN slots' : i \in Span(q, o.name) => Empties(slots'[i])
    BY <1>4, <1>5, <1>8, <2>1, <2>2
  <2>. QED
    BY <1>1, <1>2, <1>4, <1>6, <1>7, <2>1, <2>2, FormGrowing
<1>9. CASE Kind # "root"
  <2>1. o = [op EXCEPT !.pc = "length"]
    BY <1>1, <1>2, <1>9 DEF AfterPad
  <2>2. /\ o.pc = "length" /\ o.kind = op.kind /\ o.name = op.name /\ o.old = op.old
        /\ o.stream = op.stream /\ o.before = op.before
    BY ONLY <1>1, <2>1 DEF OpType
  <2>. QED
    BY <1>1, <1>2, <1>4, <1>6, <1>7, <2>2, FormGrowing
<1>. QED
  BY <1>8, <1>9

LEMMA FormRecord ==
    ASSUME TypeInv, TypeInv', RecordInv, SetInv, FormInv, RecordLength \/ SealLength
    PROVE  FormInv' /\ Same(Visible, Visible')
<1>1. /\ slots' = slots /\ handle' = handle /\ DeviceOK /\ DeviceOK' /\ op \in OpType
      /\ slots \in Seq(Slot) /\ op.pc \in {"length", "sealLength"}
      /\ length \in Nat
  BY DEF RecordLength, SealLength, At, TypeInv, OpOK, DeviceOK
<1>2. PICK o : o = op'
  OBVIOUS
<1>3. /\ Reach(slots, length) \in Nat /\ DOMAIN slots' = DOMAIN slots /\ Len(slots) \in Nat
      /\ DOMAIN slots' = 1..Len(slots) /\ Reach(slots', length') \in Nat
  <2>1. Len(Visible) = Reach(slots, length) /\ Len(Visible) \in Nat
    BY <1>1, Views
  <2>2. Len(Visible') = Reach(slots', length') /\ Len(Visible') \in Nat
    BY <1>1, ViewsNext
  <2>. QED
    BY <1>1, <2>1, <2>2
<1>4. Forgets /\ Writing /\ Kind # "contiguous" /\ OneCluster'
  BY <1>1 DEF Forgets, Writing, FormInv, OneCluster
<1>5. CASE RecordLength
  <2>1. length' = length + 1 /\ op' = [op EXCEPT !.pc = "sealLength"] /\ op.pc = "length"
    BY <1>5 DEF RecordLength, At
  <2>2. /\ o.pc = "sealLength" /\ o.kind = op.kind /\ o.name = op.name /\ o.old = op.old
        /\ o.stream = op.stream /\ o.before = op.before
    BY ONLY <1>1, <1>2, <2>1 DEF OpType
  <2>3. \A i \in DOMAIN slots : i > OldEnd - op.run => Empties(slots[i])
    BY <2>1 DEF SetInv, NewWhole, Vacant, Empties
  <2>4. /\ Reach(slots, length) <= Reach(slots', length')
        /\ \A i \in DOMAIN slots' : i > Reach(slots, length) /\ i <= Reach(slots', length') => Empties(slots'[i])
    <3>1. CASE Kind = "root"
      BY <1>1, <1>3, <3>1 DEF Reach
    <3>2. CASE Kind # "root"
      <4>1. PICK c \in Nat, m \in Nat : c = SlotsPerCluster /\ m = length * SlotsPerCluster
        BY <1>1, Parameters
      <4>2. Reach(slots, length) = m /\ Reach(slots', length') = m + c
        BY <1>1, <2>1, <3>2, <4>1 DEF Reach
      <4>3. Len(slots) = m + c
        BY <2>1, <3>2, <4>1 DEF TypeInv, OpOK, RoomOK, At
      <4>4. OldEnd = m /\ op.run \in Nat
        BY <1>1, <4>1, <4>3 DEF OldEnd, OpType
      <4>5. ASSUME NEW i \in DOMAIN slots, i > m PROVE Empties(slots[i])
        <5>1. i > m - op.run
          BY <1>3, <4>4, <4>5
        <5>. QED
          BY <2>3, <4>4, <5>1
      <4>. QED
        BY <1>1, <4>2, <4>5
    <3>. QED
      BY <3>1, <3>2
  <2>. QED
    BY <1>1, <1>2, <1>3, <1>4, <2>2, <2>4, FormGrowing
<1>6. CASE SealLength
  <2>1. length' = length /\ op' = AfterGrowth /\ op.pc = "sealLength"
    BY <1>6 DEF SealLength, At
  <2>2. Reach(slots', length') = Len(slots) /\ Reach(slots, length) = Len(slots)
    <3>1. Kind = "chained" => Len(slots) = length * SlotsPerCluster
      BY <2>1 DEF RecordInv, At
    <3>. QED
      BY <1>1, <1>4, <2>1, <3>1, DirectoryAssumption DEF Reach
  <2>3. /\ o.pc \in {"search", "write"} /\ o.kind = op.kind /\ o.name = op.name /\ o.old = op.old
        /\ o.stream = op.stream /\ o.before = op.before
        /\ o.pc = "write" =>
             \E q \in 1..Len(slots) :
                 /\ o.locs = Run(q, o.name) /\ q + SetSize(o.name) - 1 <= Len(slots)
                 /\ \A i \in DOMAIN slots : i \in Span(q, o.name) => Empties(slots[i])
    BY <1>1, <1>2, <2>1, GrownRun
  <2>4. /\ Reach(slots, length) <= Reach(slots', length')
        /\ \A i \in DOMAIN slots' : ~(i > Reach(slots, length) /\ i <= Reach(slots', length'))
    BY <1>3, <2>2
  <2>. QED
    BY <1>1, <1>2, <1>3, <1>4, <2>1, <2>2, <2>3, <2>4, FormGrowing
<1>. QED
  BY <1>5, <1>6

LEMMA RunLocs ==
    ASSUME NEW n, n \in Names, NEW p, p \in Nat, NEW l, l = Run(p, n)
    PROVE  /\ SetSize(n) \in Nat \ {0, 1, 2} /\ DOMAIN l = 1..SetSize(n) /\ l[1] = p /\ l[2] = p + 1
           /\ \A k \in 1..SetSize(n) : l[k] = p + k - 1
<1>1. SetSize(n) \in Nat \ {0, 1, 2} /\ DOMAIN Run(p, n) = 1..SetSize(n) /\ Run(p, n)[1] = p /\ Run(p, n)[2] = p + 1
  BY RunIs
<1>2. ASSUME NEW k \in 1..SetSize(n) PROVE Run(p, n)[k] = p + k - 1
  BY DEF Run
<1>. QED
  BY <1>1, <1>2

LEMMA FormWrite ==
    ASSUME TypeInv, TypeInv', SetInv, FormInv, WriteSlot
    PROVE  FormInv' /\ Same(Visible, Visible')
<1>1. /\ length' = length /\ handle' = handle /\ op.pc = "write" /\ DeviceOK /\ DeviceOK' /\ op \in OpType
      /\ slots \in Seq(Slot) /\ op.name \in Names /\ op.i \in DOMAIN op.locs
      /\ op' = IF op.i = Wanted THEN [op EXCEPT !.pc = "seal", !.i = 0] ELSE [op EXCEPT !.i = @ + 1]
  BY DEF WriteSlot, At, TypeInv, OpOK, DeviceOK
<1>2. PICK o : o = op'
  OBVIOUS
<1>3. /\ o.pc \in {"write", "seal"} /\ o.name = op.name /\ o.kind = op.kind /\ o.old = op.old
      /\ o.stream = op.stream /\ o.before = op.before /\ o.locs = op.locs
  <2>1. o = [op EXCEPT !.pc = "seal", !.i = 0] \/ o = [op EXCEPT !.i = @ + 1]
    BY <1>1, <1>2
  <2>. QED
    BY ONLY <1>1, <2>1 DEF OpType
<1>4. PICK q \in DOMAIN Visible : op.locs = Run(q, op.name) /\ q + SetSize(op.name) - 1 <= Len(Visible)
  BY <1>1 DEF FormInv, NewForm, Placing, Room
<1>5. /\ IsView(Visible) /\ Len(Visible) = Reach(slots, length)
      /\ \A i \in DOMAIN Visible : i \in DOMAIN slots /\ Visible[i] = Sight(slots, op, i)
  BY <1>1, Views
<1>6. q \in Nat /\ op.locs[op.i] \in Span(q, op.name)
  <2>1. q \in Nat
    BY <1>5 DEF IsView
  <2>2. PICK m \in Names : m = op.name
    BY <1>1
  <2>3. /\ Range(Run(q, m)) = Span(q, m) /\ DOMAIN Run(q, m) = 1..SetSize(m)
        /\ \A k \in 1..SetSize(m) : Run(q, m)[k] = q + k - 1 /\ q + k - 1 \in Span(q, m)
    BY <2>1, RunIs
  <2>4. op.locs = Run(q, m) /\ op.i \in 1..SetSize(m)
    BY <1>1, <1>4, <2>2, <2>3
  <2>. QED
    BY <2>1, <2>2, <2>3, <2>4
<1>7. PICK x : slots' = [slots EXCEPT ![op.locs[op.i]] = x]
  BY DEF WriteSlot, SetSlot
<1>8. /\ DOMAIN slots' = DOMAIN slots /\ Len(slots') = Len(slots)
      /\ \A i \in DOMAIN slots : i \notin Span(q, op.name) => slots'[i] = slots[i]
  <2>1. DOMAIN slots' = DOMAIN slots /\ \A i \in DOMAIN slots : i # op.locs[op.i] => slots'[i] = slots[i]
    BY <1>1, <1>7
  <2>2. slots' \in Seq(Slot)
    BY <1>1 DEF DeviceOK
  <2>3. DOMAIN slots' = 1..Len(slots') /\ DOMAIN slots = 1..Len(slots) /\ Len(slots) \in Nat /\ Len(slots') \in Nat
    BY <1>1, <2>2
  <2>4. Len(slots') = Len(slots)
    <3>1. PICK a \in Nat, b \in Nat : a = Len(slots') /\ b = Len(slots)
      BY <2>3
    <3>2. 1..a = 1..b
      BY <2>1, <2>3, <3>1
    <3>3. a = b
      BY ONLY <3>2, a \in Nat, b \in Nat
    <3>. QED
      BY <3>1, <3>3
  <2>5. \A i : i \notin Span(q, op.name) => i # op.locs[op.i]
    BY <1>6
  <2>. QED
    BY <2>1, <2>4, <2>5
<1>9. /\ IsView(Visible') /\ Len(Visible') = Len(Visible)
      /\ \A i \in DOMAIN Visible' : i \in DOMAIN slots /\ Visible'[i] = Sight(slots', o, i)
  <2>1. Reach(slots', length') = Reach(slots, length)
    BY <1>1, <1>8 DEF Reach
  <2>. QED
    BY <1>1, <1>2, <1>5, <1>8, <2>1, ViewsNext
<1>10. DOMAIN Visible' = DOMAIN Visible
  BY <1>5, <1>9 DEF IsView
<1>11. ASSUME NEW i \in DOMAIN Visible PROVE Visible'[i] = Visible[i]
  <2>1. /\ i \in Span(q, op.name) => Sight(slots, op, i) = GoneSlot
        /\ i \notin Span(q, op.name) => Sight(slots, op, i) = slots[i]
    BY <1>1, <1>4, <1>6, SightPlacing
  <2>2. /\ i \in Span(q, op.name) => Sight(slots', o, i) = GoneSlot
        /\ i \notin Span(q, op.name) => Sight(slots', o, i) = slots'[i]
    <3>1. o.pc \in {"write", "seal"} /\ o.locs = Run(q, op.name) /\ q \in Nat /\ op.name \in Names
      BY <1>1, <1>3, <1>4, <1>6
    <3>. QED
      BY ONLY <3>1, SightPlacing
  <2>. QED
    BY <1>5, <1>8, <1>9, <1>10, <2>1, <2>2
<1>12. Forgets /\ Writing /\ OneCluster'
  BY <1>1, <1>2, <1>3 DEF Forgets, Writing, FormInv, OneCluster
<1>. QED
  BY <1>2, <1>3, <1>4, <1>9, <1>10, <1>11, <1>12, FormWriting

(* The checksum makes the set.                                             *)
LEMMA SetSealed ==
    ASSUME TypeInv, TypeInv', SetInv, FormInv, SealNewSet
    PROVE  /\ op.pc = "seal" /\ op.kind \in {"create", "rename"} /\ op.stream \in Given /\ op.name \in Names
           /\ Absent(Visible, op.name)
           /\ DOMAIN slots' = DOMAIN slots /\ Len(slots') = Len(slots) /\ length' = length
           /\ DOMAIN Visible' = DOMAIN Visible /\ Len(Visible') = Len(Visible)
           /\ IsView(Visible) /\ IsView(Visible')
           /\ \A i \in DOMAIN Visible : Visible[i] = Sight(slots, op, i) /\ Visible'[i] = Sight(slots', op', i)
           /\ \E q \in DOMAIN Visible :
                /\ q \in Nat /\ op.locs = Run(q, op.name) /\ q + SetSize(op.name) - 1 <= Len(Visible)
                /\ \A k \in 1..SetSize(op.name) : slots'[q + k - 1] = SealedSet(op.name, op.stream)[k]
                /\ \A i \in DOMAIN slots : i \notin Span(q, op.name) => slots'[i] = slots[i]
<1>1. /\ length' = length /\ op.pc = "seal" /\ DeviceOK /\ DeviceOK' /\ op \in OpType
      /\ slots \in Seq(Slot) /\ op.name \in Names
      /\ slots' = [slots EXCEPT ![op.locs[1]].sum = Checksum(NewSet(op.name, op.stream))]
  BY DEF SealNewSet, At, TypeInv, OpOK, DeviceOK
<1>2. PICK q \in DOMAIN Visible : op.locs = Run(q, op.name) /\ q + SetSize(op.name) - 1 <= Len(Visible)
  BY <1>1 DEF FormInv, NewForm, Placing, Room
<1>3. /\ IsView(Visible) /\ Len(Visible) = Reach(slots, length) /\ Len(Visible) <= Len(slots)
      /\ \A i \in DOMAIN Visible : i \in DOMAIN slots /\ Visible[i] = Sight(slots, op, i)
      /\ DOMAIN slots = 1..Len(slots) /\ Len(slots) \in Nat
  BY <1>1, Views
<1>4. q \in Nat
  BY <1>3 DEF IsView
<1>. DEFINE n == op.name
            s == op.stream
            z == SetSize(n)
            c == Checksum(NewSet(n, s))
<1>5. /\ op.kind \in {"create", "rename"} /\ s \in Given /\ Absent(Visible, n)
      /\ \A k \in DOMAIN op.locs : slots[op.locs[k]] = NewSet(n, s)[k]
  BY <1>1 DEF FormInv, NewForm, Pending, Writing, SetInv, OldWhole, NewWhole, At
<1>6. z \in Nat \ {0, 1, 2} /\ DOMAIN op.locs = 1..z /\ op.locs[1] = q /\ \A k \in 1..z : op.locs[k] = q + k - 1
  BY <1>1, <1>2, <1>4, RunLocs
<1>7. /\ DOMAIN slots' = DOMAIN slots /\ slots'[q] = [slots[q] EXCEPT !.sum = c]
      /\ \A i \in DOMAIN slots : i # q => slots'[i] = slots[i]
  BY <1>1, <1>3, <1>6
<1>8. /\ SealedSet(n, s)[1] = Primary(z - 1, c) /\ NewSet(n, s)[1] = Primary(z - 1, <<>>)
      /\ \A k \in 2..z : SealedSet(n, s)[k] = NewSet(n, s)[k]
  BY <1>1, <1>5, SealedSlots
<1>9. ASSUME NEW k \in 1..z PROVE slots'[q + k - 1] = SealedSet(n, s)[k]
  <2>1. slots[q + k - 1] = NewSet(n, s)[k] /\ q + k - 1 \in DOMAIN slots
    <3>1. q + k - 1 \in 1..Len(slots)
      BY <1>2, <1>3, <1>4, <1>6
    <3>. QED
      BY <1>3, <1>5, <1>6, <3>1
  <2>2. CASE k = 1
    <3>1. q + k - 1 = q
      BY <1>4, <2>2
    <3>2. slots'[q] = [Primary(z - 1, <<>>) EXCEPT !.sum = c]
      BY <1>7, <1>8, <2>1, <2>2, <3>1
    <3>3. slots'[q] = Primary(z - 1, c)
      BY <3>2, SumReplaced
    <3>. QED
      BY <1>8, <2>2, <3>1, <3>3
  <2>3. CASE k # 1
    <3>1. k \in 2..z /\ q + k - 1 # q
      BY <1>4, <1>6, <2>3
    <3>. QED
      BY <1>7, <1>8, <2>1, <3>1
  <2>. QED
    BY <2>2, <2>3
<1>10. \A i \in DOMAIN slots : i \notin Span(q, n) => slots'[i] = slots[i]
  <2>1. q \in Span(q, n)
    BY <1>4, <1>6 DEF Span
  <2>. QED
    BY <1>7, <2>1
<1>11. Len(slots') = Len(slots)
  <2>1. slots' \in Seq(Slot)
    BY <1>1 DEF DeviceOK
  <2>2. DOMAIN slots' = 1..Len(slots') /\ Len(slots') \in Nat
    BY <2>1
  <2>. QED
    BY <1>3, <1>7, <2>2
<1>12. Reach(slots', length') = Reach(slots, length)
  BY <1>1, <1>11 DEF Reach
<1>13. /\ IsView(Visible') /\ Len(Visible') = Len(Visible) /\ \A i \in DOMAIN Visible' : Visible'[i] = Sight(slots', op', i)
  BY <1>1, <1>3, <1>12, ViewsNext
<1>14. DOMAIN Visible' = DOMAIN Visible
  BY <1>3, <1>13 DEF IsView
<1>. QED
  BY <1>1, <1>2, <1>3, <1>4, <1>5, <1>7, <1>9, <1>10, <1>11, <1>13, <1>14

LEMMA FormSealCreate ==
    ASSUME TypeInv, TypeInv', SetInv, FormInv, SealNewSet, op.kind # "rename"
    PROVE  /\ FormInv' /\ op.stream \in Given
           /\ \E q \in DOMAIN Visible' :
                /\ handle'[op.name] = Run(q, op.name) /\ Held(Visible', q, op.name, op.stream)
                /\ \A n \in Names, s \in Given : \A p :
                       Held(Visible', p, n, s) <=>
                           Held(Visible, p, n, s) \/ (p = q /\ n = op.name /\ s = op.stream)
<1>1. op' = Idle /\ handle' = [handle EXCEPT ![op.name] = op.locs] /\ handle \in [Names -> Locators]
  BY DEF SealNewSet, TypeInv, HandlesOK
<1>2. /\ op.pc = "seal" /\ op.stream \in Given /\ op.name \in Names /\ Absent(Visible, op.name)
      /\ length' = length
      /\ DOMAIN Visible' = DOMAIN Visible /\ Len(Visible') = Len(Visible) /\ IsView(Visible) /\ IsView(Visible')
      /\ \A i \in DOMAIN Visible : Visible[i] = Sight(slots, op, i) /\ Visible'[i] = Sight(slots', op', i)
      /\ DOMAIN Visible \subseteq DOMAIN slots
  BY SetSealed, Views DEF TypeInv
<1>3. PICK q \in DOMAIN Visible :
          /\ q \in Nat /\ op.locs = Run(q, op.name) /\ q + SetSize(op.name) - 1 <= Len(Visible)
          /\ \A k \in 1..SetSize(op.name) : slots'[q + k - 1] = SealedSet(op.name, op.stream)[k]
          /\ \A i \in DOMAIN slots : i \notin Span(q, op.name) => slots'[i] = slots[i]
  BY SetSealed
<1>4. PICK n \in Names, s \in Given : n = op.name /\ s = op.stream
  BY <1>2
<1>5. op'.pc = "idle" /\ op'.kind = "none" /\ op'.old = <<>>
  BY <1>1, IdleOK
<1>6. ASSUME NEW i \in DOMAIN Visible
      PROVE  /\ Visible'[i] = slots'[i]
             /\ i \in Span(q, n) => Empties(Visible[i])
             /\ i \notin Span(q, n) => Visible'[i] = Visible[i]
  <2>1. /\ i \in Span(q, n) => Sight(slots, op, i) = GoneSlot
        /\ i \notin Span(q, n) => Sight(slots, op, i) = slots[i]
    BY <1>2, <1>3, <1>4, SightPlacing
  <2>2. Sight(slots', op', i) = slots'[i]
    BY <1>5, SightPlain
  <2>. QED
    BY <1>2, <1>3, <1>4, <2>1, <2>2, GoneEmpty
<1>7. /\ SetSize(n) \in Nat \ {0, 1, 2}
      /\ \A k \in 1..SetSize(n) : q + k - 1 \in DOMAIN Visible
      /\ \A i \in Span(q, n) : i \in DOMAIN Visible
  <2>1. DOMAIN Visible = 1..Len(Visible) /\ Len(Visible) \in Nat
    BY <1>2 DEF IsView
  <2>2. PICK z \in Nat \ {0, 1, 2}, l \in Nat : z = SetSize(n) /\ l = Len(Visible)
    BY <2>1, Parameters
  <2>3. q + z - 1 <= l /\ q \in 1..l
    BY <1>3, <1>4, <2>1, <2>2
  <2>4. \A k \in 1..z : q + k - 1 \in 1..l
    BY <1>3, <2>3
  <2>5. \A i \in q..(q + z - 1) : i \in 1..l
    BY <1>3, <2>3
  <2>. QED
    BY <2>1, <2>2, <2>4, <2>5 DEF Span
<1>8. Held(Visible', q, n, s)
  BY <1>2, <1>3, <1>4, <1>6, <1>7 DEF Held
<1>9. Formed(Visible) /\ Once(Visible) /\ Absent(Visible, n) /\ HandlesHeld
  BY <1>2, <1>4 DEF FormInv, SetsHeld
<1>10. /\ Formed(Visible') /\ Once(Visible')
       /\ \A m \in Names, r \in Given : \A p :
              Held(Visible', p, m, r) <=> Held(Visible, p, m, r) \/ (p = q /\ m = n /\ r = s)
  <2>1. \A i \in DOMAIN Visible : Visible'[i] = Visible[i] \/ (i \in Span(q, n) /\ Empties(Visible[i]))
    BY <1>6
  <2>2. \A i \in Span(q, n) : Empties(Visible[i])
    BY <1>6, <1>7
  <2>3. PICK v, w : v = Visible /\ w = Visible'
    OBVIOUS
  <2>4. /\ IsView(v) /\ Formed(v) /\ IsView(w) /\ Len(w) = Len(v) /\ q \in DOMAIN w /\ Held(w, q, n, s)
        /\ \A i \in DOMAIN v : w[i] = v[i] \/ (i \in Span(q, n) /\ Empties(v[i]))
        /\ \A i \in Span(q, n) : Empties(v[i])
    BY <1>2, <1>8, <1>9, <2>1, <2>2, <2>3
  <2>5. /\ Formed(w)
        /\ \A m \in Names, r \in Given : \A p : Held(w, p, m, r) <=> Held(v, p, m, r) \/ (p = q /\ m = n /\ r = s)
        /\ Once(v) /\ Absent(v, n) => Once(w)
    BY ONLY <2>4, Appears, n \in Names, s \in Given
  <2>. QED
    BY <1>9, <2>3, <2>5
<1>11. HandlesHeld'
  <2>. SUFFICES ASSUME NEW m \in Names, handle'[m] # <<>>
                PROVE  \E p \in DOMAIN Visible', r \in Given : Held(Visible', p, m, r) /\ handle'[m] = Run(p, m)
    BY DEF HandlesHeld
  <2>1. CASE m = n
    BY <1>1, <1>2, <1>3, <1>4, <1>8, <2>1
  <2>2. CASE m # n
    <3>1. handle'[m] = handle[m]
      BY <1>1, <1>4, <2>2
    <3>2. PICK p \in DOMAIN Visible, r \in Given : Held(Visible, p, m, r) /\ handle[m] = Run(p, m)
      BY <1>9, <3>1 DEF HandlesHeld
    <3>. QED
      BY <1>2, <1>10, <3>1, <3>2
  <2>. QED
    BY <2>1, <2>2
<1>12. NewForm' /\ OldForm' /\ RetireForm' /\ OneCluster'
  BY <1>2, <1>5, OverForms DEF FormInv, OneCluster
<1>13. handle'[n] = Run(q, n)
  BY <1>1, <1>3, <1>4
<1>. QED
  BY <1>2, <1>4, <1>8, <1>10, <1>11, <1>12, <1>13 DEF FormInv, SetsHeld

(* rename has written the set, which is seen from its next write on.       *)
LEMMA FormSealRename ==
    ASSUME TypeInv, TypeInv', SetInv, FormInv, SealNewSet, op.kind = "rename"
    PROVE  FormInv' /\ Same(Visible, Visible')
<1>1. PICK o : o = op'
  OBVIOUS
<1>2. /\ op \in OpType /\ o = [op EXCEPT !.pc = "retire", !.i = 1] /\ handle' = handle
      /\ DeviceOK /\ DeviceOK' /\ SetsHeld /\ NewForm /\ OldForm
  BY <1>1 DEF SealNewSet, TypeInv, OpOK, FormInv
<1>3. /\ o.pc = "retire" /\ o.i = 1 /\ o.kind = "rename" /\ o.name = op.name /\ o.old = op.old
      /\ o.stream = op.stream /\ o.before = op.before /\ o.locs = op.locs
  BY ONLY <1>2, op.kind = "rename" DEF OpType
<1>4. /\ op.pc = "seal" /\ op.stream \in Given /\ op.name \in Names /\ Absent(Visible, op.name)
      /\ length' = length
      /\ DOMAIN Visible' = DOMAIN Visible /\ Len(Visible') = Len(Visible) /\ IsView(Visible) /\ IsView(Visible')
      /\ \A i \in DOMAIN Visible : Visible[i] = Sight(slots, op, i) /\ Visible'[i] = Sight(slots', o, i)
      /\ DOMAIN Visible \subseteq DOMAIN slots
  BY <1>1, <1>2, SetSealed, Views
<1>5. PICK q \in DOMAIN Visible :
          /\ q \in Nat /\ op.locs = Run(q, op.name) /\ q + SetSize(op.name) - 1 <= Len(Visible)
          /\ \A k \in 1..SetSize(op.name) : slots'[q + k - 1] = SealedSet(op.name, op.stream)[k]
          /\ \A i \in DOMAIN slots : i \notin Span(q, op.name) => slots'[i] = slots[i]
  BY SetSealed
<1>6. ASSUME NEW i \in DOMAIN Visible PROVE Visible'[i] = Visible[i]
  <2>1. /\ i \in Span(q, op.name) => Sight(slots, op, i) = GoneSlot
        /\ i \notin Span(q, op.name) => Sight(slots, op, i) = slots[i]
    <3>1. op.pc \in {"write", "seal"} /\ op.locs = Run(q, op.name) /\ q \in Nat /\ op.name \in Names
      BY <1>4, <1>5
    <3>. QED
      BY ONLY <3>1, SightPlacing
  <2>2. /\ i \in Span(q, op.name) => Sight(slots', o, i) = GoneSlot
        /\ i \notin Span(q, op.name) => Sight(slots', o, i) = slots'[i]
    <3>1. o.pc = "retire" /\ o.i = 1 /\ o.locs = Run(q, op.name) /\ q \in Nat /\ op.name \in Names
      BY <1>3, <1>4, <1>5
    <3>. QED
      BY ONLY <3>1, SightPlacing
  <2>. QED
    BY <1>4, <1>5, <2>1, <2>2
<1>7. SetsHeld' /\ Same(Visible, Visible')
  BY <1>2, <1>4, <1>6, Settling DEF Forgets
<1>8. Absent(Visible', op.name)
  BY <1>4, <1>7, AbsentStays
<1>9. NewForm'
  <2>1. Written(q)'
    BY <1>1, <1>3, <1>5 DEF Written
  <2>2. Room'
    BY <1>1, <1>3, <1>4, <1>5, <2>1 DEF Room
  <2>. QED
    BY <1>1, <1>3, <1>4, <1>8, <2>2 DEF NewForm, Placing, Pending, Writing, Retiring, At
<1>10. OldForm'
  <2>1. CASE o.old = <<>>
    BY <1>1, <2>1 DEF OldForm
  <2>2. CASE o.old # <<>>
    <3>1. PICK p \in DOMAIN Visible, n \in Names, s \in Given : OldIs(p, n, s)
      BY <1>2, <1>3, <1>4, <2>2 DEF OldForm, Retiring, At
    <3>2. Held(Visible', p, n, s) /\ p \in DOMAIN Visible'
      BY <1>4, <1>7, <3>1 DEF OldIs, Same
    <3>3. OldIs(p, n, s)' /\ ~Editing'
      BY <1>1, <1>3, <1>4, <3>1, <3>2 DEF OldIs, Editing
    <3>. QED
      BY <3>2, <3>3 DEF OldForm
  <2>. QED
    BY <2>1, <2>2
<1>11. RetireForm' /\ OneCluster'
  BY <1>1, <1>3, <1>4 DEF RetireForm, Retiring, At, FormInv, OneCluster
<1>. QED
  BY <1>7, <1>9, <1>10, <1>11 DEF FormInv

-----------------------------------------------------------------------------
(* Retiring a set.                                                         *)

LEMMA SameLength ==
    ASSUME NEW S, NEW a \in Seq(S), NEW b \in Seq(S), DOMAIN a = DOMAIN b
    PROVE  Len(a) = Len(b)
<1>1. PICK i \in Nat, j \in Nat : i = Len(a) /\ j = Len(b)
  OBVIOUS
<1>2. 1..i = 1..j
  BY <1>1
<1>3. i = j
  BY ONLY <1>2, i \in Nat, j \in Nat
<1>. QED
  BY <1>1, <1>3

LEMMA SlotUnused == ASSUME NEW s \in Slot PROVE [s EXCEPT !.used = FALSE].used = FALSE
<1>. DEFINE C == Contents
            B == BOOLEAN
            Q == Seq(C)
            S1 == [tag : {"end"}, used : {FALSE}]
            S2 == [tag : {"pad", "system"}, used : B]
            S3 == [tag : {"primary"}, used : B, secondaries : Nat, sum : {<<>>}]
            S4 == [tag : {"stream"}, used : B, len : Nat, stream : Stream]
            S5 == [tag : {"name"}, used : B, part : Parts]
            S6 == [tag : {"primary"}, used : B, secondaries : Nat, sum : Q]
<1>1. s \in S1 \/ s \in S2 \/ s \in S3 \/ s \in S4 \/ s \in S5 \/ s \in S6
  BY DEF Slot, Contents
<1>. HIDE DEF Q
<1>. QED
  BY <1>1

(* Each write takes one slot out of use.                                   *)
LEMMA SlotRetired ==
    ASSUME TypeInv, TypeInv', SetInv, FormInv, RetireSlot
    PROVE  /\ op.pc = "retire" /\ op.kind \in {"remove", "rename"} /\ op.name \in Names
           /\ op.i \in Nat \ {0} /\ Len(op.old) \in Nat /\ op.i \in DOMAIN op.old /\ DOMAIN op.old = 1..Len(op.old)
           /\ handle' = handle /\ length' = length /\ Apart(op.old)
           /\ Empties(slots'[op.old[op.i]])
           /\ \A i \in DOMAIN slots : i # op.old[op.i] => slots'[i] = slots[i]
           /\ IsView(Visible) /\ IsView(Visible')
           /\ DOMAIN Visible' = DOMAIN Visible /\ Len(Visible') = Len(Visible)
           /\ \A i \in DOMAIN Visible :
                  i \in DOMAIN slots /\ Visible[i] = Sight(slots, op, i) /\ Visible'[i] = slots'[i]
           /\ \/ op.i = Len(op.old) /\ op'.pc = "idle" /\ op'.kind = "none" /\ op'.old = <<>>
              \/ /\ op.i # Len(op.old) /\ op'.pc = "retire" /\ op'.i = op.i + 1 /\ op'.kind = op.kind
                 /\ op'.name = op.name /\ op'.old = op.old /\ op'.before = op.before /\ op'.locs = op.locs
                 /\ op'.stream = op.stream
<1>1. /\ slots \in Seq(Slot) /\ op \in OpType /\ op.pc = "retire" /\ op.i \in DOMAIN op.old
      /\ DeviceOK /\ DeviceOK' /\ slots' \in Seq(Slot) /\ op.name \in Names
      /\ handle' = handle /\ length' = length
  BY DEF TypeInv, DeviceOK, OpOK, RetireSlot, At
<1>2. PICK l \in Seq(DOMAIN slots) : l = op.old
  BY <1>1 DEF OpType, Locators
<1>3. PICK j \in DOMAIN l : j = op.i
  BY <1>1, <1>2
<1>4. l[j] \in DOMAIN slots /\ DOMAIN l = 1..Len(l) /\ Len(l) \in Nat /\ j \in Nat \ {0}
  OBVIOUS
<1>5. PICK x \in Slot : x = slots[l[j]]
  BY <1>1, <1>4
<1>6. slots' = [slots EXCEPT ![l[j]] = [x EXCEPT !.used = FALSE]]
  BY <1>2, <1>3, <1>5 DEF RetireSlot, Retired
<1>7. /\ DOMAIN slots' = DOMAIN slots /\ slots'[l[j]] = [x EXCEPT !.used = FALSE]
      /\ \A i \in DOMAIN slots : i # l[j] => slots'[i] = slots[i]
  BY <1>4, <1>6
<1>8. Empties(slots'[l[j]])
  <2>1. [x EXCEPT !.used = FALSE].used = FALSE
    BY SlotUnused
  <2>. QED
    BY <1>7, <2>1 DEF Empties
<1>9. Len(slots') = Len(slots)
  BY <1>1, <1>7, SameLength
<1>10. PICK o : o = op'
  OBVIOUS
<1>11. \/ j = Len(l) /\ o.pc = "idle" /\ o.kind = "none" /\ o.old = <<>>
       \/ /\ j # Len(l) /\ o.pc = "retire" /\ o.i = j + 1 /\ o.kind = op.kind
          /\ o.name = op.name /\ o.old = op.old /\ o.before = op.before /\ o.locs = op.locs
          /\ o.stream = op.stream
  <2>1. o = IF j = Len(l) THEN Idle ELSE [op EXCEPT !.i = j + 1]
    BY <1>2, <1>3, <1>10 DEF RetireSlot, AfterRetire
  <2>2. CASE j = Len(l)
    BY <2>1, <2>2, IdleOK
  <2>3. CASE j # Len(l)
    BY ONLY <1>1, <2>1, <2>3 DEF OpType
  <2>. QED
    BY <2>2, <2>3
<1>12. Reach(slots', length') = Reach(slots, length)
  BY <1>1, <1>9 DEF Reach
<1>13. /\ IsView(Visible) /\ Len(Visible) = Reach(slots, length)
       /\ \A i \in DOMAIN Visible : i \in DOMAIN slots /\ Visible[i] = Sight(slots, op, i)
  BY <1>1, Views
<1>14. /\ IsView(Visible') /\ Len(Visible') = Len(Visible) /\ \A i \in DOMAIN Visible' : Visible'[i] = Sight(slots', o, i)
  BY <1>1, <1>10, <1>12, <1>13, ViewsNext
<1>15. DOMAIN Visible' = DOMAIN Visible
  BY <1>13, <1>14 DEF IsView
<1>16. \A i : Sight(slots', o, i) = slots'[i]
  <2>1. j + 1 # 1
    BY <1>4
  <2>2. o.pc = "idle" \/ (o.pc = "retire" /\ o.i # 1)
    BY <1>11, <2>1
  <2>. QED
    BY <2>2, SightPlain
<1>17. op.kind \in {"remove", "rename"} /\ Apart(op.old)
  BY <1>1 DEF SetInv, OldWhole
<1>. QED
  BY <1>1, <1>2, <1>3, <1>4, <1>7, <1>8, <1>10, <1>11, <1>13, <1>14, <1>15, <1>16, <1>17

(* All but the first were in no set.                                       *)
LEMMA FormRetireRest ==
    ASSUME TypeInv, TypeInv', SetInv, FormInv, RetireSlot, op.i # 1
    PROVE  FormInv' /\ Same(Visible, Visible')
<1>1. PICK o : o = op'
  OBVIOUS
<1>2. PICK v, w : v = Visible /\ w = Visible'
  OBVIOUS
<1>3. /\ op.pc = "retire" /\ op.name \in Names /\ Retiring /\ op.i \in Nat \ {0} /\ Len(op.old) \in Nat
      /\ handle' = handle /\ length' = length /\ op.i \in DOMAIN op.old /\ DOMAIN op.old = 1..Len(op.old)
      /\ IsView(v) /\ IsView(w) /\ DOMAIN w = DOMAIN v /\ Len(w) = Len(v)
      /\ SetsHeld /\ Formed(v) /\ Once(v)
  BY <1>2, SlotRetired DEF Retiring, At, FormInv, SetsHeld
<1>4. \A k \in DOMAIN op.old : k >= op.i => op.old[k] \in DOMAIN v /\ Loose(v, op.old[k])
  BY <1>2, <1>3 DEF FormInv, RetireForm
<1>5. op.kind = "rename" => \E q \in DOMAIN v, s \in Given : s = op.before[2].stream /\ Held(v, q, op.name, Relocated(s))
  BY <1>2, <1>3 DEF FormInv, RetireForm
<1>6. op.old[op.i] \in DOMAIN v /\ Loose(v, op.old[op.i])
  BY <1>3, <1>4
<1>7. \A i \in DOMAIN v : w[i] = v[i] \/ (i = op.old[op.i] /\ Empties(w[i]))
  <2>1. \A i : Sight(slots, op, i) = slots[i]
    BY <1>3, SightPlain DEF Retiring
  <2>. QED
    BY <1>2, <2>1, SlotRetired
<1>8. Same(v, w) /\ Formed(w) /\ Once(w)
  <2>1. \A i \in DOMAIN w : (i \in DOMAIN v /\ w[i] = v[i]) \/ Empties(w[i])
    BY <1>3, <1>7
  <2>2. \A i \in DOMAIN v : (i \in DOMAIN w /\ w[i] = v[i]) \/ Loose(v, i)
    BY <1>3, <1>6, <1>7
  <2>. QED
    BY ONLY <1>3, <2>1, <2>2, Loosened
<1>9. SetsHeld'
  BY <1>2, <1>3, <1>8, SetsStay DEF Forgets
<1>10. OneCluster'
  BY <1>1, <1>3, SlotRetired DEF FormInv, OneCluster
<1>11. CASE op.i = Len(op.old)
  <2>1. NewForm' /\ OldForm' /\ RetireForm'
    BY <1>11, SlotRetired, OverForms
  <2>. QED
    BY <1>2, <1>8, <1>9, <1>10, <2>1 DEF FormInv
<1>12. CASE op.i # Len(op.old)
  <2>1. /\ o.pc = "retire" /\ o.i = op.i + 1 /\ o.i # 1 /\ o.kind = op.kind /\ o.name = op.name
        /\ o.old = op.old /\ o.before = op.before /\ o.locs = op.locs
    BY <1>1, <1>3, <1>12, SlotRetired
  <2>2. NewForm' /\ OldForm'
    BY <1>1, <1>3, <2>1 DEF NewForm, OldForm, Writing, Placing, Pending, Retiring, At, FormInv
  <2>3. ASSUME NEW k \in DOMAIN op.old, k >= op.i + 1
        PROVE  op.old[k] \in DOMAIN w /\ Loose(w, op.old[k])
    <3>1. k >= op.i
      BY <1>3, <2>3
    <3>2. op.old[k] \in DOMAIN v /\ Loose(v, op.old[k])
      BY <1>4, <3>1
    <3>3. ~Starts(w[op.old[k]])
      BY <1>7, <3>2 DEF Loose, Empties, Starts
    <3>. QED
      BY <1>3, <1>8, <3>2, <3>3 DEF Loose, Same
  <2>4. op.kind = "rename" => \E q \in DOMAIN w, s \in Given : s = op.before[2].stream /\ Held(w, q, op.name, Relocated(s))
    <3>1. SUFFICES ASSUME op.kind = "rename" PROVE \E q \in DOMAIN w, s \in Given : s = op.before[2].stream /\ Held(w, q, op.name, Relocated(s))
      OBVIOUS
    <3>2. PICK q \in DOMAIN v, s \in Given : s = op.before[2].stream /\ Held(v, q, op.name, Relocated(s))
      BY <1>5, <3>1
    <3>. QED
      BY <1>3, <1>8, <3>2, GivenStreams DEF Same
  <2>5. RetireForm'
    BY <1>1, <1>2, <2>1, <2>3, <2>4 DEF RetireForm
  <2>. QED
    BY <1>2, <1>8, <1>9, <1>10, <2>2, <2>5 DEF FormInv
<1>. QED
  BY <1>11, <1>12

(* What a listing shows when one set has gone, or another is in its place. *)
OnlyGone(v, w, p) == \A n \in Names, s \in Given : \A x : Held(w, x, n, s) <=> Held(v, x, n, s) /\ x # p
Replaced(v, w, p, q, m, r) ==
    \A n \in Names, s \in Given : \A x :
        Held(w, x, n, s) <=> (Held(v, x, n, s) /\ x # p) \/ (x = q /\ n = m /\ s = r)

(* The first write of a removal, *)
LEMMA SetRemoved ==
    ASSUME NEW v, IsView(v), Formed(v), Once(v), NEW w, IsView(w), Len(w) = Len(v),
           NEW p \in DOMAIN v, NEW n \in Names, NEW s \in Given, Held(v, p, n, s), Empties(w[p]),
           \A i \in DOMAIN v : i # p => w[i] = v[i]
    PROVE  Formed(w) /\ Once(w) /\ OnlyGone(v, w, p) /\ Absent(w, n)
<1>1. p \in Span(p, n)
  BY HeldSlots DEF Span
<1>2. \A i \in DOMAIN v : w[i] = v[i] \/ (i \in Span(p, n) /\ Empties(w[i]))
  BY <1>1
<1>. QED
  BY <1>2, Vanishes DEF OnlyGone

(* and of the second half of a rename.                                     *)
LEMMA SetReplaced ==
    ASSUME NEW v, IsView(v), Formed(v), Once(v), NEW w, IsView(w), Len(w) = Len(v),
           NEW p \in DOMAIN v, NEW n \in Names, NEW s \in Given, Held(v, p, n, s), Empties(w[p]),
           NEW q \in DOMAIN w, NEW m \in Names, NEW r \in Given, Held(w, q, m, r), p \notin Span(q, m),
           \A i \in Span(q, m) : i \in DOMAIN v => Empties(v[i]),
           \A i \in DOMAIN v : i # p => w[i] = v[i] \/ i \in Span(q, m),
           Absent(v, m)
    PROVE  Formed(w) /\ Once(w) /\ Replaced(v, w, p, q, m, r)
<1>1. PICK u : u = [i \in 1..Len(v) |-> IF i = p THEN w[p] ELSE v[i]]
  OBVIOUS
<1>2. /\ IsView(u) /\ Len(u) = Len(v) /\ u[p] = w[p] /\ DOMAIN u = DOMAIN v
      /\ \A i \in DOMAIN v : i # p => u[i] = v[i]
  BY <1>1 DEF IsView
<1>3. Formed(u) /\ Once(u) /\ OnlyGone(v, u, p)
  <2>1. Empties(u[p])
    BY <1>2
  <2>. QED
    BY <1>2, <2>1, SetRemoved
<1>4. Absent(u, m)
  <2>. SUFFICES ASSUME NEW x \in DOMAIN u, NEW t \in Given PROVE ~Held(u, x, m, t)
    BY DEF Absent
  <2>1. ~Held(v, x, m, t)
    BY <1>2 DEF Absent
  <2>. QED
    BY <1>3, <2>1 DEF OnlyGone
<1>5. \A i \in Span(q, m) : i \in DOMAIN w /\ i \in DOMAIN u
  BY <1>2, HeldSlots DEF IsView
<1>6. \A i \in Span(q, m) : Empties(u[i])
  BY <1>2, <1>5
<1>7. \A i \in DOMAIN u : w[i] = u[i] \/ (i \in Span(q, m) /\ Empties(u[i]))
  BY <1>2, <1>6
<1>8. /\ Formed(w) /\ Once(w)
      /\ \A k \in Names, t \in Given : \A x :
             Held(w, x, k, t) <=> Held(u, x, k, t) \/ (x = q /\ k = m /\ t = r)
  <2>1. IsView(u) /\ Formed(u) /\ Len(w) = Len(u) /\ Once(u) /\ Absent(u, m)
    BY <1>2, <1>3, <1>4
  <2>. QED
    BY <2>1, <1>6, <1>7, Appears
<1>. QED
  BY <1>3, <1>8 DEF OnlyGone, Replaced

(* A File whose set is not the one that goes keeps it.                     *)
LEMMA HandlesStayHeld ==
    ASSUME SetsHeld, handle' = handle, NEW p \in DOMAIN Visible, NEW n \in Names, op.old = Run(p, n), Apart(op.old),
           IsView(Visible), DOMAIN Visible' = DOMAIN Visible,
           \A m \in Names, s \in Given : \A x : Held(Visible, x, m, s) /\ x # p => Held(Visible', x, m, s)
    PROVE  HandlesHeld'
<1>1. p \in Nat
  BY DEF IsView
<1>. SUFFICES ASSUME NEW m \in Names, handle'[m] # <<>>
              PROVE  \E x \in DOMAIN Visible', s \in Given : Held(Visible', x, m, s) /\ handle'[m] = Run(x, m)
  BY DEF HandlesHeld
<1>2. PICK x \in DOMAIN Visible, s \in Given : Held(Visible, x, m, s) /\ handle[m] = Run(x, m)
  BY DEF SetsHeld, HandlesHeld
<1>3. x \in Nat
  BY DEF IsView
<1>4. x # p
  <2>1. 1 \in DOMAIN op.old /\ op.old[1] = p
    <3>1. SetSize(n) \in Nat \ {0, 1, 2} /\ DOMAIN op.old = 1..SetSize(n) /\ op.old[1] = p
      BY <1>1, RunLocs
    <3>. QED
      BY <3>1
  <2>2. 1 \in DOMAIN handle[m] /\ handle[m][1] = x
    <3>1. SetSize(m) \in Nat \ {0, 1, 2} /\ DOMAIN handle[m] = 1..SetSize(m) /\ handle[m][1] = x
      BY <1>2, <1>3, RunLocs
    <3>. QED
      BY <3>1
  <2>. QED
    BY <2>1, <2>2 DEF Apart
<1>. QED
  BY <1>2, <1>4

LEMMA FormRetireFirst ==
    ASSUME TypeInv, TypeInv', SetInv, FormInv, RetireSlot, op.i = 1
    PROVE  /\ FormInv'
           /\ \E p \in DOMAIN Visible, n \in Names, s \in Given :
                /\ OldIs(p, n, s)
                /\ op.kind = "remove" => OnlyGone(Visible, Visible', p)
                /\ op.kind = "rename" =>
                     \E q \in DOMAIN Visible : Replaced(Visible, Visible', p, q, op.name, op.stream)
<1>1. PICK o : o = op'
  OBVIOUS
<1>2. PICK v, w : v = Visible /\ w = Visible'
  OBVIOUS
<1>3. /\ op.pc = "retire" /\ op.kind \in {"remove", "rename"} /\ op.name \in Names /\ ~Retiring
      /\ handle' = handle /\ length' = length /\ op.i \in DOMAIN op.old /\ DOMAIN op.old = 1..Len(op.old)
      /\ IsView(v) /\ IsView(w) /\ DOMAIN w = DOMAIN v /\ Len(w) = Len(v) /\ Apart(op.old)
      /\ SetsHeld /\ Formed(v) /\ Once(v) /\ NewForm /\ OldForm
      /\ \A i \in DOMAIN v : i \in DOMAIN slots /\ v[i] = Sight(slots, op, i) /\ w[i] = slots'[i]
  BY <1>2, SlotRetired DEF Retiring, At, FormInv, SetsHeld
<1>4. op.old # <<>>
  BY <1>3
<1>5. PICK p \in DOMAIN v, n \in Names, s \in Given : OldIs(p, n, s)
  BY <1>2, <1>3, <1>4 DEF OldForm
<1>6. /\ Held(v, p, n, s) /\ op.old = Run(p, n) /\ op.before = SealedSet(n, s)
      /\ op.kind = "rename" => op.stream = Relocated(s)
  BY <1>2, <1>3, <1>5 DEF OldIs, Editing
<1>7. /\ p \in Nat /\ SetSize(n) \in Nat \ {0, 1, 2} /\ DOMAIN op.old = 1..SetSize(n) /\ op.old[1] = p
      /\ Len(op.old) = SetSize(n) /\ \A k \in 1..SetSize(n) : op.old[k] = p + k - 1
  <2>1. p \in Nat
    BY <1>3 DEF IsView
  <2>2. Len(Run(p, n)) = SetSize(n)
    BY <2>1, RunIs
  <2>. QED
    BY <1>6, <2>1, <2>2, RunLocs
<1>8. Empties(w[p]) /\ \A i \in DOMAIN v : i # p => w[i] = slots[i]
  <2>1. Empties(slots'[p]) /\ \A i \in DOMAIN slots : i # p => slots'[i] = slots[i]
    BY <1>7, SlotRetired
  <2>. QED
    BY <1>3, <2>1
<1>9. /\ o.pc = "retire" /\ o.i = 2 /\ o.kind = op.kind /\ o.name = op.name
      /\ o.old = op.old /\ o.before = op.before /\ o.locs = op.locs
  <2>1. op.i # Len(op.old) /\ 1 + 1 = 2
    BY <1>7
  <2>. QED
    BY <1>1, <2>1, SlotRetired
<1>10. ASSUME op.kind = "remove"
       PROVE  Formed(w) /\ Once(w) /\ OnlyGone(v, w, p)
  <2>1. \A i : Sight(slots, op, i) = slots[i]
    <3>1. op.locs = <<>>
      BY <1>3, <1>10 DEF NewForm, At
    <3>. QED
      BY <1>3, <3>1, SightPlain
  <2>2. \A i \in DOMAIN v : i # p => w[i] = v[i]
    BY <1>3, <1>8, <2>1
  <2>. QED
    BY <1>3, <1>6, <1>8, <2>2, SetRemoved
<1>11. ASSUME op.kind = "rename"
       PROVE  \E q \in DOMAIN v :
                /\ Formed(w) /\ Once(w) /\ Replaced(v, w, p, q, op.name, op.stream)
                /\ q \in Nat /\ op.stream \in Given
                /\ \A i \in Span(q, op.name) : i \in DOMAIN v /\ ~v[i].used
  <2>1. Placing /\ Pending
    BY <1>3, <1>11 DEF Placing, Pending, At
  <2>2. PICK q \in DOMAIN v : op.locs = Run(q, op.name) /\ q + SetSize(op.name) - 1 <= Len(v) /\ Written(q)
    BY <1>2, <1>3, <2>1 DEF NewForm, Room, At
  <2>3. PICK m \in Names, r \in Given : m = op.name /\ r = op.stream
    BY <1>3, <2>1 DEF NewForm
  <2>4. Absent(v, m)
    BY <1>2, <1>3, <2>1, <2>3 DEF NewForm
  <2>5. q \in Nat
    BY <1>3 DEF IsView
  <2>6. \A i \in DOMAIN v : /\ i \in Span(q, m) => v[i] = GoneSlot
                            /\ i \notin Span(q, m) => v[i] = slots[i]
    <3>1. op.pc = "retire" /\ op.i = 1 /\ op.locs = Run(q, m)
      BY <1>3, <2>2, <2>3
    <3>2. ASSUME NEW i
          PROVE  /\ i \in Span(q, m) => Sight(slots, op, i) = GoneSlot
                 /\ i \notin Span(q, m) => Sight(slots, op, i) = slots[i]
      BY ONLY <2>5, <3>1, m \in Names, SightPlacing
    <3>. QED
      BY <1>3, <3>2
  <2>7. p \notin Span(q, m)
    <3>1. v[p].used
      BY <1>3, <1>6, HeldSlots DEF Starts
    <3>2. ~GoneSlot.used
      BY DEF GoneSlot
    <3>. QED
      BY <2>6, <3>1, <3>2
  <2>8. /\ SetSize(m) \in Nat \ {0, 1, 2}
        /\ \A k \in 1..SetSize(m) : q + k - 1 \in DOMAIN v /\ q + k - 1 \in Span(q, m)
        /\ \A i \in Span(q, m) : i \in DOMAIN v
    <3>1. DOMAIN v = 1..Len(v) /\ Len(v) \in Nat
      BY <1>3 DEF IsView
    <3>2. PICK z \in Nat \ {0, 1, 2}, l \in Nat : z = SetSize(m) /\ l = Len(v)
      BY <3>1, Parameters
    <3>3. q + z - 1 <= l /\ q \in 1..l
      BY <2>2, <2>3, <3>1, <3>2
    <3>4. \A k \in 1..z : q + k - 1 \in 1..l /\ q + k - 1 \in q..(q + z - 1)
      BY <2>5, <3>3
    <3>5. \A i \in q..(q + z - 1) : i \in 1..l
      BY <2>5, <3>3
    <3>. QED
      BY <3>1, <3>2, <3>4, <3>5 DEF Span
  <2>9. Held(w, q, m, r)
    <3>1. ASSUME NEW k \in 1..SetSize(m) PROVE w[q + k - 1] = SealedSet(m, r)[k]
      <4>1. q + k - 1 \in DOMAIN v /\ q + k - 1 # p
        BY <2>7, <2>8
      <4>2. slots[q + k - 1] = SealedSet(m, r)[k]
        BY <2>2, <2>3 DEF Written
      <4>. QED
        BY <1>8, <4>1, <4>2
    <3>. QED
      BY <1>3, <2>2, <2>3, <3>1 DEF Held
  <2>10. \A i \in Span(q, m) : i \in DOMAIN v => Empties(v[i])
    BY <2>6, GoneEmpty
  <2>11. \A i \in DOMAIN v : i # p => w[i] = v[i] \/ i \in Span(q, m)
    BY <1>8, <2>6
  <2>12. Formed(w) /\ Once(w) /\ Replaced(v, w, p, q, m, r)
    BY ONLY <1>3, <1>6, <1>8, <2>4, <2>7, <2>9, <2>10, <2>11, SetReplaced, q \in DOMAIN v, p \in DOMAIN v,
            n \in Names, s \in Given, m \in Names, r \in Given
  <2>13. \A i \in Span(q, m) : i \in DOMAIN v /\ ~v[i].used
    BY <2>6, <2>8 DEF GoneSlot
  <2>. QED
    BY <2>3, <2>5, <2>12, <2>13
<1>12. Formed(w) /\ Once(w)
  BY <1>3, <1>10, <1>11
<1>13. \A m \in Names, r \in Given : \A x : Held(v, x, m, r) /\ x # p => Held(w, x, m, r)
  BY <1>3, <1>10, <1>11 DEF OnlyGone, Replaced
<1>14. SetsHeld'
  <2>1. HandlesHeld'
    BY <1>2, <1>3, <1>6, <1>13, HandlesStayHeld
  <2>. QED
    BY <1>2, <1>12, <2>1 DEF SetsHeld
<1>15. NewForm' /\ OldForm' /\ OneCluster'
  BY <1>1, <1>3, <1>9 DEF NewForm, OldForm, Writing, Placing, Pending, Retiring, At, FormInv, OneCluster
<1>16. ASSUME NEW k \in DOMAIN op.old, k >= 2
       PROVE  op.old[k] \in DOMAIN w /\ Loose(w, op.old[k])
  <2>1. PICK j \in Nat : j = p + k - 1 /\ j = op.old[k] /\ j \in Span(p, n) /\ j # p
    BY <1>7, <1>16 DEF Span
  <2>2. j \in DOMAIN v /\ v[j].used /\ (Starts(v[j]) => j = p)
    <3>1. IsView(v) /\ Held(v, p, n, s) /\ j \in Span(p, n)
      BY <1>3, <1>6, <2>1
    <3>. QED
      BY ONLY <3>1, SlotHeld, p \in DOMAIN v, n \in Names, s \in Given
  <2>3. w[j] = v[j]
    <3>1. w[j] = slots[j]
      BY <1>8, <2>1, <2>2
    <3>2. v[j] = Sight(slots, op, j)
      BY <1>3, <2>2
    <3>3. Sight(slots, op, j) = slots[j] \/ Sight(slots, op, j) = GoneSlot
      BY <1>3 DEF Sight
    <3>. QED
      BY <2>2, <3>1, <3>2, <3>3 DEF GoneSlot
  <2>4. ASSUME NEW x \in DOMAIN w, NEW m \in Names, NEW r \in Given, Held(w, x, m, r), j \in Span(x, m)
        PROVE  FALSE
    <3>1. CASE Held(v, x, m, r) /\ x # p
      <4>1. x \in DOMAIN v
        BY <1>3
      <4>2. /\ IsView(v) /\ p \in DOMAIN v /\ Held(v, p, n, s) /\ x \in DOMAIN v /\ Held(v, x, m, r)
            /\ j \in Span(p, n) /\ j \in Span(x, m)
        BY <1>3, <1>6, <2>1, <2>4, <3>1, <4>1
      <4>3. p = x
        BY ONLY <4>2, HeldApart, n \in Names, s \in Given, m \in Names, r \in Given
      <4>. QED
        BY <3>1, <4>3
    <3>2. CASE ~(Held(v, x, m, r) /\ x # p)
      <4>1. op.kind = "rename"
        BY <1>3, <1>10, <2>4, <3>2 DEF OnlyGone
      <4>2. PICK q \in DOMAIN v : /\ Replaced(v, w, p, q, op.name, op.stream)
                                  /\ \A i \in Span(q, op.name) : i \in DOMAIN v /\ ~v[i].used
        BY <1>11, <4>1
      <4>3. x = q /\ m = op.name
        BY <2>4, <3>2, <4>2 DEF Replaced
      <4>. QED
        BY <2>2, <2>4, <4>2, <4>3
    <3>. QED
      BY <3>1, <3>2
  <2>. QED
    BY <1>3, <2>1, <2>2, <2>3, <2>4 DEF Loose
<1>17. op.kind = "rename" =>
           \E q \in DOMAIN w, t \in Given : t = op.before[2].stream /\ Held(w, q, op.name, Relocated(t))
  <2>. SUFFICES ASSUME op.kind = "rename"
                PROVE  \E q \in DOMAIN w, t \in Given : t = op.before[2].stream /\ Held(w, q, op.name, Relocated(t))
    OBVIOUS
  <2>1. PICK q \in DOMAIN v : Replaced(v, w, p, q, op.name, op.stream) /\ op.stream \in Given
    BY <1>11
  <2>2. Held(w, q, op.name, op.stream)
    BY <1>3, <2>1 DEF Replaced
  <2>3. op.before[2].stream = s
    <3>1. SealedSet(n, s)[2] = StreamSlot(Units[n], s)
      BY SealedSlots
    <3>. QED
      BY ONLY <1>6, <3>1 DEF StreamSlot
  <2>. QED
    BY <1>3, <1>6, <2>2, <2>3
<1>18. RetireForm'
  BY <1>1, <1>2, <1>9, <1>16, <1>17 DEF RetireForm
<1>19. FormInv'
  BY <1>14, <1>15, <1>18 DEF FormInv
<1>. QED
  BY <1>2, <1>3, <1>5, <1>10, <1>11, <1>19

-----------------------------------------------------------------------------
(* Editing a set in place.                                                 *)

LEMMA StreamEdited ==
    ASSUME NEW a, NEW x, NEW b
    PROVE  /\ [StreamSlot(a, x) EXCEPT !.len = b] = StreamSlot(b, x)
           /\ [StreamSlot(a, x) EXCEPT !.stream = b] = StreamSlot(a, b)
<1>. DEFINE R == [tag : {"stream"}, used : BOOLEAN, len : {a, b}, stream : {x, b}]
            c == StreamSlot(a, x)
            d == StreamSlot(b, x)
            e == StreamSlot(a, b)
<1>1. c \in R /\ c.tag = "stream" /\ c.used = TRUE /\ c.len = a /\ c.stream = x
  BY DEF StreamSlot
<1>2. d \in R /\ d.tag = "stream" /\ d.used = TRUE /\ d.len = b /\ d.stream = x
  BY DEF StreamSlot
<1>3. e \in R /\ e.tag = "stream" /\ e.used = TRUE /\ e.len = a /\ e.stream = b
  BY DEF StreamSlot
<1>. HIDE DEF c, d, e
<1>4. [c EXCEPT !.len = b] = d
  BY <1>1, <1>2
<1>5. [c EXCEPT !.stream = b] = e
  BY <1>1, <1>3
<1>. QED
  BY <1>4, <1>5 DEF c, d, e

(* What is seen of the set is what it was.                                 *)
LEMMA EditUnseen ==
    ASSUME DeviceOK, DeviceOK', op.pc \in {"restream", "rename", "stream", "reseal"}, length' = length,
           DOMAIN slots' = DOMAIN slots,
           NEW o, o = op', o.pc \in {"rename", "reseal"}, o.old = op.old, o.before = op.before,
           NEW p \in DOMAIN Visible, NEW n \in Names, NEW s \in Given, OldIs(p, n, s),
           \A i \in DOMAIN slots : i \notin Span(p, n) => slots'[i] = slots[i]
    PROVE  /\ DOMAIN Visible' = DOMAIN Visible /\ IsView(Visible) /\ IsView(Visible')
           /\ \A i \in DOMAIN Visible : Visible'[i] = Visible[i]
<1>1. PICK v, w : v = Visible /\ w = Visible'
  OBVIOUS
<1>2. /\ IsView(v) /\ Len(v) = Reach(slots, length)
      /\ \A i \in DOMAIN v : i \in DOMAIN slots /\ v[i] = Sight(slots, op, i)
  BY <1>1, Views
<1>3. Len(slots') = Len(slots)
  BY SameLength DEF DeviceOK
<1>4. Reach(slots', length') = Reach(slots, length)
  BY <1>3 DEF Reach
<1>5. /\ IsView(w) /\ DOMAIN w = DOMAIN v
      /\ \A i \in DOMAIN w : w[i] = Sight(slots', o, i)
  BY <1>1, <1>2, <1>4, ViewsNext DEF IsView
<1>6. Held(v, p, n, s) /\ op.old = Run(p, n) /\ op.before = SealedSet(n, s) /\ p \in Nat /\ p \in DOMAIN v
  BY <1>1, <1>2 DEF OldIs, IsView
<1>7. ASSUME NEW i \in DOMAIN v PROVE w[i] = v[i]
  <2>1. /\ i \in Span(p, n) => Sight(slots', o, i) = SealedSet(n, s)[i - p + 1]
        /\ i \notin Span(p, n) => Sight(slots', o, i) = slots'[i]
    <3>1. o.pc \in {"rename", "stream", "reseal"} /\ o.old = Run(p, n) /\ o.before = SealedSet(n, s) /\ p \in Nat
      BY <1>6
    <3>. QED
      BY ONLY <3>1, SightEditing, n \in Names
  <2>2. i \in Span(p, n) => v[i] = SealedSet(n, s)[i - p + 1]
    BY <1>2, <1>6, HeldSlots
  <2>3. i \notin Span(p, n) => v[i] = slots[i]
    <3>1. CASE op.pc = "restream"
      BY <1>2, <3>1, SightPlain
    <3>2. CASE op.pc # "restream"
      <4>1. op.pc \in {"rename", "stream", "reseal"} /\ op.old = Run(p, n) /\ p \in Nat
        BY <1>6, <3>2
      <4>2. i \notin Span(p, n) => Sight(slots, op, i) = slots[i]
        BY ONLY <4>1, SightEditing, n \in Names
      <4>. QED
        BY <1>2, <4>2
    <3>. QED
      BY <3>1, <3>2
  <2>. QED
    BY <1>2, <1>5, <2>1, <2>2, <2>3
<1>. QED
  BY <1>1, <1>2, <1>5, <1>7

LEMMA FormEdit ==
    ASSUME TypeInv, TypeInv', FormInv, op.pc \in {"restream", "rename", "stream"},
           length' = length, handle' = handle, DOMAIN slots' = DOMAIN slots,
           NEW o, o = op', o.pc \in {"rename", "reseal"}, o.kind = op.kind, o.name = op.name, o.old = op.old,
           o.stream = op.stream, o.before = op.before, o.pc = "rename" => op.kind = "rename",
           NEW p \in DOMAIN Visible, NEW n \in Names, NEW s \in Given, OldIs(p, n, s), EditIs(p, n, s),
           \A i \in DOMAIN slots : i \notin Span(p, n) => slots'[i] = slots[i],
           \A k \in 1..SetSize(n) : slots'[p + k - 1] = Edited(n, s, k)'
    PROVE  FormInv' /\ Same(Visible, Visible')
<1>1. DeviceOK /\ DeviceOK' /\ SetsHeld /\ NewForm /\ op.name \in Names
  BY DEF TypeInv, FormInv, OpOK
<1>2. /\ DOMAIN Visible' = DOMAIN Visible /\ IsView(Visible) /\ IsView(Visible')
      /\ \A i \in DOMAIN Visible : Visible'[i] = Visible[i]
  BY <1>1, EditUnseen
<1>3. SetsHeld' /\ Same(Visible, Visible')
  BY <1>1, <1>2, Settling DEF Forgets
<1>4. Held(Visible', p, n, s) /\ p \in DOMAIN Visible'
  BY <1>2, <1>3 DEF OldIs, Same
<1>5. OldIs(p, n, s)' /\ Editing'
  BY <1>4 DEF OldIs, Editing
<1>6. EditIs(p, n, s)'
  BY DEF EditIs
<1>7. OldForm'
  BY <1>4, <1>5, <1>6 DEF OldForm
<1>8. op.kind = "rename" => Absent(Visible', op.name)
  <2>1. op.kind = "rename" => Absent(Visible, op.name)
    BY <1>1 DEF NewForm, Pending, Retiring, At
  <2>. QED
    BY <1>1, <1>3, <2>1, AbsentStays
<1>9. NewForm' /\ RetireForm' /\ OneCluster'
  BY <1>8 DEF NewForm, RetireForm, Writing, Placing, Pending, Retiring, At, FormInv, OneCluster
<1>. QED
  BY <1>3, <1>7, <1>9 DEF FormInv

(* The set an edit works on, and where its slots are.                      *)
LEMMA SetEdited ==
    ASSUME TypeInv, FormInv, op.pc \in {"restream", "rename", "stream", "reseal"}
    PROVE  \E p \in DOMAIN Visible, n \in Names, s \in Given :
             /\ OldIs(p, n, s) /\ EditIs(p, n, s) /\ p \in Nat
             /\ SetSize(n) \in Nat \ {0, 1, 2} /\ DOMAIN op.old = 1..SetSize(n) /\ Len(op.old) = SetSize(n)
             /\ op.old[1] = p /\ op.old[2] = p + 1
             /\ \A k \in 1..SetSize(n) : op.old[k] = p + k - 1 /\ op.old[k] \in Span(p, n) /\ op.old[k] \in DOMAIN slots
<1>1. op.old # <<>> /\ OldForm /\ Editing /\ ~Retiring /\ op.old \in Locators /\ DeviceOK
  BY DEF TypeInv, OpOK, FormInv, Editing, Retiring, At, OpType
<1>2. PICK p \in DOMAIN Visible, n \in Names, s \in Given : OldIs(p, n, s) /\ EditIs(p, n, s)
  BY <1>1 DEF OldForm
<1>3. p \in Nat
  BY <1>1, Views DEF IsView
<1>4. PICK l : l = op.old /\ l = Run(p, n)
  BY <1>2 DEF OldIs
<1>5. /\ SetSize(n) \in Nat \ {0, 1, 2} /\ DOMAIN l = 1..SetSize(n) /\ l[1] = p /\ l[2] = p + 1
      /\ \A k \in 1..SetSize(n) : l[k] = p + k - 1
  BY <1>3, <1>4, RunLocs
<1>6. Len(l) = SetSize(n)
  BY <1>3, <1>4, RunIs
<1>7. \A k \in 1..SetSize(n) : p + k - 1 \in Span(p, n)
  BY <1>3, <1>5 DEF Span
<1>8. \A k \in DOMAIN l : l[k] \in DOMAIN slots
  <2>1. PICK y \in Seq(DOMAIN slots) : y = op.old
    BY <1>1 DEF Locators
  <2>2. \A k \in DOMAIN y : y[k] \in DOMAIN slots
    OBVIOUS
  <2>. QED
    BY <1>4, <2>1, <2>2
<1>9. \A k \in 1..SetSize(n) : op.old[k] = p + k - 1 /\ op.old[k] \in Span(p, n) /\ op.old[k] \in DOMAIN slots
  BY <1>4, <1>5, <1>7, <1>8
<1>10. /\ SetSize(n) \in Nat \ {0, 1, 2} /\ DOMAIN op.old = 1..SetSize(n) /\ Len(op.old) = SetSize(n)
       /\ op.old[1] = p /\ op.old[2] = p + 1
  BY <1>4, <1>5, <1>6
<1>. QED
  BY <1>2, <1>3, <1>9, <1>10

LEMMA FormRenameStream ==
    ASSUME TypeInv, TypeInv', FormInv, RenameStream
    PROVE  FormInv' /\ Same(Visible, Visible')
<1>1. PICK o : o = op'
  OBVIOUS
<1>2. /\ op \in OpType /\ op.pc = "restream" /\ o = [op EXCEPT !.pc = "rename", !.i = 1] /\ op.name \in Names
      /\ length' = length /\ handle' = handle /\ DeviceOK
      /\ slots' = [slots EXCEPT ![op.old[2]].len = Units[op.name]]
  BY <1>1 DEF RenameStream, At, TypeInv, OpOK
<1>3. /\ o.pc = "rename" /\ o.i = 1 /\ o.kind = op.kind /\ o.name = op.name /\ o.old = op.old
      /\ o.stream = op.stream /\ o.before = op.before
  BY ONLY <1>2 DEF OpType
<1>4. PICK p \in DOMAIN Visible, n \in Names, s \in Given :
        /\ OldIs(p, n, s) /\ EditIs(p, n, s) /\ p \in Nat
        /\ SetSize(n) \in Nat \ {0, 1, 2} /\ DOMAIN op.old = 1..SetSize(n) /\ op.old[2] = p + 1
        /\ \A k \in 1..SetSize(n) : op.old[k] = p + k - 1 /\ op.old[k] \in Span(p, n) /\ op.old[k] \in DOMAIN slots
  BY <1>2, SetEdited
<1>5. /\ op.kind = "rename" /\ SetSize(op.name) = SetSize(n)
      /\ \A k \in 1..SetSize(n) : slots[p + k - 1] = SealedSet(n, s)[k]
  BY <1>2, <1>4 DEF EditIs, Edited, Done, At
<1>6. 2 \in 1..SetSize(n) /\ p + 2 - 1 = p + 1 /\ p + 1 \in Span(p, n) /\ p + 1 \in DOMAIN slots
  BY <1>4
<1>7. slots' = [slots EXCEPT ![p + 1] = StreamSlot(Units[op.name], s)]
  <2>1. slots[p + 1] = StreamSlot(Units[n], s)
    <3>1. slots[p + 1] = SealedSet(n, s)[2]
      BY <1>5, <1>6
    <3>. QED
      BY <3>1, SealedSlots
  <2>2. slots' = [slots EXCEPT ![p + 1] = [slots[p + 1] EXCEPT !.len = Units[op.name]]]
    BY <1>2, <1>4
  <2>3. [StreamSlot(Units[n], s) EXCEPT !.len = Units[op.name]] = StreamSlot(Units[op.name], s)
    BY StreamEdited
  <2>. QED
    BY <2>1, <2>2, <2>3
<1>8. /\ DOMAIN slots' = DOMAIN slots /\ slots'[p + 1] = SealedSet(op.name, s)[2]
      /\ \A i \in DOMAIN slots : i # p + 1 => slots'[i] = slots[i]
  <2>1. SealedSet(op.name, s)[2] = StreamSlot(Units[op.name], s)
    BY <1>2, SealedSlots
  <2>. QED
    BY <1>6, <1>7, <2>1
<1>9. ASSUME NEW k \in 1..SetSize(n) PROVE slots'[p + k - 1] = Edited(n, s, k)'
  <2>1. CASE k = 2
    <3>1. Done(k)'
      BY <1>1, <1>3, <2>1 DEF Done, At
    <3>2. Goal(n, s)' = SealedSet(op.name, s)
      BY <1>1, <1>3, <1>5 DEF Goal
    <3>. QED
      BY <1>6, <1>8, <2>1, <3>1, <3>2 DEF Edited
  <2>2. CASE k # 2
    <3>1. ~Done(k)'
      BY <1>1, <1>3, <1>4, <2>2 DEF Done, At
    <3>2. p + k - 1 \in DOMAIN slots
      BY <1>4
    <3>3. p \in Nat /\ SetSize(n) \in Nat
      BY <1>4
    <3>4. p + k - 1 # p + 1
      BY ONLY <3>3, <2>2, k \in 1..SetSize(n)
    <3>. QED
      BY <1>5, <1>8, <3>1, <3>2, <3>4 DEF Edited
  <2>. QED
    BY <2>1, <2>2
<1>10. \A i \in DOMAIN slots : i \notin Span(p, n) => slots'[i] = slots[i]
  BY <1>6, <1>8
<1>. QED
  BY <1>1, <1>2, <1>3, <1>4, <1>5, <1>8, <1>9, <1>10, FormEdit

LEMMA FormRenameSlot ==
    ASSUME TypeInv, TypeInv', SetInv, FormInv, RenameSlot
    PROVE  FormInv' /\ Same(Visible, Visible')
<1>1. PICK o : o = op'
  OBVIOUS
<1>2. /\ op \in OpType /\ op.pc = "rename" /\ op.name \in Names /\ op.i \in Nat \ {0} /\ op.i + 2 \in DOMAIN op.old
      /\ length' = length /\ handle' = handle /\ DeviceOK
      /\ slots' = [slots EXCEPT ![op.old[op.i + 2]] = NameSlot(NamePart(op.name, op.i))]
      /\ o = IF op.i + 2 = Len(op.old) THEN [op EXCEPT !.pc = "reseal", !.i = 0] ELSE [op EXCEPT !.i = op.i + 1]
  BY <1>1 DEF RenameSlot, At, TypeInv, OpOK, SetSlot, SetInv, OldWhole, OpType
<1>3. PICK j \in Nat \ {0} : j = op.i
  BY <1>2
<1>4. /\ o.kind = op.kind /\ o.name = op.name /\ o.old = op.old /\ o.stream = op.stream /\ o.before = op.before
      /\ j + 2 = Len(op.old) => o.pc = "reseal"
      /\ j + 2 # Len(op.old) => o.pc = "rename" /\ o.i = j + 1
  <2>1. CASE j + 2 = Len(op.old)
    BY ONLY <1>2, <1>3, <2>1 DEF OpType
  <2>2. CASE j + 2 # Len(op.old)
    BY ONLY <1>2, <1>3, <2>2 DEF OpType
  <2>. QED
    BY <2>1, <2>2
<1>5. PICK p \in DOMAIN Visible, n \in Names, s \in Given :
        /\ OldIs(p, n, s) /\ EditIs(p, n, s) /\ p \in Nat
        /\ SetSize(n) \in Nat \ {0, 1, 2} /\ DOMAIN op.old = 1..SetSize(n) /\ Len(op.old) = SetSize(n)
        /\ \A k \in 1..SetSize(n) : op.old[k] = p + k - 1 /\ op.old[k] \in Span(p, n) /\ op.old[k] \in DOMAIN slots
  BY <1>2, SetEdited
<1>6. /\ op.kind = "rename" /\ SetSize(op.name) = SetSize(n)
      /\ \A k \in 1..SetSize(n) : slots[p + k - 1] = Edited(n, s, k)
  BY <1>2, <1>5 DEF EditIs
<1>7. PICK z \in Nat \ {0, 1, 2} : z = SetSize(n)
  BY <1>5
<1>8. j + 2 \in 1..z /\ op.old[j + 2] = p + (j + 2) - 1
  BY <1>2, <1>3, <1>5, <1>7
<1>9. PICK e \in Nat : e = p + (j + 2) - 1 /\ e \in Span(p, n) /\ e \in DOMAIN slots
  <2>1. p + (j + 2) - 1 \in Nat
    BY <1>5
  <2>. QED
    BY <1>5, <1>7, <1>8, <2>1
<1>10. /\ DOMAIN slots' = DOMAIN slots /\ slots'[e] = SealedSet(op.name, s)[j + 2]
       /\ \A i \in DOMAIN slots : i # e => slots'[i] = slots[i]
  <2>1. j + 2 \in 3..SetSize(op.name) /\ (j + 2) - 2 = j
    BY <1>6, <1>7, <1>8
  <2>2. SealedSet(op.name, s)[j + 2] = NameSlot(NamePart(op.name, j))
    BY <1>2, <2>1, SealedSlots
  <2>3. slots' = [slots EXCEPT ![e] = NameSlot(NamePart(op.name, j))]
    BY <1>2, <1>3, <1>8, <1>9
  <2>. QED
    BY <1>9, <2>2, <2>3
<1>11. Goal(n, s) = SealedSet(op.name, s) /\ Goal(n, s)' = SealedSet(op.name, s)
  BY <1>1, <1>4, <1>6 DEF Goal
<1>12. ASSUME NEW k \in 1..z PROVE slots'[p + k - 1] = Edited(n, s, k)'
  <2>1. Done(k) <=> k # 1 /\ k <= j + 1
    BY <1>2, <1>3 DEF Done, At
  <2>2. Done(k)' <=> k # 1 /\ k <= j + 2
    <3>1. CASE j + 2 = Len(op.old)
      <4>1. Done(k)' <=> k # 1
        BY <1>1, <1>4, <3>1 DEF Done, At
      <4>2. k <= j + 2
        BY <1>5, <1>7, <3>1
      <4>. QED
        BY <4>1, <4>2
    <3>2. CASE j + 2 # Len(op.old)
      <4>1. Done(k)' <=> k # 1 /\ k <= (j + 1) + 1
        BY <1>1, <1>4, <3>2 DEF Done, At
      <4>2. (j + 1) + 1 = j + 2
        OBVIOUS
      <4>. QED
        BY <4>1, <4>2
    <3>. QED
      BY <3>1, <3>2
  <2>3. CASE k = j + 2
    <3>1. k # 1 /\ k <= j + 2
      BY <2>3
    <3>. QED
      BY <1>9, <1>10, <1>11, <2>2, <2>3, <3>1 DEF Edited
  <2>4. CASE k # j + 2
    <3>1. p + k - 1 # e /\ (k <= j + 1 <=> k <= j + 2)
      BY <1>5, <1>9, <2>4
    <3>2. p + k - 1 \in DOMAIN slots
      BY <1>5, <1>7
    <3>3. slots'[p + k - 1] = Edited(n, s, k)
      BY <1>6, <1>7, <1>10, <3>1, <3>2
    <3>4. Done(k) <=> Done(k)'
      BY <2>1, <2>2, <3>1
    <3>. QED
      BY <1>11, <3>3, <3>4 DEF Edited
  <2>. QED
    BY <2>3, <2>4
<1>13. \A i \in DOMAIN slots : i \notin Span(p, n) => slots'[i] = slots[i]
  BY <1>9, <1>10
<1>14. \A k \in 1..SetSize(n) : slots'[p + k - 1] = Edited(n, s, k)'
  BY <1>7, <1>12
<1>15. o.pc \in {"rename", "reseal"}
  BY <1>4
<1>. QED
  BY <1>1, <1>2, <1>4, <1>5, <1>6, <1>10, <1>13, <1>14, <1>15, FormEdit

LEMMA FormUpdateStream ==
    ASSUME TypeInv, TypeInv', SetInv, FormInv, UpdateStream
    PROVE  FormInv' /\ Same(Visible, Visible')
<1>1. PICK o : o = op'
  OBVIOUS
<1>2. /\ op \in OpType /\ op.pc = "stream" /\ o = [op EXCEPT !.pc = "reseal"] /\ op.name \in Names
      /\ length' = length /\ handle' = handle /\ DeviceOK /\ op.kind \in {"create", "update"}
      /\ slots' = [slots EXCEPT ![op.old[2]].stream = op.stream]
  BY <1>1 DEF UpdateStream, At, TypeInv, OpOK, SetInv, OldWhole
<1>3. /\ o.pc = "reseal" /\ o.kind = op.kind /\ o.name = op.name /\ o.old = op.old
      /\ o.stream = op.stream /\ o.before = op.before
  BY ONLY <1>2 DEF OpType
<1>4. PICK p \in DOMAIN Visible, n \in Names, s \in Given :
        /\ OldIs(p, n, s) /\ EditIs(p, n, s) /\ p \in Nat
        /\ SetSize(n) \in Nat \ {0, 1, 2} /\ DOMAIN op.old = 1..SetSize(n) /\ op.old[2] = p + 1
        /\ \A k \in 1..SetSize(n) : op.old[k] = p + k - 1 /\ op.old[k] \in Span(p, n) /\ op.old[k] \in DOMAIN slots
  BY <1>2, SetEdited
<1>5. /\ op.stream \in Given /\ \A k \in 1..SetSize(n) : slots[p + k - 1] = SealedSet(n, s)[k]
  BY <1>2, <1>4 DEF EditIs, Edited, Done, At
<1>6. 2 \in 1..SetSize(n) /\ p + 2 - 1 = p + 1 /\ p + 1 \in Span(p, n) /\ p + 1 \in DOMAIN slots
  BY <1>4
<1>7. PICK t \in Given : t = op.stream
  BY <1>5
<1>8. slots' = [slots EXCEPT ![p + 1] = StreamSlot(Units[n], t)]
  <2>1. slots[p + 1] = StreamSlot(Units[n], s)
    <3>1. slots[p + 1] = SealedSet(n, s)[2]
      BY <1>5, <1>6
    <3>. QED
      BY <3>1, SealedSlots
  <2>2. slots' = [slots EXCEPT ![p + 1] = [slots[p + 1] EXCEPT !.stream = t]]
    BY <1>2, <1>4, <1>7
  <2>3. [StreamSlot(Units[n], s) EXCEPT !.stream = t] = StreamSlot(Units[n], t)
    BY StreamEdited
  <2>. QED
    BY <2>1, <2>2, <2>3
<1>9. /\ DOMAIN slots' = DOMAIN slots /\ slots'[p + 1] = SealedSet(n, t)[2]
      /\ \A i \in DOMAIN slots : i # p + 1 => slots'[i] = slots[i]
  <2>1. SealedSet(n, t)[2] = StreamSlot(Units[n], t)
    BY SealedSlots
  <2>. QED
    BY <1>6, <1>8, <2>1
<1>10. Goal(n, s)' = SealedSet(n, t)
  BY <1>1, <1>2, <1>3, <1>7 DEF Goal
<1>11. ASSUME NEW k \in 1..SetSize(n) PROVE slots'[p + k - 1] = Edited(n, s, k)'
  <2>1. Done(k)' <=> k # 1
    BY <1>1, <1>3 DEF Done, At
  <2>2. CASE k = 1
    <3>1. p + k - 1 # p + 1 /\ p + k - 1 \in DOMAIN slots
      BY <1>4, <2>2
    <3>. QED
      BY <1>5, <1>9, <2>1, <2>2, <3>1 DEF Edited
  <2>3. CASE k = 2
    BY <1>6, <1>9, <1>10, <2>1, <2>3 DEF Edited
  <2>4. CASE k # 1 /\ k # 2
    <3>1. k \in 3..SetSize(n) /\ p + k - 1 # p + 1 /\ p + k - 1 \in DOMAIN slots
      BY <1>4, <2>4
    <3>2. slots'[p + k - 1] = SealedSet(n, s)[k]
      BY <1>5, <1>9, <3>1
    <3>3. SealedSet(n, s)[k] = SealedSet(n, t)[k]
      BY <3>1, SealedSlots
    <3>. QED
      BY <1>10, <2>1, <2>4, <3>2, <3>3 DEF Edited
  <2>. QED
    BY <2>2, <2>3, <2>4
<1>12. \A i \in DOMAIN slots : i \notin Span(p, n) => slots'[i] = slots[i]
  BY <1>6, <1>9
<1>. QED
  BY <1>1, <1>2, <1>3, <1>4, <1>9, <1>11, <1>12, FormEdit

(* The checksum turns the one set into the other.                          *)
LEMMA SetInPlace ==
    ASSUME NEW v, IsView(v), Formed(v), Once(v), NEW w, IsView(w), Len(w) = Len(v),
           NEW p \in DOMAIN v, NEW n \in Names, NEW s \in Given, Held(v, p, n, s),
           NEW m \in Names, NEW r \in Given, Held(w, p, m, r), SetSize(m) = SetSize(n),
           \A i \in DOMAIN v : w[i] = v[i] \/ i \in Span(p, n),
           m = n \/ Absent(v, m)
    PROVE  Formed(w) /\ Once(w) /\ Replaced(v, w, p, p, m, r)
<1>1. PICK u : u = [i \in 1..Len(v) |-> IF i \in Span(p, n) THEN GoneSlot ELSE v[i]]
  OBVIOUS
<1>2. Span(p, m) = Span(p, n)
  BY DEF Span
<1>3. p \in Span(p, n) /\ \A i \in Span(p, n) : i \in DOMAIN v
  BY HeldSlots DEF Span
<1>4. /\ IsView(u) /\ Len(u) = Len(v) /\ DOMAIN u = DOMAIN v /\ DOMAIN w = DOMAIN v
      /\ \A i \in DOMAIN v : u[i] = IF i \in Span(p, n) THEN GoneSlot ELSE v[i]
  BY <1>1 DEF IsView
<1>5. \A i \in Span(p, n) : Empties(u[i])
  BY <1>3, <1>4, GoneEmpty
<1>6. /\ Formed(u) /\ Once(u) /\ Absent(u, n)
      /\ \A k \in Names, t \in Given : \A x : Held(u, x, k, t) <=> Held(v, x, k, t) /\ x # p
  <2>1. \A i \in DOMAIN v : u[i] = v[i] \/ (i \in Span(p, n) /\ Empties(u[i]))
    BY <1>4, <1>5
  <2>2. Empties(u[p])
    BY <1>3, <1>5
  <2>. QED
    BY <1>4, <2>1, <2>2, Vanishes
<1>7. Absent(u, m)
  <2>1. CASE m = n
    BY <1>6, <2>1
  <2>2. CASE m # n
    BY <1>4, <1>6, <2>2 DEF Absent
  <2>. QED
    BY <2>1, <2>2
<1>8. /\ Formed(w) /\ Once(w)
      /\ \A k \in Names, t \in Given : \A x :
             Held(w, x, k, t) <=> Held(u, x, k, t) \/ (x = p /\ k = m /\ t = r)
  <2>1. \A i \in DOMAIN u : w[i] = u[i] \/ (i \in Span(p, m) /\ Empties(u[i]))
    BY <1>2, <1>4, <1>5
  <2>2. \A i \in Span(p, m) : Empties(u[i])
    BY <1>2, <1>5
  <2>3. IsView(u) /\ Formed(u) /\ Len(w) = Len(u) /\ Once(u) /\ Absent(u, m) /\ p \in DOMAIN w
    BY <1>4, <1>6, <1>7
  <2>. QED
    BY <2>1, <2>2, <2>3, Appears
<1>. QED
  BY <1>6, <1>8 DEF Replaced

(* What the set becomes.                                                   *)
Resealed(s) == IF op.kind = "rename" THEN s ELSE op.stream

LEMMA SetResealed ==
    ASSUME TypeInv, TypeInv', FormInv, Reseal,
           NEW p \in DOMAIN Visible, NEW n \in Names, NEW s \in Given, OldIs(p, n, s), EditIs(p, n, s), p \in Nat,
           \A k \in 1..SetSize(n) : op.old[k] = p + k - 1 /\ op.old[k] \in DOMAIN slots,
           DOMAIN op.old = 1..SetSize(n), op.old[1] = p, SetSize(n) \in Nat \ {0, 1, 2}
    PROVE  /\ op.name \in Names /\ Resealed(s) \in Given /\ SetSize(op.name) = SetSize(n)
           /\ DOMAIN slots' = DOMAIN slots
           /\ \A k \in 1..SetSize(n) : slots'[p + k - 1] = SealedSet(op.name, Resealed(s))[k]
           /\ \A i \in DOMAIN slots : i # p => slots'[i] = slots[i]
<1>1. /\ op.pc = "reseal" /\ op.name \in Names /\ DeviceOK
      /\ slots' = [slots EXCEPT ![p].sum = Checksum(SlotsAt(op.old))]
  BY DEF Reseal, At, TypeInv, OpOK
<1>2. PICK m \in Names, t \in Given : m = op.name /\ t = Resealed(s)
  BY <1>1 DEF Resealed, EditIs
<1>3. Goal(n, s) = SealedSet(m, t)
  BY <1>2 DEF Goal, Resealed, OldIs
<1>4. PICK z \in Nat \ {0, 1, 2} : z = SetSize(n) /\ z = SetSize(m)
  BY <1>2 DEF EditIs
<1>5. \A k \in 1..z : slots[p + k - 1] = IF k = 1 THEN SealedSet(n, s)[k] ELSE SealedSet(m, t)[k]
  BY <1>1, <1>3, <1>4 DEF EditIs, Edited, Done, At
<1>6. slots[p] = Primary(z - 1, Checksum(NewSet(n, s)))
  <2>1. p + 1 - 1 = p /\ 1 \in 1..z
    BY <1>4
  <2>2. slots[p] = SealedSet(n, s)[1]
    BY <1>5, <2>1
  <2>3. SealedSet(n, s)[1] = Primary(SetSize(n) - 1, Checksum(NewSet(n, s)))
    BY SealedSlots
  <2>. QED
    BY ONLY <1>4, <2>2, <2>3
<1>7. PICK c : c = Checksum(NewSet(m, t))
  OBVIOUS
<1>8. /\ SealedSet(m, t)[1] = Primary(z - 1, c) /\ c \in Seq(Contents) /\ Len(c) = z
      /\ \A k \in 1..z : c[k] = Content(SealedSet(m, t)[k])
  BY <1>4, <1>7, SealedSlots
<1>9. Checksum(SlotsAt(op.old)) = c
  <2>1. ASSUME NEW k \in 1..z PROVE Content(slots[op.old[k]]) = c[k]
    <3>1. op.old[k] = p + k - 1
      BY <1>4
    <3>2. CASE k = 1
      <4>1. slots[op.old[k]] = Primary(z - 1, Checksum(NewSet(n, s)))
        BY <1>6, <3>2
      <4>2. Content(slots[op.old[k]]) = Primary(z - 1, <<>>)
        BY <4>1, PrimaryEdited
      <4>3. c[k] = Content(Primary(z - 1, c))
        BY <1>8, <3>2
      <4>. QED
        BY <4>2, <4>3, PrimaryEdited
    <3>3. CASE k # 1
      BY <1>5, <1>8, <3>1, <3>3
    <3>. QED
      BY <3>2, <3>3
  <2>2. Checksum(SlotsAt(op.old)) = [k \in 1..z |-> Content(slots[op.old[k]])]
    BY <1>4 DEF Checksum, SlotsAt
  <2>3. c = [k \in 1..z |-> c[k]]
    BY <1>8
  <2>. QED
    BY <2>1, <2>2, <2>3
<1>10. p \in DOMAIN slots
  BY <1>4
<1>11. slots' = [slots EXCEPT ![p] = Primary(z - 1, c)]
  <2>1. slots' = [slots EXCEPT ![p] = [slots[p] EXCEPT !.sum = c]]
    BY <1>1, <1>9
  <2>2. PICK q : slots[p] = Primary(z - 1, q)
    BY <1>6
  <2>3. [Primary(z - 1, q) EXCEPT !.sum = c] = Primary(z - 1, c)
    BY SumReplaced
  <2>. QED
    BY ONLY <2>1, <2>2, <2>3
<1>12. /\ DOMAIN slots' = DOMAIN slots /\ slots'[p] = Primary(z - 1, c)
       /\ \A i \in DOMAIN slots : i # p => slots'[i] = slots[i]
  BY <1>10, <1>11
<1>13. ASSUME NEW k \in 1..z PROVE slots'[p + k - 1] = SealedSet(m, t)[k]
  <2>1. CASE k = 1
    <3>1. p + k - 1 = p
      BY <2>1
    <3>. QED
      BY <1>8, <1>12, <2>1, <3>1
  <2>2. CASE k # 1
    <3>1. p + k - 1 # p
      BY <2>2
    <3>2. p + k - 1 \in DOMAIN slots
      BY <1>4
    <3>. QED
      BY <1>5, <1>12, <2>2, <3>1, <3>2
  <2>. QED
    BY <2>1, <2>2
<1>. QED
  BY <1>2, <1>4, <1>12, <1>13

LEMMA FormReseal ==
    ASSUME TypeInv, TypeInv', SetInv, FormInv, Reseal
    PROVE  /\ FormInv'
           /\ \E p \in DOMAIN Visible, n \in Names, s \in Given :
                /\ OldIs(p, n, s) /\ Resealed(s) \in Given
                /\ Replaced(Visible, Visible', p, p, op.name, Resealed(s))
<1>1. /\ op.pc = "reseal" /\ op' = Idle /\ length' = length /\ DeviceOK /\ DeviceOK' /\ SetsHeld /\ op.name \in Names
      /\ handle \in [Names -> Locators]
      /\ handle' = IF op.kind = "create" THEN [handle EXCEPT ![op.name] = op.old] ELSE handle
  BY DEF Reseal, At, TypeInv, OpOK, FormInv, HandlesOK
<1>2. PICK p \in DOMAIN Visible, n \in Names, s \in Given :
        /\ OldIs(p, n, s) /\ EditIs(p, n, s) /\ p \in Nat
        /\ SetSize(n) \in Nat \ {0, 1, 2} /\ DOMAIN op.old = 1..SetSize(n) /\ op.old[1] = p
        /\ \A k \in 1..SetSize(n) : op.old[k] = p + k - 1 /\ op.old[k] \in Span(p, n) /\ op.old[k] \in DOMAIN slots
  BY <1>1, SetEdited
<1>3. /\ Resealed(s) \in Given /\ SetSize(op.name) = SetSize(n) /\ DOMAIN slots' = DOMAIN slots
      /\ \A k \in 1..SetSize(n) : slots'[p + k - 1] = SealedSet(op.name, Resealed(s))[k]
      /\ \A i \in DOMAIN slots : i # p => slots'[i] = slots[i]
  BY <1>2, SetResealed
<1>4. PICK v, w : v = Visible /\ w = Visible'
  OBVIOUS
<1>5. PICK m \in Names, t \in Given : m = op.name /\ t = Resealed(s)
  BY <1>1, <1>3
<1>6. /\ IsView(v) /\ Len(v) = Reach(slots, length)
      /\ \A i \in DOMAIN v : i \in DOMAIN slots /\ v[i] = Sight(slots, op, i)
  BY <1>1, <1>4, Views
<1>7. op'.pc = "idle" /\ op'.kind = "none" /\ op'.old = <<>>
  BY <1>1, IdleOK
<1>8. Len(slots') = Len(slots)
  BY <1>1, <1>3, SameLength DEF DeviceOK
<1>9. Reach(slots', length') = Reach(slots, length)
  BY <1>1, <1>8 DEF Reach
<1>10. \A i : Sight(slots', op', i) = slots'[i]
  BY <1>7, SightPlain
<1>11. /\ IsView(w) /\ DOMAIN w = DOMAIN v /\ Len(w) = Len(v) /\ \A i \in DOMAIN w : w[i] = slots'[i]
  <2>1. IsView(w) /\ Len(w) = Reach(slots', length') /\ \A i \in DOMAIN w : w[i] = Sight(slots', op', i)
    BY <1>1, <1>4, ViewsNext
  <2>. QED
    BY <1>6, <1>9, <1>10, <2>1 DEF IsView
<1>12. Held(v, p, n, s) /\ p \in DOMAIN v /\ op.old = Run(p, n) /\ p \in Span(p, n)
  BY <1>2, <1>4 DEF OldIs, Span
<1>13. \A i \in DOMAIN v : w[i] = v[i] \/ i \in Span(p, n)
  <2>. SUFFICES ASSUME NEW i \in DOMAIN v, i \notin Span(p, n) PROVE w[i] = v[i]
    OBVIOUS
  <2>1. op.pc \in {"rename", "stream", "reseal"} /\ op.old = Run(p, n) /\ p \in Nat
    BY <1>1, <1>2, <1>12
  <2>4. PICK o : o = op
    OBVIOUS
  <2>5. o.pc \in {"rename", "stream", "reseal"} /\ o.old = Run(p, n) /\ p \in Nat
    BY <2>1, <2>4
  <2>6. /\ i \in Span(p, n) => Sight(slots, o, i) = o.before[i - p + 1]
        /\ i \notin Span(p, n) => Sight(slots, o, i) = slots[i]
    BY ONLY <2>5, SightEditing, n \in Names
  <2>2. Sight(slots, op, i) = slots[i]
    BY <2>4, <2>6
  <2>3. slots'[i] = slots[i]
    BY <1>3, <1>6, <1>12
  <2>. QED
    BY <1>6, <1>11, <2>2, <2>3
<1>14. Held(w, p, m, t)
  <2>1. p \in DOMAIN w /\ p + SetSize(m) - 1 <= Len(w)
    BY <1>3, <1>5, <1>11, <1>12 DEF Held
  <2>2. ASSUME NEW k \in 1..SetSize(n) PROVE w[p + k - 1] = SealedSet(m, t)[k]
    <3>1. p + k - 1 \in DOMAIN w
      <4>1. p + k - 1 \in Span(p, n)
        BY <1>2
      <4>. QED
        BY <1>6, <1>11, <1>12, <4>1, HeldSlots
    <3>. QED
      BY <1>3, <1>5, <1>11, <3>1
  <2>. QED
    BY <1>3, <1>5, <2>1, <2>2 DEF Held
<1>15. m = n \/ Absent(v, m)
  <2>1. CASE op.kind = "rename"
    BY <1>1, <1>4, <1>5, <2>1 DEF FormInv, NewForm, Pending, Retiring, At
  <2>2. CASE op.kind # "rename"
    BY <1>2, <1>5, <2>2 DEF OldIs
  <2>. QED
    BY <2>1, <2>2
<1>16. Formed(w) /\ Once(w) /\ Replaced(v, w, p, p, m, t)
  <2>1. /\ IsView(v) /\ Formed(v) /\ Once(v) /\ IsView(w) /\ Len(w) = Len(v) /\ p \in DOMAIN v
        /\ Held(v, p, n, s) /\ Held(w, p, m, t) /\ SetSize(m) = SetSize(n)
        /\ \A i \in DOMAIN v : w[i] = v[i] \/ i \in Span(p, n)
        /\ (m = n \/ Absent(v, m))
    BY <1>1, <1>3, <1>4, <1>5, <1>6, <1>11, <1>12, <1>13, <1>14, <1>15 DEF SetsHeld
  <2>. QED
    BY ONLY <2>1, SetInPlace, n \in Names, s \in Given, m \in Names, t \in Given
<1>17. \A k \in Names, r \in Given : \A x : Held(v, x, k, r) /\ x # p => Held(w, x, k, r)
  BY <1>16 DEF Replaced
<1>18. HandlesHeld'
  <2>. SUFFICES ASSUME NEW k \in Names, handle'[k] # <<>>
                PROVE  \E x \in DOMAIN w, r \in Given : Held(w, x, k, r) /\ handle'[k] = Run(x, k)
    BY <1>4 DEF HandlesHeld
  <2>1. CASE handle'[k] = op.old /\ k = m /\ m = n
    BY <1>11, <1>12, <1>14, <2>1
  <2>2. CASE handle'[k] = handle[k] /\ ~(handle[k] = op.old /\ k = m /\ m = n)
    <3>1. PICK x \in DOMAIN v, r \in Given : Held(v, x, k, r) /\ handle[k] = Run(x, k)
      BY <1>1, <1>4, <2>2 DEF SetsHeld, HandlesHeld
    <3>2. x # p
      <4>1. CASE op.kind = "update"
        <5>1. op.old = handle[op.name] /\ m = n
          BY <1>2, <1>5, <4>1 DEF SetInv, OldWhole, OldIs
        <5>2. k # n
          BY <1>5, <2>2, <5>1
        <5>3. ASSUME x = p PROVE FALSE
          <6>1. IsView(v) /\ p \in DOMAIN v /\ Held(v, p, n, s) /\ Held(v, p, k, r)
            BY <1>6, <1>12, <3>1, <5>3
          <6>2. n = k
            BY ONLY <6>1, HeldSame, n \in Names, s \in Given, k \in Names, r \in Given
          <6>. QED
            BY <5>2, <6>2
        <5>. QED
          BY <5>3
      <4>2. CASE op.kind # "update"
        <5>1. Apart(op.old)
          BY <4>2 DEF SetInv, OldWhole
        <5>2. 1 \in DOMAIN op.old /\ op.old[1] = p
          BY <1>2
        <5>3. 1 \in DOMAIN handle[k] /\ handle[k][1] = x
          <6>1. x \in Nat
            BY <1>6 DEF IsView
          <6>2. SetSize(k) \in Nat \ {0, 1, 2} /\ DOMAIN handle[k] = 1..SetSize(k) /\ handle[k][1] = x
            BY <3>1, <6>1, RunLocs
          <6>. QED
            BY <6>2
        <5>. QED
          BY <5>1, <5>2, <5>3 DEF Apart
      <4>. QED
        BY <4>1, <4>2
    <3>. QED
      BY <1>11, <1>17, <2>2, <3>1, <3>2
  <2>3. CASE op.kind = "create"
    <3>1. m = n
      BY <1>2, <1>5, <2>3 DEF OldIs
    <3>2. k = m => handle'[k] = op.old
      BY <1>1, <1>5, <2>3
    <3>3. k # m => handle'[k] = handle[k]
      BY <1>1, <1>5, <2>3
    <3>. QED
      BY <2>1, <2>2, <3>1, <3>2, <3>3
  <2>. QED
    BY <1>1, <2>1, <2>2, <2>3
<1>19. SetsHeld'
  BY <1>4, <1>16, <1>18 DEF SetsHeld
<1>20. NewForm' /\ OldForm' /\ RetireForm' /\ OneCluster'
  BY <1>1, <1>7, OverForms DEF FormInv, OneCluster
<1>. QED
  BY <1>2, <1>3, <1>4, <1>5, <1>16, <1>19, <1>20 DEF FormInv

-----------------------------------------------------------------------------
(* An operation that ends before its time.                                 *)

LEMMA FormOver ==
    ASSUME TypeInv, TypeInv', SetInv, FormInv, slots' = slots, length' = length, Forgets,
           op'.pc = "idle", op'.kind = "none", op'.old = <<>>, op.pc \notin {"write", "seal", "rename", "reseal"}
    PROVE  /\ FormInv'
           /\ Same(Visible, Visible') \/ (op.pc = "retire" /\ op.i = 1 /\ op.kind = "rename")
<1>1. DeviceOK /\ DeviceOK' /\ SetsHeld /\ op \in OpType
  BY DEF TypeInv, OpOK, FormInv
<1>2. PICK v, w : v = Visible /\ w = Visible'
  OBVIOUS
<1>3. /\ IsView(v) /\ Len(v) = Reach(slots, length)
      /\ \A i \in DOMAIN v : i \in DOMAIN slots /\ v[i] = Sight(slots, op, i)
  BY <1>1, <1>2, Views
<1>4. \A i : Sight(slots, op', i) = slots[i]
  BY SightPlain
<1>5. /\ IsView(w) /\ DOMAIN w = DOMAIN v /\ Len(w) = Len(v) /\ \A i \in DOMAIN w : w[i] = slots[i]
  <2>1. IsView(w) /\ Len(w) = Reach(slots, length) /\ \A i \in DOMAIN w : w[i] = Sight(slots, op', i)
    BY <1>1, <1>2, ViewsNext
  <2>. QED
    BY <1>3, <1>4, <2>1 DEF IsView
<1>6. NewForm' /\ OldForm' /\ RetireForm' /\ OneCluster'
  BY OverForms DEF FormInv, OneCluster
<1>7. ASSUME \A i \in DOMAIN v : v[i] = slots[i]
      PROVE  SetsHeld' /\ Same(Visible, Visible')
  <2>1. \A i \in DOMAIN w : i \in DOMAIN v /\ w[i] = v[i]
    BY <1>5, <1>7
  <2>. QED
    BY <1>1, <1>2, <1>5, <2>1, Settling
<1>8. CASE op.pc = "stream"
  <2>1. PICK p \in DOMAIN Visible, n \in Names, s \in Given :
          /\ OldIs(p, n, s) /\ EditIs(p, n, s) /\ p \in Nat /\ SetSize(n) \in Nat \ {0, 1, 2}
    BY <1>8, SetEdited
  <2>2. op.old = Run(p, n) /\ op.before = SealedSet(n, s) /\ Held(v, p, n, s) /\ p \in DOMAIN v
    BY <1>2, <2>1 DEF OldIs
  <2>3. \A k \in 1..SetSize(n) : slots[p + k - 1] = SealedSet(n, s)[k]
    BY <1>8, <2>1 DEF EditIs, Edited, Done, At
  <2>4. ASSUME NEW i \in DOMAIN v PROVE v[i] = slots[i]
    <3>1. PICK o : o = op
      OBVIOUS
    <3>2. o.pc \in {"rename", "stream", "reseal"} /\ o.old = Run(p, n) /\ p \in Nat
      BY <1>8, <2>1, <2>2, <3>1
    <3>3. /\ i \in Span(p, n) => Sight(slots, o, i) = o.before[i - p + 1]
          /\ i \notin Span(p, n) => Sight(slots, o, i) = slots[i]
      BY ONLY <3>2, SightEditing, n \in Names
    <3>4. CASE i \in Span(p, n)
      <4>1. v[i] = SealedSet(n, s)[i - p + 1] /\ i - p + 1 \in 1..SetSize(n)
        BY <1>3, <2>2, <3>4, HeldSlots
      <4>2. p + (i - p + 1) - 1 = i
        BY <2>1, <3>4 DEF Span
      <4>. QED
        BY <2>3, <4>1, <4>2
    <3>5. CASE i \notin Span(p, n)
      BY <1>3, <3>1, <3>3, <3>5
    <3>. QED
      BY <3>4, <3>5
  <2>. QED
    BY <1>6, <1>7, <2>4 DEF FormInv
<1>9. CASE op.pc = "retire" /\ op.i = 1 /\ op.kind = "rename"
  <2>1. Placing /\ Pending /\ NewForm
    BY <1>9 DEF Placing, Pending, Retiring, At, FormInv
  <2>2. PICK q \in DOMAIN v : op.locs = Run(q, op.name) /\ q + SetSize(op.name) - 1 <= Len(v) /\ Written(q)
    BY <1>2, <1>9, <2>1 DEF NewForm, Room, At
  <2>3. PICK m \in Names, r \in Given : m = op.name /\ r = op.stream
    BY <1>9, <2>1 DEF NewForm, TypeInv, OpOK
  <2>4. Absent(v, m) /\ q \in Nat
    BY <1>2, <1>3, <2>1, <2>3 DEF NewForm, IsView
  <2>6. \A i \in DOMAIN v : /\ i \in Span(q, m) => v[i] = GoneSlot
                            /\ i \notin Span(q, m) => v[i] = slots[i]
    <3>1. op.pc = "retire" /\ op.i = 1 /\ op.locs = Run(q, m)
      BY <1>9, <2>2, <2>3
    <3>2. ASSUME NEW i
          PROVE  /\ i \in Span(q, m) => Sight(slots, op, i) = GoneSlot
                 /\ i \notin Span(q, m) => Sight(slots, op, i) = slots[i]
      BY ONLY <2>4, <3>1, m \in Names, SightPlacing
    <3>. QED
      BY <1>3, <3>2
  <2>8. /\ SetSize(m) \in Nat \ {0, 1, 2}
        /\ \A k \in 1..SetSize(m) : q + k - 1 \in DOMAIN v
        /\ \A i \in Span(q, m) : i \in DOMAIN v
    <3>1. DOMAIN v = 1..Len(v) /\ Len(v) \in Nat
      BY <1>3 DEF IsView
    <3>2. PICK z \in Nat \ {0, 1, 2}, l \in Nat : z = SetSize(m) /\ l = Len(v)
      BY <3>1, Parameters
    <3>3. q + z - 1 <= l /\ q \in 1..l
      BY <2>2, <2>3, <3>1, <3>2
    <3>4. \A k \in 1..z : q + k - 1 \in 1..l
      BY <2>4, <3>3
    <3>5. \A i \in q..(q + z - 1) : i \in 1..l
      BY <2>4, <3>3
    <3>. QED
      BY <3>1, <3>2, <3>4, <3>5 DEF Span
  <2>9. Held(w, q, m, r)
    <3>1. ASSUME NEW k \in 1..SetSize(m) PROVE w[q + k - 1] = SealedSet(m, r)[k]
      <4>1. slots[q + k - 1] = SealedSet(m, r)[k]
        BY <2>2, <2>3 DEF Written
      <4>. QED
        BY <1>5, <2>8, <4>1
    <3>. QED
      BY <1>5, <2>2, <2>3, <3>1 DEF Held
  <2>10. /\ Formed(w)
         /\ \A n \in Names, s \in Given : \A x : Held(w, x, n, s) <=> Held(v, x, n, s) \/ (x = q /\ n = m /\ s = r)
         /\ Once(v) /\ Absent(v, m) => Once(w)
    <3>1. \A i \in Span(q, m) : Empties(v[i])
      BY <2>6, <2>8, GoneEmpty
    <3>2. \A i \in DOMAIN v : w[i] = v[i] \/ (i \in Span(q, m) /\ Empties(v[i]))
      BY <1>5, <2>6, <3>1
    <3>3. IsView(v) /\ Formed(v) /\ IsView(w) /\ Len(w) = Len(v) /\ q \in DOMAIN w
      BY <1>1, <1>2, <1>3, <1>5 DEF SetsHeld
    <3>. QED
      BY ONLY <2>9, <3>1, <3>2, <3>3, Appears, m \in Names, r \in Given
  <2>11. HandlesHeld'
    <3>. SUFFICES ASSUME NEW n \in Names, handle'[n] # <<>>
                  PROVE  \E x \in DOMAIN w, s \in Given : Held(w, x, n, s) /\ handle'[n] = Run(x, n)
      BY <1>2 DEF HandlesHeld
    <3>1. handle'[n] = handle[n]
      BY DEF Forgets
    <3>2. PICK x \in DOMAIN v, s \in Given : Held(v, x, n, s) /\ handle[n] = Run(x, n)
      BY <1>1, <1>2, <3>1 DEF SetsHeld, HandlesHeld
    <3>. QED
      BY <1>5, <2>10, <3>1, <3>2
  <2>. QED
    BY <1>1, <1>2, <1>6, <1>9, <2>4, <2>10, <2>11 DEF FormInv, SetsHeld
<1>10. CASE op.pc # "stream" /\ ~(op.pc = "retire" /\ op.i = 1 /\ op.kind = "rename")
  <2>1. op.pc = "retire" => op.i # 1 \/ op.locs = <<>>
    <3>1. op.pc = "retire" => op.kind \in {"remove", "rename"}
      BY DEF SetInv, OldWhole
    <3>. QED
      BY <1>10, <3>1 DEF FormInv, NewForm, At
  <2>2. \A i : Sight(slots, op, i) = slots[i]
    BY <1>10, <2>1, SightPlain
  <2>. QED
    BY <1>3, <1>6, <1>7, <2>2 DEF FormInv
<1>. QED
  BY <1>8, <1>9, <1>10

(* The name entries of a set are those of its name: rename does not slice  *)
(* a name behind its end.                                                  *)
LEMMA NoPanic ==
    ASSUME TypeInv, SetInv, FormInv, At("rename")
    PROVE  SliceInBounds
<1>1. op.pc = "rename" /\ op.name \in Names /\ op.i \in Nat \ {0} /\ op.i + 2 \in DOMAIN op.old
  BY DEF At, TypeInv, OpOK, SetInv, OldWhole, OpType
<1>2. PICK n \in Names : SetSize(op.name) = SetSize(n) /\ DOMAIN op.old = 1..SetSize(n)
  <2>1. \E p \in DOMAIN Visible, n \in Names, s \in Given : EditIs(p, n, s) /\ DOMAIN op.old = 1..SetSize(n)
    <3>1. op.pc \in {"restream", "rename", "stream", "reseal"}
      BY <1>1
    <3>. QED
      BY <3>1, SetEdited
  <2>. QED
    BY <2>1 DEF EditIs
<1>3. PICK m \in Names, j \in Nat \ {0} : m = op.name /\ j = op.i
  BY <1>1
<1>4. /\ NameEntries(m) = SetSize(m) - 2 /\ NameEntries(m) \in Nat /\ Units[m] \in Nat /\ UnitsPerEntry \in Nat
      /\ \A k \in 1..(NameEntries(m)) : (k - 1) * UnitsPerEntry < Units[m]
  BY NameRoom, Parameters
<1>5. j \in 1..(NameEntries(m))
  <2>1. PICK z \in Nat, e \in Nat : z = SetSize(m) /\ e = NameEntries(m)
    BY <1>4, Parameters
  <2>2. e = z - 2 /\ j + 2 \in 1..z
    BY <1>1, <1>2, <1>3, <1>4, <2>1
  <2>. QED
    BY <2>1, <2>2
<1>6. PICK x \in Nat : x = (j - 1) * UnitsPerEntry
  <2>1. j - 1 \in Nat
    OBVIOUS
  <2>. QED
    BY <1>4, <2>1
<1>7. x < Units[m]
  BY <1>4, <1>5, <1>6
<1>8. x <= Units[m]
  BY <1>4, <1>7
<1>. QED
  BY <1>3, <1>6, <1>8 DEF SliceInBounds

-----------------------------------------------------------------------------
(* The invariant.                                                          *)

LEMMA WholeClusters ==
    ASSUME NEW a \in Nat, NEW b \in Nat \ {0}, a % b = 0
    PROVE  (a \div b) * b = a
<1>. DEFINE q == a \div b
            r == a % b
<1>1. a = b * q + r /\ q \in Nat /\ r = 0
  OBVIOUS
<1>. HIDE DEF q, r
<1>2. a = q * b
  BY <1>1
<1>. QED
  BY <1>2 DEF q

LEMMA FormInit ==
    ASSUME InitialFormed, LookupsWhole, Init
    PROVE  FormInv
<1>1. /\ slots = InitialSlots /\ slots \in Seq(Slot) /\ op = Idle /\ handle = [n \in Names |-> <<>>]
      /\ length = Len(InitialSlots) \div SlotsPerCluster /\ DeviceOK
  BY TypeInit, ContentsAssumption DEF Init, TypeInv
<1>2. op.pc = "idle" /\ op.kind = "none" /\ op.old = <<>>
  BY <1>1, IdleOK
<1>3. PICK v, w : v = slots /\ w = Visible
  OBVIOUS
<1>4. /\ IsView(w) /\ Len(w) = Reach(slots, length)
      /\ \A i \in DOMAIN w : i \in DOMAIN slots /\ w[i] = Sight(slots, op, i)
  BY <1>1, <1>3, Views
<1>5. \A i : Sight(slots, op, i) = slots[i]
  BY <1>2, SightPlain
<1>6. Len(slots) \in Nat /\ DOMAIN slots = 1..Len(slots) /\ IsView(v)
  BY <1>1, <1>3 DEF IsView
<1>7. Reach(slots, length) = Len(slots)
  <2>1. Len(slots) % SlotsPerCluster = 0 /\ SlotsPerCluster \in Nat \ {0}
    BY <1>1, Parameters DEF DeviceOK
  <2>2. (Len(slots) \div SlotsPerCluster) * SlotsPerCluster = Len(slots)
    BY <1>6, <2>1, WholeClusters
  <2>. QED
    BY <1>1, <2>2 DEF Reach
<1>8. DOMAIN w = DOMAIN v /\ \A i \in DOMAIN v : w[i] = v[i]
  BY <1>3, <1>4, <1>5, <1>6, <1>7 DEF IsView
<1>9. Formed(v) /\ Once(v)
  BY <1>1, <1>3, GivenStreams DEF InitialFormed, Formed
<1>10. Formed(w) /\ Once(w)
  BY <1>4, <1>6, <1>8, <1>9, Emptied
<1>11. HandlesHeld
  BY <1>1 DEF HandlesHeld
<1>12. OneCluster
  <2>1. Kind = "contiguous" => length = 1
    <3>1. SUFFICES ASSUME Kind = "contiguous" PROVE length = 1
      OBVIOUS
    <3>2. PICK b \in Nat \ {0} : b = SlotsPerCluster
      BY Parameters
    <3>3. b \div b = 1
      BY <3>2
    <3>. QED
      BY <1>1, <3>1, <3>2, <3>3 DEF LookupsWhole
  <2>. QED
    BY <1>2, <2>1 DEF OneCluster
<1>13. NewForm /\ OldForm /\ RetireForm
  BY <1>2 DEF NewForm, OldForm, RetireForm, Writing, Placing, Pending, Retiring, At
<1>. QED
  BY <1>3, <1>10, <1>11, <1>12, <1>13 DEF FormInv, SetsHeld

LEMMA FormKept ==
    ASSUME FormInv, UNCHANGED vars
    PROVE  FormInv'
<1>1. slots' = slots /\ length' = length /\ op' = op /\ handle' = handle
  BY DEF vars
<1>2. Visible' = Visible
  BY <1>1, VisibleIs
<1>3. SetsHeld' /\ OneCluster'
  BY <1>1, <1>2 DEF FormInv, SetsHeld, HandlesHeld, OneCluster
<1>4. NewForm'
  BY <1>1, <1>2 DEF FormInv, NewForm, Writing, Placing, Pending, Retiring, At, Room, Written
<1>5. RetireForm'
  BY <1>1, <1>2 DEF FormInv, RetireForm, Retiring, At
<1>6. OldForm'
  <2>1. (Editing' <=> Editing) /\ (Retiring' <=> Retiring)
    BY <1>1 DEF Editing, Retiring, At
  <2>. SUFFICES ASSUME op'.old # <<>>, ~Retiring' PROVE OldForm'
    BY DEF OldForm
  <2>2. PICK p \in DOMAIN Visible, n \in Names, s \in Given : OldIs(p, n, s) /\ (Editing => EditIs(p, n, s))
    BY <1>1, <2>1 DEF FormInv, OldForm
  <2>3. OldIs(p, n, s)'
    BY <1>1, <1>2, <2>2 DEF OldIs, Editing
  <2>4. Editing => EditIs(p, n, s)'
    <3>1. \A k : Edited(n, s, k)' = Edited(n, s, k)
      BY <1>1 DEF Edited, Done, Goal, At
    <3>. QED
      BY <1>1, <2>2, <3>1 DEF EditIs
  <2>. QED
    BY <1>2, <2>1, <2>3, <2>4 DEF OldForm
<1>. QED
  BY <1>3, <1>4, <1>5, <1>6 DEF FormInv

LEMMA FormFault ==
    ASSUME TypeInv, TypeInv', SetInv, FormInv, SetsFinished, IoError \/ Crash \/ NoSpace \/ Panic
    PROVE  /\ FormInv'
           /\ Same(Visible, Visible') \/ (op.pc = "retire" /\ op.i = 1 /\ op.kind = "rename" /\ (IoError \/ Crash))
<1>1. /\ slots' = slots /\ length' = length /\ op' = Idle /\ Forgets
  BY DEF IoError, Crash, NoSpace, Panic, Restart, device, Forgets
<1>2. op'.pc = "idle" /\ op'.kind = "none" /\ op'.old = <<>>
  BY <1>1, IdleOK
<1>3. op.pc \notin {"write", "seal", "rename", "reseal"}
  <2>1. ~Panic
    BY NoPanic DEF Panic
  <2>2. CASE NoSpace
    BY <2>2 DEF NoSpace, At
  <2>3. CASE IoError \/ Crash
    BY <2>3 DEF IoError, Crash, SetsFinished
  <2>. QED
    BY <2>1, <2>2, <2>3
<1>4. op.pc = "retire" => IoError \/ Crash
  <2>1. ~Panic
    BY NoPanic DEF Panic
  <2>. QED
    BY <2>1 DEF NoSpace, At
<1>. QED
  BY <1>1, <1>2, <1>3, <1>4, FormOver

LEMMA FormStep ==
    ASSUME TypeInv, TypeInv', RecordInv, EndsInv, SetInv, FormInv, SetsFinished, RenamesFit, [Next]_vars
    PROVE  FormInv'
<1>1. ASSUME NEW n \in Names,
             \/ Open(n) \/ Close(n) \/ LookupFails(n)
             \/ \E k \in 1..(MaxClusters * SectorsPerCluster) : LookupIoError(n, k)
      PROVE  FormInv'
  BY <1>1, FormLookups
<1>2. ASSUME NEW n \in Names, CreateAbsent(n)
      PROVE  FormInv'
  BY <1>2, FormAbsent
<1>3. ASSUME NEW n \in Names, CreateExisting(n) \/ Remove(n) \/ \E s \in Streams : Update(n, s)
      PROVE  FormInv'
  BY <1>3, FormBegins
<1>4. ASSUME NEW e \in Renames, Rename(e[1], e[2])
      PROVE  FormInv'
  BY <1>4, FormRename
<1>5. CASE Search \/ ReachEnd \/ LinkCluster \/ PadOldTail \/ RecordLength \/ SealLength
  BY <1>5, FormSearch, FormReachEnd, FormLink, FormPad, FormRecord
<1>6. CASE NoSpace \/ Panic \/ IoError \/ Crash
  BY <1>6, FormFault
<1>7. CASE WriteSlot
  BY <1>7, FormWrite
<1>8. CASE SealNewSet
  BY <1>8, FormSealCreate, FormSealRename
<1>9. CASE RetireSlot
  BY <1>9, FormRetireFirst, FormRetireRest
<1>10. CASE RenameStream \/ RenameSlot \/ UpdateStream
  BY <1>10, FormRenameStream, FormRenameSlot, FormUpdateStream
<1>11. CASE Reseal
  BY <1>11, FormReseal
<1>12. CASE UNCHANGED vars
  BY <1>12, FormKept
<1>. QED
  BY <1>1, <1>2, <1>3, <1>4, <1>5, <1>6, <1>7, <1>8, <1>9, <1>10, <1>11, <1>12 DEF Next, Step

(* What the theorems assume: of the directory at first, of the callers and *)
(* of the faults.                                                          *)
Listable ==
    /\ InitialFormed /\ InitialEndsLast /\ Fits /\ LookupsWhole /\ LookupsFinished
    /\ SetsFinished /\ RenamesFit

ListInv == TypeInv /\ RecordInv /\ EndsInv /\ SetInv /\ FormInv

LEMMA ListStep ==
    ASSUME Listable, ListInv, [Next]_vars
    PROVE  ListInv' /\ decoder' = FreshDecoder
<1>1. TypeInv'
  BY TypeStep DEF ListInv
<1>2. RecordInv'
  BY RecordStep DEF ListInv
<1>3. EndsInv'
  BY EndsStep DEF ListInv, Listable
<1>4. decoder' = FreshDecoder
  BY WorkspaceFresh DEF ListInv, Listable
<1>5. SetInv'
  BY <1>4, SetStep DEF ListInv, Listable, RenamesFit
<1>6. FormInv'
  BY <1>1, FormStep DEF ListInv, Listable
<1>. QED
  BY <1>1, <1>2, <1>3, <1>4, <1>5, <1>6 DEF ListInv

LEMMA ListInvariant ==
    ASSUME Listable
    PROVE  Spec => []ListInv
<1>1. Init => ListInv
  BY TypeInit, RecordInit, EndsInit, SetInit, FormInit DEF ListInv, Listable
<1>2. ListInv /\ [Next]_vars => ListInv'
  BY ListStep
<1>. QED
  BY <1>1, <1>2, PTL DEF Spec

(* A call answers as with a new Workspace: every scan that ends leaves no  *)
(* set begun.                                                              *)
THEOREM WorkspaceStaysReusable ==
    ASSUME Listable
    PROVE  Spec => []WorkspaceReusable
<1>1. ListInv => WorkspaceReusable
  BY DEF ListInv, SetInv, WorkspaceReusable, Begin
<1>. QED
  BY <1>1, ListInvariant, PTL

(* A listing meets no slot that it cannot take: operations that end, and   *)
(* those that growing, retiring or an update in place left off, leave the  *)
(* directory readable.                                                     *)
THEOREM ScansAlwaysEnd ==
    ASSUME Listable
    PROVE  Spec => []ScansEnd
<1>1. ListInv => ScansEnd
  BY IdleViews, ShownIs DEF ListInv, ScansEnd
<1>. QED
  BY <1>1, ListInvariant, PTL

(* No two sets a listing shows carry one name.                             *)
THEOREM NamesStayUnique ==
    ASSUME Listable
    PROVE  Spec => []NamesUnique
<1>1. ListInv => NamesUnique
  <2>. SUFFICES ASSUME ListInv, At("idle"), NEW d \in Listed, NEW e \in Listed, d.name = e.name
                PROVE  d = e
    BY DEF NamesUnique
  <2>1. PICK v : v = Visible
    OBVIOUS
  <2>2. Legible(v) /\ Listed = Shown(v) /\ Once(v)
    BY <2>1, IdleViews DEF ListInv, Listed, FormInv, SetsHeld
  <2>3. PICK p \in DOMAIN v, n \in Names, s \in Given : FoundIn(v, d, p, n, s)
    BY <2>2, ShownIs
  <2>4. PICK q \in DOMAIN v, m \in Names, r \in Given : FoundIn(v, e, q, m, r)
    BY <2>2, ShownIs
  <2>5. n = m
    BY <2>3, <2>4, NamedOnce DEF FoundIn, IsNamed
  <2>6. p = q
    BY <2>2, <2>3, <2>4, <2>5 DEF Once, FoundIn
  <2>. QED
    BY <2>2, <2>3, <2>4, <2>6, ShownIs
<1>. QED
  BY <1>1, ListInvariant, PTL

-----------------------------------------------------------------------------
(* The directory as a map.                                                 *)

(* A view at any point of an operation is one that a scan can read.        *)
Readily(v) == Legible(v) /\ Once(v)

LEMMA GoneSlots ==
    /\ GoneSlot \in Slot /\ GoneSlot.tag # "end"
    /\ \A n \in Names, s \in Given : \A k \in 1..SetSize(n) :
           /\ SealedSet(n, s)[k] \in Slot /\ SealedSet(n, s)[k].tag # "end"
           /\ NewSet(n, s)[k].tag # "end"
<1>1. GoneSlot \in Slot /\ GoneSlot.tag # "end"
  BY DEF GoneSlot, Slot, Contents, Parts
<1>2. ASSUME NEW n \in Names, NEW s \in Given, NEW k \in 1..SetSize(n)
      PROVE  /\ SealedSet(n, s)[k] \in Slot /\ SealedSet(n, s)[k].tag # "end"
             /\ NewSet(n, s)[k].tag # "end"
  <2>1. /\ SealedSet(n, s) \in Seq(Slot) /\ DOMAIN SealedSet(n, s) = 1..SetSize(n)
        /\ SealedSet(n, s)[k].tag # "end" /\ (k # 1 => SealedSet(n, s)[k] = NewSet(n, s)[k])
        /\ NewSet(n, s)[1] = Primary(SetSize(n) - 1, <<>>) /\ SetSize(n) \in Nat
    BY SealedSlots
  <2>2. Primary(SetSize(n) - 1, <<>>).tag = "primary"
    BY SlotKinds
  <2>. QED
    BY <2>1, <2>2
<1>. QED
  BY <1>1, <1>2

(* A part of the slots replaced by what ends nothing, when an end marker   *)
(* in front of it is none that is left.                                    *)
LEMMA EndsCovered ==
    ASSUME DeviceOK, EndMarkersLast, NEW T,
           \A i \in DOMAIN Visible : i \notin T => Visible[i] = slots[i],
           \A i \in DOMAIN Visible : i \in T => Visible[i].tag # "end",
           \A i, j \in DOMAIN slots : i <= j /\ i \notin T /\ j \in T => slots[i].tag # "end" \/ slots[j].tag # "end"
    PROVE  EndsBehind(Visible)
<1>1. PICK v : v = Visible
  OBVIOUS
<1>2. /\ IsView(v) /\ Len(v) <= Len(slots) /\ Len(slots) \in Nat /\ Len(v) \in Nat /\ DOMAIN slots = 1..Len(slots)
  BY <1>1, Views
<1>3. ASSUME NEW i \in DOMAIN v, v[i].tag = "end", NEW j \in i..Len(v)
      PROVE  v[j].tag = "end"
  <2>1. i \in 1..Len(v) /\ j \in DOMAIN v /\ i \in DOMAIN slots /\ j \in DOMAIN slots /\ j \in i..Len(slots) /\ i <= j
    BY <1>2, <1>3 DEF IsView
  <2>2. i \notin T /\ slots[i].tag = "end"
    BY <1>1, <1>3
  <2>3. slots[j].tag = "end"
    BY <2>1, <2>2 DEF EndMarkersLast
  <2>. QED
    BY <1>1, <2>1, <2>2, <2>3
<1>. QED
  BY <1>1, <1>3 DEF EndsBehind

LEMMA VisibleReadily ==
    ASSUME TypeInv, EndsInv, SetInv, FormInv
    PROVE  Readily(Visible)
<1>1. /\ DeviceOK /\ EndMarkersLast /\ Formed(Visible) /\ Once(Visible) /\ op.name \in Names \cup {None}
      /\ op.pc \in {"write", "seal"} => op.name \in Names
  BY DEF TypeInv, EndsInv, FormInv, SetsHeld, OpOK, OpType
<1>2. /\ IsView(Visible) /\ DOMAIN slots = 1..Len(slots)
      /\ \A i \in DOMAIN Visible : i \in Nat /\ i \in DOMAIN slots /\ Visible[i] = Sight(slots, op, i)
  BY <1>1, Views
<1>3. \A i \in DOMAIN slots : slots[i] \in Slot
  BY <1>1 DEF DeviceOK
<1>. DEFINE Covering(U) ==
                /\ \A i \in DOMAIN Visible : i \notin U => Visible[i] = slots[i]
                /\ \A i \in DOMAIN Visible : i \in U => Visible[i] \in Slot /\ Visible[i].tag # "end"
                /\ \A i, j \in DOMAIN slots : i <= j /\ i \notin U /\ j \in U =>
                       slots[i].tag # "end" \/ slots[j].tag # "end"
<1>4. SUFFICES \E U : Covering(U)
  <2>1. PICK U : Covering(U)
    BY <1>4
  <2>2. EndsBehind(Visible)
    BY <1>1, <2>1, EndsCovered
  <2>3. \A i \in DOMAIN Visible : Visible[i] \in Slot
    BY <1>2, <1>3, <2>1
  <2>. QED
    BY <1>1, <1>2, <2>2, <2>3 DEF Readily, Legible
<1>5. CASE /\ op.pc \notin {"write", "seal", "rename", "stream", "reseal"}
           /\ op.pc = "retire" => op.i # 1 \/ op.locs = <<>>
  <2>1. \A i : Sight(slots, op, i) = slots[i]
    BY <1>5, SightPlain
  <2>2. \A i \in DOMAIN Visible : i \notin {} => Visible[i] = slots[i]
    BY <1>2, <2>1
  <2>3. Covering({})
    BY <2>2
  <2>. HIDE DEF Covering
  <2>. QED
    BY <2>3
<1>6. CASE Placing
  <2>1. op.pc \in {"write", "seal"} \/ (op.pc = "retire" /\ op.i = 1 /\ op.kind = "rename")
    BY <1>6 DEF Placing, At
  <2>2. op.name \in Names /\ op.stream \in Given
    BY <1>1, <1>6, <2>1 DEF FormInv, NewForm, TypeInv, OpOK
  <2>3. PICK q \in DOMAIN Visible : op.locs = Run(q, op.name) /\ (At("retire") => Written(q))
    BY <1>6 DEF FormInv, NewForm, Room
  <2>4. q \in Nat /\ SetSize(op.name) \in Nat \ {0, 1, 2}
    BY <1>2, <2>2, Parameters
  <2>5. /\ DOMAIN op.locs = 1..SetSize(op.name)
        /\ \A k \in 1..SetSize(op.name) : op.locs[k] = q + k - 1
        /\ \A i \in Span(q, op.name) : i - q + 1 \in 1..SetSize(op.name) /\ op.locs[i - q + 1] = i
    <3>1. PICK m, l : m = op.name /\ l = op.locs
      OBVIOUS
    <3>2. m \in Names /\ l = Run(q, m)
      BY <2>2, <2>3, <3>1
    <3>3. DOMAIN l = 1..SetSize(m) /\ \A k \in 1..SetSize(m) : l[k] = q + k - 1
      BY <2>4, <3>2, RunLocs
    <3>4. q \in Nat /\ m \in Names
      BY <2>4, <3>2
    <3>5. ASSUME NEW i \in Span(q, m) PROVE i - q + 1 \in 1..SetSize(m) /\ l[i - q + 1] = i
      <4>1. PICK z \in Nat : z = SetSize(m)
        BY <2>4, <3>1
      <4>2. i - q + 1 \in 1..z /\ q + (i - q + 1) - 1 = i
        BY <3>4, <4>1 DEF Span
      <4>. QED
        BY <3>3, <4>1, <4>2
    <3>. QED
      BY <3>1, <3>2, <3>3, <3>5
  <2>6. ASSUME NEW i \in DOMAIN Visible
        PROVE  /\ i \in Span(q, op.name) => Visible[i] = GoneSlot
               /\ i \notin Span(q, op.name) => Visible[i] = slots[i]
    <3>1. /\ i \in Span(q, op.name) => Sight(slots, op, i) = GoneSlot
          /\ i \notin Span(q, op.name) => Sight(slots, op, i) = slots[i]
      BY ONLY <2>1, <2>2, <2>3, <2>4, SightPlacing
    <3>. QED
      BY <1>2, <3>1
  <2>7. ASSUME NEW i \in DOMAIN slots, NEW j \in DOMAIN slots, i <= j, i \notin Span(q, op.name), j \in Span(q, op.name)
        PROVE  slots[i].tag # "end" \/ slots[j].tag # "end"
    <3>1. CASE op.pc = "write"
      <4>1. op.i \in DOMAIN op.locs /\ NoEnd(op.locs[op.i] - 1)
        BY <3>1 DEF TypeInv, OpOK, EndsInv, At
      <4>2. op.i \in 1..SetSize(op.name) /\ op.locs[op.i] = q + op.i - 1
        BY <2>5, <4>1
      <4>3. i <= op.locs[op.i] - 1
        BY <1>2, <2>4, <2>7, <4>2 DEF Span
      <4>. QED
        BY <4>1, <4>3 DEF NoEnd
    <3>2. CASE op.pc = "seal"
      <4>1. \A k \in DOMAIN op.locs : slots[op.locs[k]] = NewSet(op.name, op.stream)[k]
        BY <3>2 DEF SetInv, NewWhole, At
      <4>2. slots[j] = NewSet(op.name, op.stream)[j - q + 1] /\ j - q + 1 \in 1..SetSize(op.name)
        BY <2>5, <2>7, <4>1
      <4>. QED
        BY <2>2, <4>2, GoneSlots
    <3>3. CASE op.pc = "retire"
      <4>1. j - q + 1 \in 1..SetSize(op.name) /\ q + (j - q + 1) - 1 = j
        BY <1>2, <2>4, <2>5, <2>7
      <4>2. slots[j] = SealedSet(op.name, op.stream)[j - q + 1]
        BY <2>3, <3>3, <4>1 DEF Written, At
      <4>. QED
        BY <2>2, <4>1, <4>2, GoneSlots
    <3>. QED
      BY <2>1, <3>1, <3>2, <3>3
  <2>8. \A i \in DOMAIN Visible : i \in Span(q, op.name) => Visible[i] \in Slot /\ Visible[i].tag # "end"
    BY <2>6, GoneSlots
  <2>9. Covering(Span(q, op.name))
    BY <2>6, <2>7, <2>8
  <2>. HIDE DEF Covering
  <2>. QED
    BY <2>9
<1>7. CASE op.pc \in {"rename", "stream", "reseal"}
  <2>1. PICK p \in DOMAIN Visible, n \in Names, s \in Given : OldIs(p, n, s) /\ EditIs(p, n, s)
    BY <1>7, SetEdited
  <2>2. p \in Nat /\ op.old = Run(p, n) /\ op.before = SealedSet(n, s) /\ SetSize(n) \in Nat \ {0, 1, 2}
    BY <1>2, <2>1, Parameters DEF OldIs
  <2>3. ASSUME NEW i \in Span(p, n) PROVE i \in Nat /\ i - p + 1 \in 1..SetSize(n) /\ p + (i - p + 1) - 1 = i
    BY <2>2, <2>3 DEF Span
  <2>4. ASSUME NEW i \in DOMAIN Visible
        PROVE  /\ i \in Span(p, n) => Visible[i] = SealedSet(n, s)[i - p + 1]
               /\ i \notin Span(p, n) => Visible[i] = slots[i]
    <3>1. /\ i \in Span(p, n) => Sight(slots, op, i) = op.before[i - p + 1]
          /\ i \notin Span(p, n) => Sight(slots, op, i) = slots[i]
      BY ONLY <1>7, <2>2, n \in Names, SightEditing
    <3>. QED
      BY <1>2, <2>2, <3>1
  <2>5. ASSUME NEW j \in Span(p, n) PROVE slots[j].tag # "end"
    <3>1. j - p + 1 \in 1..SetSize(n) /\ slots[j] = Edited(n, s, j - p + 1)
      BY <2>1, <2>3 DEF EditIs
    <3>2. SetSize(op.name) = SetSize(n) /\ (op.kind = "rename" => op.name \in Names) /\ (op.kind # "rename" => op.stream \in Given)
      BY <2>1, DirectoryAssumption DEF OldIs, EditIs
    <3>3. CASE op.kind = "rename"
      BY <3>1, <3>2, <3>3, GoneSlots DEF Edited, Goal
    <3>4. CASE op.kind # "rename"
      BY <3>1, <3>2, <3>4, GoneSlots DEF Edited, Goal
    <3>. QED
      BY <3>3, <3>4
  <2>6. \A i \in DOMAIN Visible : i \in Span(p, n) => Visible[i] \in Slot /\ Visible[i].tag # "end"
    BY <2>3, <2>4, GoneSlots
  <2>7. Covering(Span(p, n))
    BY <2>4, <2>5, <2>6
  <2>. HIDE DEF Covering
  <2>. QED
    BY <2>7
<1>8. op.pc = "retire" => op.kind \in {"remove", "rename"}
  BY DEF TypeInv, OpOK, SetInv, OldWhole, At
<1>9. op.pc = "retire" /\ op.kind = "remove" => op.locs = <<>>
  BY DEF FormInv, NewForm, At
<1>. QED
  BY <1>5, <1>6, <1>7, <1>8, <1>9 DEF Placing, At

(* The map that a view shows.                                              *)
Seen(shown, n) == \E d \in shown : IsNamed(d, n)
Chosen(shown, n) == IF Seen(shown, n) THEN (CHOOSE d \in shown : IsNamed(d, n)).stream ELSE None
MapOf(v) == [n \in Names |-> Chosen(Shown(v), n)]

LEMMA EntriesAre == Entries = MapOf(Visible) /\ Entries' = MapOf(Visible')
<1>. DEFINE Named(shown) ==
                [n \in Names |-> IF \E d \in shown : IsNamed(d, n)
                                 THEN (CHOOSE d \in shown : IsNamed(d, n)).stream ELSE None]
<1>1. \A v : Named(Shown(v)) = MapOf(v)
  BY DEF MapOf, Chosen, Seen
<1>2. \A x : (CHOOSE r \in {Named(y) : y \in {x}} : TRUE) = Named(x)
  <2>. HIDE DEF Named
  <2>1. ASSUME NEW x PROVE {Named(y) : y \in {x}} = {Named(x)}
    OBVIOUS
  <2>2. \A z : (CHOOSE r \in {z} : TRUE) = z
    OBVIOUS
  <2>. QED
    BY <2>1, <2>2
<1>3. Entries = Named(Shown(Visible))
  <2>1. Entries = (CHOOSE r \in {Named(y) : y \in {Shown(Visible)}} : TRUE)
    BY DEF Entries, Apply, Visible
  <2>. HIDE DEF Named
  <2>. QED
    BY <1>2, <2>1
<1>4. Entries' = Named(Shown(Visible'))
  <2>1. Entries' = (CHOOSE r \in {Named(y) : y \in {Shown(Visible')}} : TRUE)
    BY DEF Entries, Apply, Visible
  <2>. HIDE DEF Named
  <2>. QED
    BY <1>2, <2>1
<1>. HIDE DEF Named
<1>. QED
  BY <1>1, <1>3, <1>4

LEMMA MapIs ==
    ASSUME NEW v, Readily(v)
    PROVE  /\ DOMAIN MapOf(v) = Names /\ MapOf(v) = [n \in Names |-> MapOf(v)[n]]
           /\ \A n \in Names, p \in DOMAIN v, s \in Given : Held(v, p, n, s) => MapOf(v)[n] = s
           /\ \A n \in Names : Absent(v, n) => MapOf(v)[n] = None
<1>1. \A n \in Names : MapOf(v)[n] = Chosen(Shown(v), n)
  BY DEF MapOf
<1>2. Legible(v) /\ Once(v)
  BY DEF Readily
<1>3. ASSUME NEW n \in Names, NEW p \in DOMAIN v, NEW s \in Given, Held(v, p, n, s)
      PROVE  Chosen(Shown(v), n) = s
  <2>1. PICK d \in Shown(v) : FoundIn(v, d, p, n, s)
    BY <1>2, <1>3, ShownIs
  <2>2. IsNamed(d, n) /\ d.stream = s
    BY <2>1 DEF FoundIn
  <2>3. ASSUME NEW e \in Shown(v), IsNamed(e, n) PROVE e.stream = s
    <3>1. PICK q \in DOMAIN v, m \in Names, r \in Given : FoundIn(v, e, q, m, r)
      BY <1>2, ShownIs
    <3>2. n = m
      BY <2>3, <3>1, NamedOnce DEF FoundIn, IsNamed
    <3>3. p = q
      BY <1>2, <1>3, <3>1, <3>2 DEF Once, FoundIn
    <3>4. Held(v, p, n, r) /\ IsView(v)
      BY <1>2, <3>1, <3>2, <3>3 DEF FoundIn, Legible
    <3>5. r = s
      BY <1>3, <3>4, HeldSame
    <3>. QED
      BY <3>1, <3>5 DEF FoundIn
  <2>. QED
    BY <2>2, <2>3 DEF Chosen, Seen
<1>4. ASSUME NEW n \in Names, Absent(v, n)
      PROVE  Chosen(Shown(v), n) = None
  <2>1. ASSUME NEW e \in Shown(v), IsNamed(e, n) PROVE FALSE
    <3>1. PICK q \in DOMAIN v, m \in Names, r \in Given : FoundIn(v, e, q, m, r)
      BY <1>2, ShownIs
    <3>2. n = m
      BY <2>1, <3>1, NamedOnce DEF FoundIn, IsNamed
    <3>. QED
      BY <1>4, <3>1, <3>2 DEF Absent, FoundIn
  <2>. QED
    BY <2>1 DEF Chosen, Seen
<1>5. DOMAIN MapOf(v) = Names /\ MapOf(v) = [n \in Names |-> MapOf(v)[n]]
  BY DEF MapOf
<1>. QED
  BY <1>1, <1>3, <1>4, <1>5

(* A name whose sets two views have in common is mapped alike.             *)
SetsAlike(v, w, n) ==
    /\ \A p \in DOMAIN v, s \in Given : Held(v, p, n, s) => Held(w, p, n, s)
    /\ Absent(v, n) => Absent(w, n)

LEMMA MappedAlike ==
    ASSUME NEW v, Readily(v), NEW w, Readily(w), NEW n \in Names, SetsAlike(v, w, n)
    PROVE  MapOf(w)[n] = MapOf(v)[n]
<1>1. CASE Absent(v, n)
  BY <1>1, MapIs DEF SetsAlike
<1>2. CASE ~Absent(v, n)
  <2>1. PICK p \in DOMAIN v, s \in Given : Held(v, p, n, s)
    BY <1>2 DEF Absent
  <2>2. Held(w, p, n, s) /\ p \in DOMAIN w
    BY <2>1, HeldIn DEF SetsAlike
  <2>. QED
    BY <2>1, <2>2, MapIs
<1>. QED
  BY <1>1, <1>2

LEMMA MapSame ==
    ASSUME NEW v, Readily(v), NEW w, Readily(w), Same(v, w)
    PROVE  MapOf(w) = MapOf(v)
<1>1. ASSUME NEW n \in Names PROVE MapOf(w)[n] = MapOf(v)[n]
  <2>1. SetsAlike(v, w, n)
    BY HeldIn DEF SetsAlike, Same, Absent
  <2>. QED
    BY <2>1, MappedAlike
<1>2. MapOf(v) = [n \in Names |-> MapOf(v)[n]] /\ MapOf(w) = [n \in Names |-> MapOf(w)[n]]
  BY MapIs
<1>. QED
  BY <1>1, <1>2

(* One name is given a stream, or taken away, or gives way to another.     *)
LEMMA MapChanged ==
    ASSUME NEW v, Readily(v), NEW w, Readily(w), NEW n \in Names, NEW x, MapOf(w)[n] = x,
           \A m \in Names : m # n => SetsAlike(v, w, m)
    PROVE  MapOf(w) = [MapOf(v) EXCEPT ![n] = x]
<1>1. \A m \in Names : m # n => MapOf(w)[m] = MapOf(v)[m]
  BY MappedAlike
<1>2. /\ MapOf(v) = [m \in Names |-> MapOf(v)[m]] /\ MapOf(w) = [m \in Names |-> MapOf(w)[m]]
      /\ DOMAIN MapOf(v) = Names
  BY MapIs
<1>. QED
  BY <1>1, <1>2

Added(v, w, q, m, r) ==
    \A n \in Names, s \in Given : \A p :
        Held(w, p, n, s) <=> Held(v, p, n, s) \/ (p = q /\ n = m /\ s = r)

LEMMA MapCreated ==
    ASSUME NEW v, Readily(v), NEW w, Readily(w), NEW q \in DOMAIN w, NEW m \in Names, NEW r \in Given,
           Added(v, w, q, m, r)
    PROVE  MapOf(w) = [MapOf(v) EXCEPT ![m] = r]
<1>1. Held(w, q, m, r)
  BY DEF Added
<1>2. MapOf(w)[m] = r
  BY <1>1, MapIs
<1>3. \A n \in Names : n # m => SetsAlike(v, w, n)
  BY HeldIn DEF SetsAlike, Absent, Added
<1>. QED
  BY <1>2, <1>3, MapChanged

LEMMA MapRemoved ==
    ASSUME NEW v, Readily(v), NEW w, Readily(w), NEW p \in DOMAIN v, NEW n \in Names, NEW s \in Given,
           Held(v, p, n, s), OnlyGone(v, w, p)
    PROVE  MapOf(w) = [MapOf(v) EXCEPT ![n] = None]
<1>1. IsView(v) /\ Once(v)
  BY DEF Readily, Legible
<1>2. Absent(w, n)
  BY <1>1, HeldIn DEF OnlyGone, Once, Absent
<1>3. MapOf(w)[n] = None
  BY <1>2, MapIs
<1>4. ASSUME NEW m \in Names, m # n PROVE SetsAlike(v, w, m)
  <2>1. \A x \in DOMAIN v, r \in Given : Held(v, x, m, r) => x # p
    BY <1>1, <1>4, HeldSame
  <2>. QED
    BY <2>1, HeldIn DEF SetsAlike, Absent, OnlyGone
<1>. QED
  BY <1>3, <1>4, MapChanged

LEMMA MapReplaced ==
    ASSUME NEW v, Readily(v), NEW w, Readily(w), NEW p \in DOMAIN v, NEW n \in Names, NEW s \in Given,
           Held(v, p, n, s), NEW q \in DOMAIN v, NEW m \in Names, NEW r \in Given, Replaced(v, w, p, q, m, r)
    PROVE  /\ MapOf(v)[n] = s
           /\ m = n => MapOf(w) = [MapOf(v) EXCEPT ![n] = r]
           /\ m # n => MapOf(w) = [[MapOf(v) EXCEPT ![n] = None] EXCEPT ![m] = r]
<1>1. IsView(v) /\ Once(v)
  BY DEF Readily, Legible
<1>2. MapOf(v)[n] = s
  BY MapIs
<1>3. Held(w, q, m, r) /\ q \in DOMAIN w
  BY HeldIn DEF Replaced
<1>4. MapOf(w)[m] = r
  BY <1>3, MapIs
<1>5. ASSUME NEW k \in Names, k # n, k # m PROVE SetsAlike(v, w, k)
  <2>1. \A x \in DOMAIN v, t \in Given : Held(v, x, k, t) => x # p
    BY <1>1, <1>5, HeldSame
  <2>. QED
    BY <1>5, <2>1, HeldIn DEF SetsAlike, Absent, Replaced
<1>6. CASE m = n
  <2>1. \A k \in Names : k # n => SetsAlike(v, w, k)
    BY <1>5, <1>6
  <2>2. MapOf(w) = [MapOf(v) EXCEPT ![n] = r]
    BY <1>4, <1>6, <2>1, MapChanged
  <2>. QED
    BY <1>2, <1>6, <2>2
<1>7. CASE m # n
  <2>1. Absent(w, n)
    BY <1>1, <1>7, HeldIn DEF Replaced, Once, Absent
  <2>2. MapOf(w)[n] = None
    BY <2>1, MapIs
  <2>3. \A k \in Names : k # n /\ k # m => MapOf(w)[k] = MapOf(v)[k]
    BY <1>5, MappedAlike
  <2>4. /\ MapOf(v) = [k \in Names |-> MapOf(v)[k]] /\ MapOf(w) = [k \in Names |-> MapOf(w)[k]]
        /\ DOMAIN MapOf(v) = Names
    BY MapIs
  <2>5. MapOf(w) = [[MapOf(v) EXCEPT ![n] = None] EXCEPT ![m] = r]
    BY <1>4, <1>7, <2>2, <2>3, <2>4
  <2>. QED
    BY <1>2, <1>7, <2>5
<1>. QED
  BY <1>6, <1>7

-----------------------------------------------------------------------------
(* Each step as one of the abstract directory.                             *)

(* rename keeps a stream whose valid_length is its data_length, and no     *)
(* fault leaves the two sets of a rename behind.                           *)
StreamsWhole == \A s \in Streams : s.valid = s.data
RenamesFinished == Faults = {} \/ "retire" \notin FaultPoints \/ Renames = {}

LEMMA RelocatedWhole ==
    ASSUME StreamsWhole, NEW s \in Given
    PROVE  Relocated(s) = s /\ s # None
<1>1. ASSUME NEW t \in Stream PROVE t.valid = t.data => Relocated(t) = t
  BY DEF Stream, Relocated
<1>2. Streams \subseteq Stream /\ None \notin Stream /\ Given \subseteq Stream
  BY ContentsAssumption, GivenStreams
<1>3. ASSUME NEW t \in Streams PROVE Relocated(t) = t
  BY <1>1, <1>2 DEF StreamsWhole
<1>4. s \in Streams
  BY <1>3 DEF Given
<1>. QED
  BY <1>2, <1>3, <1>4

LEMMA EffectIs ==
    ASSUME NEW e, DOMAIN e = Names, op.name \in Names
    PROVE  /\ op.kind = "create" => [e EXCEPT ![op.name] = Empty] \in Directory!Effects(e, Call)
           /\ op.kind = "remove" => [e EXCEPT ![op.name] = None] \in Directory!Effects(e, Call)
           /\ op.kind = "update" /\ e[op.name] # None =>
                  [e EXCEPT ![op.name] = op.stream] \in Directory!Effects(e, Call)
           /\ op.kind = "rename" =>
                  \A n \in Names : <<n, op.name>> \in Renames /\ e[n] # None /\ e[op.name] = None =>
                      [[e EXCEPT ![n] = None] EXCEPT ![op.name] = e[n]] \in Directory!Effects(e, Call)
<1>1. Call.kind = op.kind /\ Call.name = op.name /\ Call.stream = op.stream
  BY DEF Call
<1>2. ASSUME op.kind = "create" PROVE [e EXCEPT ![op.name] = Empty] \in Directory!Effects(e, Call)
  BY <1>1, <1>2 DEF Directory!Effects, Directory!Set
<1>3. ASSUME op.kind = "remove" PROVE [e EXCEPT ![op.name] = None] \in Directory!Effects(e, Call)
  BY <1>1, <1>3 DEF Directory!Effects, Directory!Set
<1>4. ASSUME op.kind = "update", e[op.name] # None
      PROVE  [e EXCEPT ![op.name] = op.stream] \in Directory!Effects(e, Call)
  <2>1. Directory!Effects(e, Call) = Directory!Updated(e, Call)
    BY <1>1, <1>4 DEF Directory!Effects
  <2>2. op.name \in Directory!Present(e) \cap {Call.name}
    BY <1>1, <1>4 DEF Directory!Present
  <2>3. Directory!Set(e, op.name, Call.stream) \in Directory!Updated(e, Call)
    BY <2>2 DEF Directory!Updated
  <2>. QED
    BY <1>1, <2>1, <2>3 DEF Directory!Set
<1>5. ASSUME op.kind = "rename", NEW n \in Names, <<n, op.name>> \in Renames, e[n] # None, e[op.name] = None
      PROVE  [[e EXCEPT ![n] = None] EXCEPT ![op.name] = e[n]] \in Directory!Effects(e, Call)
  <2>1. Directory!Effects(e, Call) = Directory!Renamed(e, Call)
    BY <1>1, <1>5 DEF Directory!Effects
  <2>2. PICK p : p = <<n, op.name>>
    OBVIOUS
  <2>3. p[1] = n /\ p[2] = op.name
    BY <2>2
  <2>4. p \in {q \in Renames : /\ q[2] = Call.name /\ q[1] \in Directory!Present(e)
                               /\ q[2] \notin Directory!Present(e)}
    BY <1>1, <1>5, <2>2, <2>3 DEF Directory!Present
  <2>5. Directory!Set(Directory!Set(e, p[1], None), p[2], e[p[1]]) \in Directory!Renamed(e, Call)
    BY <2>4 DEF Directory!Renamed
  <2>. QED
    BY <2>1, <2>3, <2>5 DEF Directory!Set
<1>. QED
  BY <1>2, <1>3, <1>4, <1>5

LEMMA RenameEffect ==
    ASSUME NEW e, DOMAIN e = Names, op.name \in Names, op.kind = "rename",
           NEW n \in Names, <<n, op.name>> \in Renames, NEW s, e[n] = s, s # None, e[op.name] = None,
           NEW f, f = [[e EXCEPT ![n] = None] EXCEPT ![op.name] = s]
    PROVE  f \in Directory!Effects(e, Call)
BY EffectIs

LEMMA OwnEffect ==
    ASSUME NEW e, DOMAIN e = Names, NEW n \in Names, n = op.name, op.kind \in {"create", "update"},
           op.kind = "create" => op.stream = Empty, e[n] # None,
           NEW f, f = [e EXCEPT ![n] = op.stream]
    PROVE  f \in Directory!Effects(e, Call)
<1>1. CASE op.kind = "create"
  BY <1>1, EffectIs
<1>2. CASE op.kind = "update"
  BY <1>2, EffectIs
<1>. QED
  BY <1>1, <1>2

(* Most steps are none of the directory's.                                 *)
Stutters == Same(Visible, Visible')

LEMMA StutterSteps ==
    ASSUME Readily(Visible), Readily(Visible'), Stutters
    PROVE  Directory!Next
<1>1. Entries' = Entries
  BY EntriesAre, MapSame DEF Stutters
<1>. QED
  BY <1>1 DEF Directory!Next

LEMMA EffectSteps ==
    ASSUME NEW e, e = MapOf(Visible), NEW f, f = MapOf(Visible'), f \in Directory!Effects(e, Call)
    PROVE  Directory!Next
BY EntriesAre DEF Directory!Next

LEMMA CreateSteps ==
    ASSUME TypeInv, TypeInv', SetInv, FormInv, Readily(Visible), Readily(Visible'), SealNewSet, op.kind # "rename"
    PROVE  Directory!Next
<1>1. op.kind = "create" /\ op.name \in Names /\ op.pc = "seal"
  BY SetSealed
<1>2. op.stream = Empty
  BY <1>1 DEF FormInv, NewForm, Writing
<1>3. PICK v, w : v = Visible /\ w = Visible'
  OBVIOUS
<1>4. Readily(v) /\ Readily(w)
  BY <1>3
<1>5. PICK q \in DOMAIN w : Added(v, w, q, op.name, op.stream)
  BY <1>3, FormSealCreate DEF Added
<1>6. op.stream \in Given
  BY FormSealCreate
<1>7. MapOf(w) = [MapOf(v) EXCEPT ![op.name] = op.stream]
  BY <1>1, <1>4, <1>5, <1>6, MapCreated
<1>8. DOMAIN MapOf(v) = Names
  BY <1>4, MapIs
<1>9. MapOf(w) \in Directory!Effects(MapOf(v), Call)
  BY <1>1, <1>2, <1>7, <1>8, EffectIs
<1>. QED
  BY <1>3, <1>9, EffectSteps

LEMMA RetireSteps ==
    ASSUME TypeInv, TypeInv', SetInv, FormInv, Readily(Visible), Readily(Visible'), StreamsWhole, RetireSlot, op.i = 1
    PROVE  Directory!Next
<1>1. op.kind \in {"remove", "rename"} /\ op.name \in Names
  BY SlotRetired
<1>2. PICK v, w : v = Visible /\ w = Visible'
  OBVIOUS
<1>3. Readily(v) /\ Readily(w) /\ DOMAIN MapOf(v) = Names
  BY <1>2, MapIs
<1>4. PICK p \in DOMAIN v, n \in Names, s \in Given :
          /\ OldIs(p, n, s)
          /\ op.kind = "remove" => OnlyGone(v, w, p)
          /\ op.kind = "rename" => \E q \in DOMAIN v : Replaced(v, w, p, q, op.name, op.stream)
  BY <1>2, FormRetireFirst
<1>5. /\ Held(v, p, n, s) /\ (op.kind = "remove" => n = op.name)
      /\ op.kind = "rename" => <<n, op.name>> \in Renames /\ op.stream = Relocated(s) /\ Absent(v, op.name)
  BY <1>2, <1>4 DEF OldIs, FormInv, NewForm, Pending, Retiring, Editing, RetireSlot, At
<1>6. CASE op.kind = "remove"
  <2>1. MapOf(w) = [MapOf(v) EXCEPT ![op.name] = None]
    BY <1>3, <1>4, <1>5, <1>6, MapRemoved
  <2>2. MapOf(w) \in Directory!Effects(MapOf(v), Call)
    BY <1>1, <1>3, <1>6, <2>1, EffectIs
  <2>. QED
    BY <1>2, <2>2, EffectSteps
<1>7. CASE op.kind = "rename"
  <2>1. op.stream = s /\ s # None
    BY <1>5, <1>7, RelocatedWhole
  <2>2. PICK q \in DOMAIN v : Replaced(v, w, p, q, op.name, s)
    BY <1>4, <1>7, <2>1
  <2>3. op.name # n
    BY <1>5, <1>7 DEF Absent
  <2>4. MapOf(v)[n] = s /\ MapOf(w) = [[MapOf(v) EXCEPT ![n] = None] EXCEPT ![op.name] = s]
    BY <1>1, <1>3, <1>5, <2>2, <2>3, MapReplaced
  <2>5. MapOf(v)[op.name] = None
    BY <1>1, <1>3, <1>5, <1>7, MapIs
  <2>6. MapOf(w) \in Directory!Effects(MapOf(v), Call)
    BY <1>1, <1>3, <1>5, <1>7, <2>1, <2>4, <2>5, RenameEffect
  <2>. QED
    BY <1>2, <2>6, EffectSteps
<1>. QED
  BY <1>1, <1>6, <1>7

LEMMA ResealSteps ==
    ASSUME TypeInv, TypeInv', SetInv, FormInv, Readily(Visible), Readily(Visible'), StreamsWhole, Reseal
    PROVE  Directory!Next
<1>1. PICK v, w : v = Visible /\ w = Visible'
  OBVIOUS
<1>2. Readily(v) /\ Readily(w) /\ DOMAIN MapOf(v) = Names
  BY <1>1, MapIs
<1>3. PICK p \in DOMAIN v, n \in Names, s \in Given :
          /\ OldIs(p, n, s) /\ Resealed(s) \in Given
          /\ Replaced(v, w, p, p, op.name, Resealed(s))
  BY <1>1, FormReseal
<1>4. op.pc = "reseal"
  BY DEF Reseal, At
<1>5. /\ Held(v, p, n, s) /\ (op.kind # "rename" => n = op.name)
      /\ op.kind = "rename" => <<n, op.name>> \in Renames /\ Absent(v, op.name)
  BY <1>1, <1>3, <1>4 DEF OldIs, FormInv, NewForm, Pending, Retiring, At
<1>6. /\ op.name \in Names /\ op.kind \in {"create", "update", "rename"}
      /\ op.kind = "create" => op.stream = Empty
  <2>1. PICK x \in DOMAIN Visible, m \in Names, r \in Given : OldIs(x, m, r) /\ EditIs(x, m, r)
    BY <1>4, SetEdited
  <2>2. op.kind = "rename" => op.name \in Names
    BY <1>5, DirectoryAssumption
  <2>. QED
    BY <1>5, <2>1, <2>2 DEF EditIs
<1>7. s # None
  BY RelocatedWhole
<1>8. CASE op.kind # "rename"
  <2>1. Resealed(s) = op.stream /\ op.name = n
    BY <1>5, <1>8 DEF Resealed
  <2>2. MapOf(v)[n] = s /\ MapOf(w) = [MapOf(v) EXCEPT ![n] = op.stream]
    BY <1>2, <1>3, <1>5, <1>6, <2>1, MapReplaced
  <2>3. MapOf(w) \in Directory!Effects(MapOf(v), Call)
    BY <1>2, <1>6, <1>7, <1>8, <2>1, <2>2, OwnEffect
  <2>. QED
    BY <1>1, <2>3, EffectSteps
<1>9. CASE op.kind = "rename"
  <2>1. Resealed(s) = s /\ op.name # n
    BY <1>5, <1>9 DEF Resealed, Absent
  <2>2. MapOf(v)[n] = s /\ MapOf(w) = [[MapOf(v) EXCEPT ![n] = None] EXCEPT ![op.name] = s]
    BY <1>2, <1>3, <1>5, <1>6, <2>1, MapReplaced
  <2>3. MapOf(v)[op.name] = None
    BY <1>2, <1>5, <1>6, <1>9, MapIs
  <2>4. MapOf(w) \in Directory!Effects(MapOf(v), Call)
    BY <1>2, <1>5, <1>6, <1>7, <1>9, <2>2, <2>3, RenameEffect
  <2>. QED
    BY <1>1, <2>4, EffectSteps
<1>. QED
  BY <1>8, <1>9

LEMMA StepStores ==
    ASSUME StreamsWhole, RenamesFinished, Listable, ListInv, ListInv', Readily(Visible), Readily(Visible'),
           [Next]_vars
    PROVE  Directory!Next
<1>1. /\ TypeInv /\ TypeInv' /\ RecordInv /\ EndsInv /\ SetInv /\ FormInv
      /\ RenamesFit /\ SetsFinished
  BY DEF ListInv, Listable
<1>2. SUFFICES ASSUME ~Stutters PROVE Directory!Next
  BY StutterSteps
<1>3. ~(UNCHANGED vars)
  <2>1. UNCHANGED vars => Visible' = Visible
    BY VisibleIs DEF vars
  <2>. QED
    BY <1>2, <2>1 DEF Stutters, Same
<1>4. ASSUME NEW n \in Names
      PROVE  /\ ~(\/ Open(n) \/ Close(n) \/ LookupFails(n)
                  \/ \E k \in 1..(MaxClusters * SectorsPerCluster) : LookupIoError(n, k))
             /\ ~CreateAbsent(n)
             /\ ~(CreateExisting(n) \/ Remove(n) \/ \E s \in Streams : Update(n, s))
  <2>1. \/ Open(n) \/ Close(n) \/ LookupFails(n)
        \/ \E k \in 1..(MaxClusters * SectorsPerCluster) : LookupIoError(n, k)
        => Stutters
    BY <1>1, FormLookups DEF Stutters
  <2>2. CreateAbsent(n) => Stutters
    BY <1>1, FormAbsent DEF Stutters
  <2>3. CreateExisting(n) \/ Remove(n) \/ (\E s \in Streams : Update(n, s)) => Stutters
    BY <1>1, FormBegins DEF Stutters
  <2>. QED
    BY <1>2, <2>1, <2>2, <2>3
<1>5. ASSUME NEW e \in Renames PROVE ~Rename(e[1], e[2])
  BY <1>1, <1>2, FormRename DEF Stutters
<1>6. ~(Search \/ ReachEnd \/ LinkCluster \/ PadOldTail \/ RecordLength \/ SealLength)
  BY <1>1, <1>2, FormSearch, FormReachEnd, FormLink, FormPad, FormRecord DEF Stutters
<1>7. ~(WriteSlot \/ RenameStream \/ RenameSlot \/ UpdateStream)
  BY <1>1, <1>2, FormWrite, FormRenameStream, FormRenameSlot, FormUpdateStream DEF Stutters
<1>8. ~(IoError \/ Crash \/ NoSpace \/ Panic)
  <2>1. SUFFICES ASSUME IoError \/ Crash, op.pc = "retire", op.i = 1, op.kind = "rename" PROVE FALSE
    BY <1>1, <1>2, FormFault DEF Stutters
  <2>2. Faults # {} /\ "retire" \in FaultPoints
    BY <2>1 DEF IoError, Crash
  <2>3. op.old # <<>>
    BY <1>1, <2>1 DEF TypeInv, OpOK, At
  <2>4. Renames # {}
    BY <1>1, <2>1, <2>3 DEF FormInv, OldForm, OldIs, Retiring, At
  <2>. QED
    BY <2>2, <2>4 DEF RenamesFinished
<1>9. CASE SealNewSet
  <2>1. op.kind # "rename"
    BY <1>1, <1>2, <1>9, FormSealRename DEF Stutters
  <2>. QED
    BY <1>1, <1>9, <2>1, CreateSteps
<1>10. CASE RetireSlot
  <2>1. op.i = 1
    BY <1>1, <1>2, <1>10, FormRetireRest DEF Stutters
  <2>. QED
    BY <1>1, <1>10, <2>1, RetireSteps
<1>11. CASE Reseal
  BY <1>1, <1>11, ResealSteps
<1>. QED
  BY <1>3, <1>4, <1>5, <1>6, <1>7, <1>8, <1>9, <1>10, <1>11 DEF Next, Step

LEMMA StoreInit ==
    ASSUME InitialFormed, Init, FormInv, Readily(Visible)
    PROVE  Directory!Init
<1>1. PICK v : v = Visible
  OBVIOUS
<1>2. ASSUME NEW n \in Names PROVE MapOf(v)[n] \in Streams \cup {None}
  <2>1. CASE Absent(v, n)
    BY <1>1, <2>1, MapIs
  <2>2. CASE ~Absent(v, n)
    <3>1. PICK p \in DOMAIN v, s \in Given : Held(v, p, n, s)
      BY <2>2 DEF Absent
    <3>2. IsView(v) /\ DOMAIN v = 1..Len(v)
      BY <1>1 DEF Readily, Legible, IsView
    <3>3. DeviceOK /\ slots = InitialSlots /\ op.pc = "idle"
      BY TypeInit, IdleOK DEF Init, TypeInv
    <3>4. /\ \A i \in DOMAIN v : i \in DOMAIN slots /\ v[i] = slots[i]
          /\ Len(v) <= Len(slots) /\ IsView(slots)
      <4>1. \A i : Sight(slots, op, i) = slots[i]
        BY <3>3, SightPlain
      <4>. QED
        BY <1>1, <3>3, <4>1, Views DEF IsView
    <3>5. Agree(v, slots, p, n)
      BY <3>1, <3>2, <3>4, HeldSlots DEF Agree
    <3>6. Held(slots, p, n, s) /\ p \in DOMAIN slots /\ Starts(slots[p])
      <4>1. Held(slots, p, n, s)
        BY <3>1, <3>2, <3>4, <3>5, HeldMoves
      <4>2. p \in DOMAIN slots
        BY <3>4
      <4>. QED
        BY <3>4, <4>1, <4>2, HeldSlots
    <3>7. PICK m \in Names, r \in Streams : Held(slots, p, m, r)
      BY <3>3, <3>6 DEF InitialFormed
    <3>8. r \in Given
      BY GivenStreams
    <3>9. s = r
      BY <3>4, <3>6, <3>7, <3>8, HeldSame
    <3>. QED
      BY <1>1, <3>1, <3>9, MapIs
  <2>. QED
    BY <2>1, <2>2
<1>3. MapOf(v) = [n \in Names |-> MapOf(v)[n]]
  BY <1>1, MapIs
<1>4. MapOf(v) \in [Names -> Streams \cup {None}]
  BY <1>2, <1>3
<1>. QED
  BY <1>1, <1>4, EntriesAre DEF Directory!Init

(* The directory is a map from names to streams: create, remove, rename    *)
(* and update take effect in one write each, on their own names, and no    *)
(* other step, error or power cut is seen in it.                           *)
THEOREM DirectoryImplemented ==
    ASSUME Listable, StreamsWhole, RenamesFinished
    PROVE  Spec => ImplementsDirectory
<1>. DEFINE Legibly == Readily(Visible)
<1>1. Init => ListInv
  BY TypeInit, RecordInit, EndsInit, SetInit, FormInit DEF ListInv, Listable
<1>2. ListInv => Legibly
  BY VisibleReadily DEF ListInv
<1>3. Init => Directory!Init
  BY <1>1, <1>2, StoreInit DEF ListInv, Listable
<1>4. ListInv /\ ListInv' /\ Legibly /\ Legibly' /\ [Next]_vars => [Directory!Next]_(Directory!vars)
  BY StepStores
<1>. HIDE DEF Legibly
<1>. QED
  BY <1>2, <1>3, <1>4, ListInvariant, PTL DEF Spec, ImplementsDirectory, Directory!Spec

-----------------------------------------------------------------------------
(* What a listing shows when a rename is done.                             *)

ListedAll ==
    At("idle") =>
        \A n \in Names, s \in Given :
            (\E p \in DOMAIN Visible : Held(Visible, p, n, s)) => \E d \in Listed : IsNamed(d, n) /\ d.stream = s

LEMMA AllListed ==
    ASSUME ListInv
    PROVE  ListedAll
<1>. SUFFICES ASSUME At("idle"), NEW n \in Names, NEW s \in Given,
                     NEW p \in DOMAIN Visible, Held(Visible, p, n, s)
              PROVE  \E d \in Listed : IsNamed(d, n) /\ d.stream = s
  BY DEF ListedAll
<1>1. Legible(Visible) /\ Listed = Shown(Visible)
  BY IdleViews DEF ListInv, Listed
<1>2. PICK d \in Shown(Visible) : FoundIn(Visible, d, p, n, s)
  BY <1>1, ShownIs
<1>. QED
  BY <1>1, <1>2 DEF FoundIn

(* The two ends of a rename.                                               *)
LEMMA RenameEnds ==
    ASSUME StreamsWhole, ListInv, ListInv', ListedAll', RenameDone, Step
    PROVE  \E d \in Listed' : IsNamed(d, op.name) /\ d.stream = op.before[2].stream
<1>1. TypeInv /\ TypeInv' /\ SetInv /\ FormInv
  BY DEF ListInv
<1>2. PICK w, b : w = Visible' /\ b = op.before[2].stream
  OBVIOUS
<1>3. op'.pc = "idle" /\ op.kind = "rename"
  BY DEF RenameDone
<1>4. SUFFICES op.name \in Names /\ b \in Given /\ \E q \in DOMAIN w : Held(w, q, op.name, b)
  BY <1>2, <1>3 DEF ListedAll, At
<1>5. CASE At("reseal")
  <2>1. Reseal
    BY <1>5 DEF Step, Search, ReachEnd, LinkCluster, PadOldTail, RecordLength, SealLength, NoSpace, WriteSlot,
                SealNewSet, RetireSlot, RenameStream, RenameSlot, UpdateStream, Panic, At
  <2>2. PICK p \in DOMAIN Visible, n \in Names, s \in Given :
            OldIs(p, n, s) /\ Resealed(s) \in Given /\ Replaced(Visible, w, p, p, op.name, Resealed(s))
    BY <1>1, <1>2, <2>1, FormReseal
  <2>3. op.name \in Names /\ Resealed(s) = s
    BY <1>3, <2>2, DirectoryAssumption DEF OldIs, Resealed
  <2>4. Held(w, p, op.name, s)
    BY <2>2, <2>3 DEF Replaced
  <2>5. b = s
    <3>1. SealedSet(n, s)[2] = StreamSlot(Units[n], s)
      BY SealedSlots
    <3>. QED
      BY <1>2, <2>2, <3>1 DEF OldIs, StreamSlot
  <2>. QED
    BY <2>3, <2>4, <2>5, HeldIn
<1>6. CASE At("retire") /\ op.i = Len(op.old)
  <2>1. RetireSlot
    BY <1>6 DEF Step, Search, ReachEnd, LinkCluster, PadOldTail, RecordLength, SealLength, NoSpace, WriteSlot,
                SealNewSet, Reseal, RenameStream, RenameSlot, UpdateStream, Panic, At
  <2>2. op.name \in Names
    BY <1>1, <2>1, SlotRetired
  <2>3. op.i # 1
    <3>1. PICK l \in Locators : l = op.old
      BY <1>1 DEF TypeInv, OpOK, OpType
    <3>2. op.i \in DOMAIN l /\ op.i = Len(l)
      BY <1>1, <1>6, <3>1 DEF TypeInv, OpOK, At
    <3>. QED
      BY <3>2 DEF Locators
  <2>4. Same(Visible, w)
    BY <1>1, <1>2, <2>1, <2>3, FormRetireRest
  <2>5. PICK q \in DOMAIN Visible, s \in Given : s = b /\ Held(Visible, q, op.name, Relocated(s))
    BY <1>1, <1>2, <1>3, <1>6, <2>3 DEF FormInv, RetireForm, Retiring
  <2>6. Held(w, q, op.name, b)
    BY <2>2, <2>4, <2>5, RelocatedWhole DEF Same
  <2>. QED
    BY <2>2, <2>5, <2>6, HeldIn
<1>. QED
  BY <1>5, <1>6 DEF RenameDone

(* "The operation preserves all stream metadata": when a rename is done,   *)
(* its new name finds the stream that the old one had.                     *)
THEOREM RenamesKeepStreams ==
    ASSUME Listable, StreamsWhole
    PROVE  Spec => RenameKeepsStream
<1>1. ListInv => ListedAll
  BY AllListed
<1>2. ListInv /\ ListInv' /\ ListedAll' /\ [Next]_vars =>
          [RenameDone /\ Step => \E d \in Listed' : IsNamed(d, op.name) /\ d.stream = op.before[2].stream]_vars
  BY RenameEnds
<1>. QED
  BY <1>1, <1>2, ListInvariant, PTL DEF Spec, RenameKeepsStream
=============================================================================
