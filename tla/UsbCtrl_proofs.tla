---------------------------- MODULE UsbCtrl_proofs ---------------------------
(***************************************************************************)
(* Theorems about the control plane for every depth of the pool, every     *)
(* number of accesses, sends and batches.                                  *)
(***************************************************************************)
EXTENDS UsbCtrl, FiniteSetTheorems, SequenceTheorems, TLAPS

------------------------------------------------------------------------------
(* Sequences without repetition: the free list, endpoint 0 and what is to be reaped. *)

Elems(s) == {s[i] : i \in DOMAIN s}
Distinct(s) == \A i, j \in DOMAIN s : s[i] = s[j] => i = j

\* A sequence has elements if it is not empty.
LEMMA EmptyElems ==
    ASSUME NEW S, NEW s \in Seq(S)
    PROVE  /\ Elems(s) \subseteq S
           /\ s = <<>> <=> Elems(s) = {}
           /\ Elems(<<>>) = {} /\ Distinct(<<>>)
<1>1. DOMAIN s = 1 .. Len(s) /\ Len(s) \in Nat /\ \A i \in 1 .. Len(s) : s[i] \in S
  BY LenProperties, ElementOfSeq
<1>2. s # <<>> => Len(s) >= 1 BY EmptySeq
<1>3. DOMAIN <<>> = {} OBVIOUS
<1>4. Elems(<<>>) = {} /\ Distinct(<<>>) BY <1>3 DEF Elems, Distinct
<1>5. s # <<>> => Elems(s) # {}
  <2> SUFFICES ASSUME s # <<>> PROVE s[1] \in Elems(s) OBVIOUS
  <2> QED BY <1>1, <1>2 DEF Elems
<1>6. Elems(s) \subseteq S BY <1>1 DEF Elems
<1> QED BY <1>4, <1>5, <1>6

\* push_back of something new.
LEMMA AppendElems ==
    ASSUME NEW S, NEW s \in Seq(S), NEW x \in S
    PROVE  /\ Append(s, x) \in Seq(S)
           /\ Elems(Append(s, x)) = Elems(s) \cup {x}
           /\ Distinct(s) /\ x \notin Elems(s) => Distinct(Append(s, x))
<1> DEFINE t == Append(s, x)
<1>1. /\ t \in Seq(S) /\ Len(t) = Len(s) + 1 /\ Len(s) \in Nat
      /\ \A i \in 1 .. Len(s) : t[i] = s[i]
      /\ t[Len(s) + 1] = x
  BY AppendProperties, LenProperties
<1>2. DOMAIN s = 1 .. Len(s) /\ DOMAIN t = 1 .. Len(s) + 1 BY <1>1, LenProperties
<1> HIDE DEF t
<1>3. Elems(t) = Elems(s) \cup {x}
  <2>1. \A i \in DOMAIN t : t[i] \in Elems(s) \cup {x}
    <3> SUFFICES ASSUME NEW i \in DOMAIN t PROVE t[i] \in Elems(s) \cup {x} OBVIOUS
    <3>1. CASE i = Len(s) + 1 BY <3>1, <1>1
    <3>2. CASE i \in 1 .. Len(s) BY <3>2, <1>1, <1>2 DEF Elems
    <3> QED BY <3>1, <3>2, <1>1, <1>2
  <2>2. \A i \in DOMAIN s : s[i] \in Elems(t)
    <3> SUFFICES ASSUME NEW i \in DOMAIN s PROVE s[i] \in Elems(t) OBVIOUS
    <3>1. i \in DOMAIN t /\ t[i] = s[i] BY <1>1, <1>2
    <3> QED BY <3>1 DEF Elems
  <2>3. x \in Elems(t)
    <3>1. Len(s) + 1 \in DOMAIN t BY <1>1, <1>2
    <3> QED BY <3>1, <1>1 DEF Elems
  <2> QED BY <2>1, <2>2, <2>3 DEF Elems
<1>4. ASSUME Distinct(s), x \notin Elems(s) PROVE Distinct(t)
  <2> SUFFICES ASSUME NEW i \in DOMAIN t, NEW j \in DOMAIN t, t[i] = t[j] PROVE i = j
    BY DEF Distinct
  <2>1. \A k \in 1 .. Len(s) : s[k] # x BY <1>4, <1>2 DEF Elems
  <2> QED BY <2>1, <1>1, <1>2, <1>4 DEF Distinct
<1> QED BY <1>1, <1>3, <1>4 DEF t

\* Taking the first element.
LEMMA TailElems ==
    ASSUME NEW S, NEW s \in Seq(S), s # <<>>
    PROVE  /\ Tail(s) \in Seq(S) /\ Head(s) \in S /\ Head(s) \in Elems(s)
           /\ Elems(Tail(s)) \subseteq Elems(s)
           /\ Distinct(s) => Distinct(Tail(s)) /\ Elems(Tail(s)) = Elems(s) \ {Head(s)}
<1>1. /\ Head(s) \in S /\ Tail(s) \in Seq(S) /\ Len(Tail(s)) = Len(s) - 1
      /\ \A i \in 1 .. Len(Tail(s)) : Tail(s)[i] = s[i + 1]
  BY HeadTailProperties
<1>2. /\ Len(s) \in Nat \ {0} /\ DOMAIN s = 1 .. Len(s)
      /\ DOMAIN Tail(s) = 1 .. Len(s) - 1
  BY <1>1, EmptySeq, LenProperties
<1>3. Head(s) = s[1] OBVIOUS
<1>4. /\ Head(s) \in Elems(s) /\ Elems(Tail(s)) \subseteq Elems(s)
      /\ Distinct(s) => Distinct(Tail(s)) /\ Head(s) \notin Elems(Tail(s))
  BY <1>1, <1>2, <1>3 DEF Elems, Distinct
<1>5. \A i \in DOMAIN s : s[i] = Head(s) \/ s[i] \in Elems(Tail(s))
  <2> SUFFICES ASSUME NEW i \in DOMAIN s, i # 1 PROVE s[i] \in Elems(Tail(s)) BY <1>3
  <2>1. i - 1 \in DOMAIN Tail(s) /\ Tail(s)[i - 1] = s[i] BY <1>1, <1>2
  <2> QED BY <2>1 DEF Elems
<1>6. Elems(s) \subseteq Elems(Tail(s)) \cup {Head(s)} BY <1>5 DEF Elems
<1> QED BY <1>1, <1>4, <1>6

\* Taking the last element.
LEMMA FrontElems ==
    ASSUME NEW S, NEW s \in Seq(S), s # <<>>
    PROVE  LET f == SubSeq(s, 1, Len(s) - 1)
               x == s[Len(s)]
           IN  /\ f \in Seq(S) /\ x \in S /\ x \in Elems(s)
               /\ Distinct(s) => Distinct(f) /\ Elems(f) = Elems(s) \ {x}
<1> DEFINE f == SubSeq(s, 1, Len(s) - 1)
           x == s[Len(s)]
<1>1. Len(s) \in Nat \ {0} /\ DOMAIN s = 1 .. Len(s) /\ \A i \in 1 .. Len(s) : s[i] \in S
  BY EmptySeq, LenProperties, ElementOfSeq
<1>2. /\ f \in Seq(S) /\ Len(f) = Len(s) - 1
      /\ \A i \in 1 .. Len(s) - 1 : f[i] = s[i]
  <2>1. 1 \in Int /\ Len(s) - 1 \in Int /\ \A i \in 1 .. Len(s) - 1 : s[i] \in S BY <1>1
  <2> QED BY <2>1, <1>1, SubSeqProperties
<1>3. DOMAIN f = 1 .. Len(s) - 1 BY <1>2, LenProperties
<1> HIDE DEF f
<1>4. x \in S /\ x \in Elems(s) BY <1>1 DEF Elems
<1>5. ASSUME Distinct(s) PROVE Distinct(f) /\ Elems(f) = Elems(s) \ {x}
  <2>1. Distinct(f) BY <1>1, <1>2, <1>3, <1>5 DEF Distinct
  <2>2. \A i \in DOMAIN f : f[i] \in Elems(s) \ {x}
    BY <1>1, <1>2, <1>3, <1>5 DEF Distinct, Elems
  <2>3. \A i \in DOMAIN s : s[i] # x => s[i] \in Elems(f)
    <3> SUFFICES ASSUME NEW i \in DOMAIN s, s[i] # x PROVE s[i] \in Elems(f) OBVIOUS
    <3>1. i \in DOMAIN f /\ f[i] = s[i] BY <1>1, <1>2, <1>3
    <3> QED BY <3>1 DEF Elems
  <2> QED BY <2>1, <2>2, <2>3 DEF Elems
<1> QED BY <1>2, <1>4, <1>5 DEF f

\* A list without repetition is as long as the set of its elements is large.
LEMMA DistinctLength ==
    ASSUME NEW S, NEW s \in Seq(S), Distinct(s)
    PROVE  IsFiniteSet(Elems(s)) /\ Cardinality(Elems(s)) = Len(s)
<1>1. Len(s) \in Nat /\ s \in [1 .. Len(s) -> S] /\ DOMAIN s = 1 .. Len(s) BY LenProperties
<1>2. s \in Bijection(1 .. Len(s), Elems(s))
  BY <1>1 DEF Bijection, Injection, Surjection, Distinct, Elems, IsInjective
<1>3. ExistsBijection(1 .. Len(s), Elems(s)) BY <1>2 DEF ExistsBijection
<1> QED BY <1>1, <1>3, FS_NatBijection, FS_CountingElements

\* The free list without a slot.
LEMMA WithoutElems ==
    ASSUME NEW S, NEW s \in Seq(S), Distinct(s), NEW w
    PROVE  /\ Without(s, w) \in Seq(S) /\ Distinct(Without(s, w))
           /\ Elems(Without(s, w)) = Elems(s) \ {w}
<1> DEFINE n == Len(s)
<1>1. n \in Nat /\ DOMAIN s = 1 .. n /\ \A i \in 1 .. n : s[i] \in S
  BY LenProperties, ElementOfSeq
<1>2. CASE ~ \E i \in DOMAIN s : s[i] = w
  <2>1. Without(s, w) = s BY <1>2 DEF Without
  <2> QED BY <1>2, <2>1 DEF Elems
<1>3. CASE \E i \in DOMAIN s : s[i] = w
  <2> DEFINE i == CHOOSE k \in DOMAIN s : s[k] = w
             t == [k \in 1 .. n - 1 |-> IF k < i THEN s[k] ELSE s[k + 1]]
  <2>1. i \in 1 .. n /\ s[i] = w BY <1>1, <1>3
  <2>2. Without(s, w) = t BY <1>3 DEF Without
  <2> HIDE DEF i
  <2>3. n - 1 \in Nat /\ \A k \in 1 .. n - 1 : t[k] \in S BY <1>1, <2>1
  <2>4. t \in Seq(S) BY <2>3, SeqDef
  <2>5. DOMAIN t = 1 .. n - 1 OBVIOUS
  <2>6. \A k \in 1 .. n - 1 : t[k] = IF k < i THEN s[k] ELSE s[k + 1] OBVIOUS
  <2> HIDE DEF t
  <2>7. Distinct(t)
    <3> SUFFICES ASSUME NEW a \in 1 .. n - 1, NEW b \in 1 .. n - 1, t[a] = t[b] PROVE a = b
      BY <2>5 DEF Distinct
    <3> QED BY <1>1, <2>1, <2>6 DEF Distinct
  <2>8. \A k \in DOMAIN t : t[k] \in Elems(s) \ {w}
    <3> SUFFICES ASSUME NEW k \in 1 .. n - 1 PROVE t[k] \in Elems(s) \ {w} BY <2>5
    <3>1. CASE k < i BY <3>1, <1>1, <2>1, <2>6 DEF Elems, Distinct
    <3>2. CASE ~ (k < i) BY <3>2, <1>1, <2>1, <2>6 DEF Elems, Distinct
    <3> QED BY <3>1, <3>2
  <2>9. \A k \in DOMAIN s : s[k] # w => s[k] \in Elems(t)
    <3> SUFFICES ASSUME NEW k \in 1 .. n, s[k] # w PROVE s[k] \in Elems(t) BY <1>1
    <3>1. CASE k < i
      <4>1. k \in DOMAIN t /\ t[k] = s[k] BY <3>1, <1>1, <2>1, <2>5, <2>6
      <4> QED BY <4>1 DEF Elems
    <3>2. CASE k > i
      <4>1. k - 1 \in DOMAIN t /\ t[k - 1] = s[k] BY <3>2, <1>1, <2>1, <2>5, <2>6
      <4> QED BY <4>1 DEF Elems
    <3> QED BY <3>1, <3>2, <1>1, <2>1
  <2>10. Elems(t) = Elems(s) \ {w} BY <2>8, <2>9 DEF Elems
  <2> QED BY <2>2, <2>4, <2>7, <2>10
<1> QED BY <1>2, <1>3

------------------------------------------------------------------------------
(* The completions to be reaped: the slots in them. *)

Reaps == [slot : Slots, ok : BOOLEAN]
SlotsOf(r) == {r[i].slot : i \in DOMAIN r}
Apart(r) == \A i, j \in DOMAIN r : r[i].slot = r[j].slot => i = j

\* The slots of the completions, as a sequence of their own.
LEMMA SlotsOfSeq ==
    ASSUME NEW r \in Seq(Reaps)
    PROVE  LET s == [i \in 1 .. Len(r) |-> r[i].slot]
           IN  /\ s \in Seq(Slots) /\ Len(s) = Len(r) /\ Elems(s) = SlotsOf(r)
               /\ Apart(r) <=> Distinct(s)
<1> DEFINE s == [i \in 1 .. Len(r) |-> r[i].slot]
<1>1. Len(r) \in Nat /\ DOMAIN r = 1 .. Len(r) /\ \A i \in 1 .. Len(r) : r[i] \in Reaps
  BY LenProperties, ElementOfSeq
<1>2. s \in Seq(Slots)
  <2>1. \A i \in 1 .. Len(r) : s[i] \in Slots BY <1>1 DEF Reaps
  <2> QED BY <1>1, <2>1, SeqDef
<1>3. Len(s) = Len(r) BY <1>1, <1>2, LenProperties
<1>4. Elems(s) = SlotsOf(r) BY <1>1 DEF Elems, SlotsOf
<1>5. Apart(r) <=> Distinct(s) BY <1>1 DEF Apart, Distinct
<1> QED BY <1>2, <1>3, <1>4, <1>5

\* A transfer completes.
LEMMA ReapAppend ==
    ASSUME NEW r \in Seq(Reaps), NEW x \in Reaps
    PROVE  /\ Append(r, x) \in Seq(Reaps) /\ SlotsOf(Append(r, x)) = SlotsOf(r) \cup {x.slot}
           /\ Apart(r) /\ x.slot \notin SlotsOf(r) => Apart(Append(r, x))
           /\ \A i \in DOMAIN Append(r, x) :
                 Append(r, x)[i] = x \/ (i \in DOMAIN r /\ Append(r, x)[i] = r[i])
<1> DEFINE t == Append(r, x)
<1>1. /\ t \in Seq(Reaps) /\ Len(t) = Len(r) + 1 /\ Len(r) \in Nat
      /\ \A i \in 1 .. Len(r) : t[i] = r[i]
      /\ t[Len(r) + 1] = x
  BY AppendProperties, LenProperties
<1>2. DOMAIN r = 1 .. Len(r) /\ DOMAIN t = 1 .. Len(r) + 1 BY <1>1, LenProperties
<1> HIDE DEF t
<1>3. \A i \in DOMAIN t : (i = Len(r) + 1 /\ t[i] = x) \/ (i \in DOMAIN r /\ t[i] = r[i])
  BY <1>1, <1>2
<1>4. SlotsOf(t) = SlotsOf(r) \cup {x.slot}
  <2>1. \A i \in DOMAIN r : r[i].slot \in SlotsOf(t)
    <3> SUFFICES ASSUME NEW i \in DOMAIN r PROVE r[i].slot \in SlotsOf(t) OBVIOUS
    <3>1. i \in DOMAIN t /\ t[i] = r[i] BY <1>1, <1>2
    <3> QED BY <3>1 DEF SlotsOf
  <2>2. x.slot \in SlotsOf(t)
    <3>1. Len(r) + 1 \in DOMAIN t BY <1>1, <1>2
    <3> QED BY <3>1, <1>1 DEF SlotsOf
  <2>3. \A i \in DOMAIN t : t[i].slot \in SlotsOf(r) \cup {x.slot} BY <1>3 DEF SlotsOf
  <2> QED BY <2>1, <2>2, <2>3 DEF SlotsOf
<1>5. ASSUME Apart(r), x.slot \notin SlotsOf(r) PROVE Apart(t)
  <2>1. \A i \in DOMAIN r : r[i].slot # x.slot BY <1>5 DEF SlotsOf
  <2> QED BY <1>3, <1>5, <2>1 DEF Apart
<1> QED BY <1>1, <1>3, <1>4, <1>5 DEF t

\* A completion is reaped.
LEMMA ReapTail ==
    ASSUME NEW r \in Seq(Reaps), r # <<>>, Apart(r)
    PROVE  /\ Tail(r) \in Seq(Reaps) /\ Head(r) \in Reaps /\ Head(r).slot \in SlotsOf(r)
           /\ SlotsOf(Tail(r)) = SlotsOf(r) \ {Head(r).slot} /\ Apart(Tail(r))
           /\ 1 \in DOMAIN r /\ Head(r) = r[1]
           /\ \A i \in DOMAIN Tail(r) : i + 1 \in DOMAIN r /\ Tail(r)[i] = r[i + 1]
<1>1. /\ Head(r) \in Reaps /\ Tail(r) \in Seq(Reaps) /\ Len(Tail(r)) = Len(r) - 1
      /\ \A i \in 1 .. Len(Tail(r)) : Tail(r)[i] = r[i + 1]
  BY HeadTailProperties
<1>2. /\ Len(r) \in Nat \ {0} /\ DOMAIN r = 1 .. Len(r)
      /\ DOMAIN Tail(r) = 1 .. Len(r) - 1
  BY <1>1, EmptySeq, LenProperties
<1>3. 1 \in DOMAIN r /\ Head(r) = r[1] BY <1>2
<1>4. \A i \in DOMAIN Tail(r) : i + 1 \in DOMAIN r /\ Tail(r)[i] = r[i + 1] BY <1>1, <1>2
<1>5. Apart(Tail(r)) BY <1>2, <1>4 DEF Apart
<1>6. \A i \in DOMAIN Tail(r) : Tail(r)[i].slot \in SlotsOf(r) \ {Head(r).slot}
  <2> SUFFICES ASSUME NEW i \in DOMAIN Tail(r)
               PROVE  Tail(r)[i].slot \in SlotsOf(r) \ {Head(r).slot}
    OBVIOUS
  <2>1. i + 1 # 1 BY <1>2
  <2> QED BY <1>3, <1>4, <2>1 DEF Apart, SlotsOf
<1>7. \A i \in DOMAIN r : r[i].slot # Head(r).slot => r[i].slot \in SlotsOf(Tail(r))
  <2> SUFFICES ASSUME NEW i \in DOMAIN r, i # 1 PROVE r[i].slot \in SlotsOf(Tail(r)) BY <1>3
  <2>1. i - 1 \in DOMAIN Tail(r) /\ Tail(r)[i - 1] = r[i] BY <1>1, <1>2
  <2> QED BY <2>1 DEF SlotsOf
<1>8. SlotsOf(Tail(r)) = SlotsOf(r) \ {Head(r).slot} BY <1>6, <1>7 DEF SlotsOf
<1> QED BY <1>1, <1>3, <1>4, <1>5, <1>8 DEF SlotsOf

\* The transfers of endpoint 0 are cancelled.
LEMMA ReapCancelled ==
    ASSUME NEW r \in Seq(Reaps), NEW e \in Seq(Slots), Apart(r), Distinct(e),
           SlotsOf(r) \cap Elems(e) = {}
    PROVE  LET t == r \o [i \in DOMAIN e |-> [slot |-> e[i], ok |-> FALSE]]
           IN  /\ t \in Seq(Reaps) /\ SlotsOf(t) = SlotsOf(r) \cup Elems(e) /\ Apart(t)
               /\ \A i \in DOMAIN t : ~ t[i].ok \/ (i \in DOMAIN r /\ t[i] = r[i])
<1> DEFINE c == [i \in DOMAIN e |-> [slot |-> e[i], ok |-> FALSE]]
           t == r \o c
           m == Len(r)
           n == Len(e)
<1>1. m \in Nat /\ n \in Nat /\ DOMAIN r = 1 .. m /\ DOMAIN e = 1 .. n
      /\ \A i \in 1 .. n : e[i] \in Slots
  BY LenProperties, ElementOfSeq
<1>2. c \in Seq(Reaps) /\ Len(c) = n
  <2>1. c = [i \in 1 .. n |-> c[i]] /\ \A i \in 1 .. n : c[i] \in Reaps BY <1>1 DEF Reaps
  <2>2. c \in Seq(Reaps) BY <1>1, <2>1, SeqDef
  <2> QED BY <1>1, <2>1, <2>2, LenProperties
<1>3. \A i \in 1 .. n : c[i] = [slot |-> e[i], ok |-> FALSE] BY <1>1
<1> HIDE DEF c
<1>4. /\ t \in Seq(Reaps) /\ Len(t) = m + n
      /\ \A i \in 1 .. m + n : t[i] = IF i <= m THEN r[i] ELSE c[i - m]
  BY ZenonT(60), <1>2, ConcatProperties
<1>5. DOMAIN t = 1 .. m + n BY <1>4, LenProperties
<1> HIDE DEF t, m, n
<1>6. \A i \in DOMAIN t : \/ i \in DOMAIN r /\ t[i] = r[i]
                          \/ /\ i - m \in DOMAIN e
                             /\ t[i] = [slot |-> e[i - m], ok |-> FALSE]
  <2> SUFFICES ASSUME NEW i \in 1 .. m + n
               PROVE  \/ i \in DOMAIN r /\ t[i] = r[i]
                      \/ /\ i - m \in DOMAIN e
                         /\ t[i] = [slot |-> e[i - m], ok |-> FALSE]
    BY <1>5
  <2>1. CASE i <= m BY <2>1, <1>1, <1>4
  <2>2. CASE ~ (i <= m)
    <3>1. i - m \in 1 .. n BY <2>2, <1>1
    <3> QED BY <2>2, <3>1, <1>1, <1>3, <1>4
  <2> QED BY <2>1, <2>2
<1>7. \A i \in DOMAIN t : t[i].slot \in SlotsOf(r) \cup Elems(e)
  <2> SUFFICES ASSUME NEW i \in DOMAIN t PROVE t[i].slot \in SlotsOf(r) \cup Elems(e) OBVIOUS
  <2>1. CASE i \in DOMAIN r /\ t[i] = r[i] BY <2>1 DEF SlotsOf
  <2>2. CASE i - m \in DOMAIN e /\ t[i] = [slot |-> e[i - m], ok |-> FALSE] BY <2>2 DEF Elems
  <2> QED BY <1>6, <2>1, <2>2
<1>8. SlotsOf(r) \cup Elems(e) \subseteq SlotsOf(t)
  <2>1. ASSUME NEW i \in DOMAIN r PROVE r[i].slot \in SlotsOf(t)
    <3>1. i \in DOMAIN t /\ t[i] = r[i] BY <1>1, <1>4, <1>5
    <3> QED BY <3>1 DEF SlotsOf
  <2>2. ASSUME NEW i \in DOMAIN e PROVE e[i] \in SlotsOf(t)
    <3>1. i + m \in 1 .. m + n /\ ~ (i + m <= m) /\ (i + m) - m = i BY <1>1
    <3>2. i + m \in DOMAIN t /\ t[i + m] = c[i] BY <3>1, <1>4, <1>5
    <3>3. t[i + m] = [slot |-> e[i], ok |-> FALSE] BY <3>2, <1>1, <1>3
    <3>4. t[i + m].slot = e[i] BY ONLY <3>3
    <3> QED BY <3>2, <3>4 DEF SlotsOf
  <2> QED BY <2>1, <2>2 DEF SlotsOf, Elems
<1>9. SlotsOf(t) = SlotsOf(r) \cup Elems(e) BY <1>7, <1>8 DEF SlotsOf
<1>10. Apart(t)
  <2> SUFFICES ASSUME NEW i \in DOMAIN t, NEW j \in DOMAIN t, t[i].slot = t[j].slot PROVE i = j
    BY DEF Apart
  <2>1. CASE i \in DOMAIN r /\ j \in DOMAIN r
    <3>1. t[i] = r[i] /\ t[j] = r[j] BY <2>1, <1>1, <1>4, <1>5
    <3> QED BY <2>1, <3>1 DEF Apart
  <2>2. CASE i \notin DOMAIN r /\ j \notin DOMAIN r
    <3>1. i - m \in DOMAIN e /\ j - m \in DOMAIN e /\ e[i - m] = e[j - m] BY <2>2, <1>6
    <3>2. i - m = j - m BY <3>1 DEF Distinct
    <3> QED BY <3>2, <1>1, <1>5
  <2>3. ASSUME NEW a \in DOMAIN t, NEW b \in DOMAIN t, a \in DOMAIN r, b \notin DOMAIN r
        PROVE  t[a].slot # t[b].slot
    <3>1. t[a] = r[a] BY <2>3, <1>1, <1>4, <1>5
    <3>2. b - m \in DOMAIN e /\ t[b].slot = e[b - m] BY <2>3, <1>6
    <3>3. r[a].slot \in SlotsOf(r) /\ e[b - m] \in Elems(e) BY <2>3, <3>2 DEF SlotsOf, Elems
    <3> QED BY <3>1, <3>2, <3>3
  <2> QED BY <2>1, <2>2, <2>3
<1>11. \A i \in DOMAIN t : ~ t[i].ok \/ (i \in DOMAIN r /\ t[i] = r[i])
  <2> SUFFICES ASSUME NEW i \in DOMAIN t PROVE ~ t[i].ok \/ (i \in DOMAIN r /\ t[i] = r[i])
    OBVIOUS
  <2>1. CASE t[i] = [slot |-> e[i - m], ok |-> FALSE]
    <3>1. t[i].ok = FALSE BY <2>1
    <3> QED BY <3>1
  <2> QED BY <1>6, <2>1
<1> QED BY <1>4, <1>9, <1>10, <1>11 DEF t, c

------------------------------------------------------------------------------
(* The inductive invariant. *)

\* The calling thread: what a call holds at each of its steps.
CallInv ==
    /\ me.pc \in {"Idle", "End", "Destroy", "Reap", "Free", "Gone"}
          => me = [NoCall EXCEPT !.pc = me.pc]
    /\ me.pc \in {"Take", "TakeDrained"} => me.taken = <<>> /\ me.used = <<>> /\ me.i = 1
    /\ me.pc = "Acquire" => me.used = <<>> /\ me.i = 1 /\ me.group
    /\ me.pc \in {"Fill", "Submit"} => me.i <= Len(me.taken)
    /\ me.pc \in {"Await", "AwaitDrained", "Sync"} => me.i = Len(me.taken) + 1
    /\ me.pc = "AwaitDrained" \/ (me.pc = "Await" /\ ~ me.group) => me.used # <<>>
    /\ me.pc \notin {"Idle", "End", "Destroy", "Reap", "Free", "Gone"}
          => me.ops # <<>> /\ me.i >= 1 /\ Len(me.taken) <= Len(me.ops)
    /\ ~ me.group => Len(me.ops) <= 1 /\ (me.pc \in {"Await", "AwaitDrained"} => me.ops[1].read)
    /\ me.pc = "Sync" /\ me.group => me.taken = <<>>
    /\ \A k \in DOMAIN me.ops : me.ops[k].id = me.ops[1].id + k - 1
    /\ \A k \in DOMAIN me.ops : me.ops[k].id < seen.next

\* The slots a call has taken and not submitted, and those of the callbacks.
Hand == {me.taken[k] : k \in me.i .. Len(me.taken)}
Filled == IF me.pc = "Submit" THEN {me.taken[me.i]} ELSE {}
Waiting == SlotsOf(reap)
Busy == IF cb.pc = "Idle" THEN {} ELSE {cb.slot}
Publishing == IF cb.pc = "Publish" THEN {cb.slot} ELSE {}

\* A slot is in one place.
PlaceInv ==
    /\ Distinct(pool.free) /\ Distinct(ep0) /\ Apart(reap)
    /\ \A i, j \in me.i .. Len(me.taken) : me.taken[i] = me.taken[j] => i = j
    /\ Elems(pool.free) \cap (Elems(ep0) \cup Waiting \cup Busy \cup Hand) = {}
    /\ Elems(ep0) \cap (Waiting \cup Busy \cup Hand) = {}
    /\ Waiting \cap (Busy \cup Hand) = {}
    /\ Busy \cap Hand = {}

\* What the flags of a slot say about where it is.
FlagInv ==
    /\ InFlight = Elems(ep0) \cup Waiting \cup Publishing \cup Filled
    /\ pool.inflight = Cardinality(InFlight)
    /\ \A w \in Slots : slot[w].cb_busy <=> w \in Busy
    /\ \A w \in InFlight : slot[w].op # 0
    /\ Busy \subseteq Slots

\* A freed slot is nowhere, and slots are freed last.
FreedInv ==
    /\ \A w \in Slots : slot[w].memory = "Freed"
          => w \notin Elems(pool.free) \cup Elems(ep0) \cup Waiting \cup Busy
    /\ me.pc \notin {"Free", "Gone"} => \A w \in Slots : slot[w].memory = "Live"

\* A slot that is done and good holds the answer to its access.
AnswerInv ==
    /\ \A w \in Elems(ep0) \cup Waiting \cup Publishing \cup Hand : ~ slot[w].done
    /\ \A i \in DOMAIN reap : reap[i].ok => slot[reap[i].slot].answer = slot[reap[i].slot].op
    /\ \A w \in Slots : slot[w].ok /\ (slot[w].done \/ w \in Publishing)
                          => slot[w].answer = slot[w].op
    /\ \A k \in DOMAIN me.used : /\ slot[me.used[k].slot].op = me.used[k].op.id
                                 /\ me.used[k].slot \notin Hand

\* What is performed, queued and still to be submitted is in the calls' order.
OrderInv ==
    /\ ~ seen.broken
    /\ \A o \in seen.done : o < seen.next
    /\ \A i \in DOMAIN ep0 : slot[ep0[i]].op < seen.next
    /\ \A i, j \in DOMAIN ep0 : i < j => slot[ep0[i]].op < slot[ep0[j]].op
    /\ \A i \in DOMAIN ep0, o \in seen.done : o < slot[ep0[i]].op
    /\ \A w \in Filled : slot[w].op = me.ops[me.i].id /\ slot[w].is_read = me.ops[me.i].read
    /\ me.pc # "Sync" => \A k \in me.i .. Len(me.ops) :
          /\ \A o \in seen.done : o < me.ops[k].id
          /\ \A i \in DOMAIN ep0 : slot[ep0[i]].op < me.ops[k].id
    /\ me.pc \in {"Sync", "Await", "AwaitDrained"} /\ (me.pc = "Sync" \/ ~ me.group) =>
          /\ \A o \in seen.done : o < me.ops[1].id \/ (o = me.ops[1].id /\ me.ops[1].read)
          /\ \A i \in DOMAIN ep0 : \/ slot[ep0[i]].op < me.ops[1].id
                                   \/ slot[ep0[i]].op = me.ops[1].id /\ me.ops[1].read

CtrlInv == TypeOK /\ CallInv /\ PlaceInv /\ FlagInv /\ FreedInv /\ AnswerInv /\ OrderInv

\* The steps at which no call is under way.
Resting == {"Idle", "End", "Destroy", "Reap", "Free", "Gone"}

\* The parts of the invariant, for a step to cite.
LEMMA Parts ==
    ASSUME CtrlInv
    PROVE  TypeOK /\ CallInv /\ PlaceInv /\ FlagInv /\ FreedInv /\ AnswerInv /\ OrderInv
BY DEF CtrlInv

\* What the types say of the state before a step, and of NoCall.
LEMMA Before ==
    ASSUME TypeOK
    PROVE  /\ pool \in PoolType /\ slot \in [Slots -> SlotType] /\ batch \in BatchType
           /\ me \in MeType /\ seen \in SeenType /\ sends \in 0 .. MaxSends
           /\ drain \in [Threads -> {"No", "Enter", "Wait", "Cancelled"}]
           /\ ep0 \in Seq(Slots) /\ reap \in Seq(Reaps) /\ pool.free \in Seq(Slots)
           /\ cb \in [pc : {"Idle", "Publish", "Release"}, slot : Slots \cup {NoSlot}]
           /\ Elems(ep0) \subseteq Slots /\ Elems(pool.free) \subseteq Slots
           /\ Waiting \subseteq Slots
           /\ pool.inflight \in Nat /\ pool.write_errors \in Nat /\ pool.generation \in Nat
           /\ me.ops \in Seq(OpType) /\ me.taken \in Seq(Slots) /\ me.i \in Nat
           /\ me.used \in Seq([op : OpType, slot : Slots])
           /\ Len(me.ops) \in Nat /\ DOMAIN me.ops = 1 .. Len(me.ops)
           /\ Len(me.taken) \in Nat /\ DOMAIN me.taken = 1 .. Len(me.taken)
           /\ \A k \in DOMAIN me.ops : me.ops[k] \in OpType
           /\ \A k \in DOMAIN me.taken : me.taken[k] \in Slots
           /\ \A k \in DOMAIN me.used : me.used[k].slot \in Slots
           /\ IsFiniteSet(InFlight) /\ Cardinality(InFlight) \in Nat /\ InFlight \subseteq Slots
           /\ NoCall \in MeType
<1>1. /\ pool \in PoolType /\ slot \in [Slots -> SlotType] /\ batch \in BatchType
      /\ me \in MeType /\ seen \in SeenType /\ sends \in 0 .. MaxSends
      /\ drain \in [Threads -> {"No", "Enter", "Wait", "Cancelled"}]
      /\ ep0 \in Seq(Slots) /\ reap \in Seq(Reaps)
      /\ cb \in [pc : {"Idle", "Publish", "Release"}, slot : Slots \cup {NoSlot}]
  BY DEF TypeOK, Reaps
<1>2. /\ pool.free \in Seq(Slots) /\ pool.inflight \in Nat /\ pool.write_errors \in Nat
      /\ pool.generation \in Nat
  BY <1>1 DEF PoolType
<1>3. /\ me.ops \in Seq(OpType) /\ me.taken \in Seq(Slots) /\ me.i \in Nat
      /\ me.used \in Seq([op : OpType, slot : Slots])
  BY <1>1 DEF MeType
<1>4. Elems(ep0) \subseteq Slots /\ Elems(pool.free) \subseteq Slots BY <1>1, <1>2, EmptyElems
<1>5. Waiting \subseteq Slots
  <2>1. \A i \in DOMAIN reap : reap[i] \in Reaps BY <1>1, ElementOfSeq, LenProperties
  <2> QED BY <2>1 DEF Waiting, SlotsOf, Reaps
<1>6. /\ Len(me.ops) \in Nat /\ DOMAIN me.ops = 1 .. Len(me.ops)
      /\ Len(me.taken) \in Nat /\ DOMAIN me.taken = 1 .. Len(me.taken)
      /\ \A k \in DOMAIN me.ops : me.ops[k] \in OpType
      /\ \A k \in DOMAIN me.taken : me.taken[k] \in Slots
  BY <1>3, LenProperties, ElementOfSeq
<1>7. \A k \in DOMAIN me.used : me.used[k].slot \in Slots
  <2>1. \A k \in DOMAIN me.used : me.used[k] \in [op : OpType, slot : Slots]
    BY <1>3, LenProperties, ElementOfSeq
  <2> QED BY <2>1
<1>8. IsFiniteSet(InFlight) /\ Cardinality(InFlight) \in Nat /\ InFlight \subseteq Slots
  <2>1. InFlight \subseteq Slots BY DEF InFlight
  <2> QED BY <2>1, CtrlAssumption, FS_Subset, FS_CardinalityType DEF CtrlAssumption
<1>9. NoCall \in MeType
  <2>1. 1 \in Ops BY CtrlAssumption DEF CtrlAssumption, Ops
  <2>2. <<>> \in Seq(OpType) /\ <<>> \in Seq(Slots) /\ <<>> \in Seq([op : OpType, slot : Slots])
    BY EmptySeq
  <2> QED BY <2>1, <2>2 DEF NoCall, MeType
<1> QED BY <1>1, <1>2, <1>3, <1>4, <1>5, <1>6, <1>7, <1>8, <1>9

\* A thread that rests holds nothing.
LEMMA AtRest ==
    ASSUME NEW p, me = [NoCall EXCEPT !.pc = p]
    PROVE  /\ me.pc = p /\ me.ops = <<>> /\ me.taken = <<>> /\ me.used = <<>> /\ me.i = 1
           /\ ~ me.group /\ Len(me.taken) = 0 /\ Len(me.ops) = 0 /\ DOMAIN me.ops = {}
           /\ DOMAIN me.used = {} /\ Hand = {} /\ (p # "Submit" => Filled = {})
<1>1. /\ me.pc = p /\ me.ops = <<>> /\ me.taken = <<>> /\ me.used = <<>> /\ me.i = 1
      /\ me.group = FALSE
  BY DEF NoCall
<1>2. Len(<<>>) = 0 /\ DOMAIN <<>> = {} OBVIOUS
<1>3. 1 .. 0 = {} OBVIOUS
<1> QED BY <1>1, <1>2, <1>3 DEF Hand, Filled

\* Nothing but the bookkeeping of drains, batches and sends changes.
LEMMA Quiet ==
    ASSUME CtrlInv, TypeOK', UNCHANGED <<slot, ep0, reap, cb>>,
           pool'.free = pool.free, pool'.inflight = pool.inflight,
           seen'.next = seen.next, seen'.done = seen.done, seen'.broken = seen.broken,
           \/ me' = me
           \/ \E p, q \in Resting : /\ me = [NoCall EXCEPT !.pc = p] /\ me' = [NoCall EXCEPT !.pc = q]
                                    /\ p \in {"Free", "Gone"} => q \in {"Free", "Gone"}
    PROVE  CtrlInv'
<1>1. UNCHANGED <<Waiting, Busy, Publishing, InFlight>>
  BY DEF Waiting, Busy, Publishing, InFlight
<1>2. CASE me' = me
  <2>1. Hand' = Hand /\ Filled' = Filled BY <1>2 DEF Hand, Filled
  <2>2. CallInv' BY <1>2, Parts DEF CallInv
  <2>3. PlaceInv' BY <1>1, <1>2, <2>1, Parts DEF PlaceInv
  <2>4. FlagInv' BY <1>1, <1>2, <2>1, Parts DEF FlagInv
  <2>5. FreedInv' BY <1>1, <1>2, <2>1, Parts DEF FreedInv
  <2>6. AnswerInv' BY <1>1, <1>2, <2>1, Parts DEF AnswerInv
  <2>7. OrderInv' BY <1>2, <2>1, Parts DEF OrderInv
  <2> QED BY <2>2, <2>3, <2>4, <2>5, <2>6, <2>7 DEF CtrlInv
<1>3. CASE \E p, q \in Resting :
                /\ me = [NoCall EXCEPT !.pc = p] /\ me' = [NoCall EXCEPT !.pc = q]
                /\ p \in {"Free", "Gone"} => q \in {"Free", "Gone"}
  <2>1. PICK p \in Resting, q \in Resting :
                /\ me = [NoCall EXCEPT !.pc = p] /\ me' = [NoCall EXCEPT !.pc = q]
                /\ p \in {"Free", "Gone"} => q \in {"Free", "Gone"}
    BY <1>3
  <2>2. /\ me.pc = p /\ Hand = {} /\ Filled = {} /\ me.ops = <<>> /\ me.used = <<>>
        /\ Len(me.taken) = 0 /\ me.i = 1
    BY <2>1, AtRest DEF Resting
  <2>3. /\ me'.pc = q /\ me'.i = 1 /\ me'.ops = <<>> /\ me'.taken = <<>> /\ me'.used = <<>>
        /\ ~ me'.group /\ Len(me'.taken) = 0 /\ Len(me'.ops) = 0 /\ DOMAIN me'.ops = {}
        /\ DOMAIN me'.used = {} /\ Hand' = {} /\ Filled' = {}
    <3>1. me'.pc = q /\ me'.ops = <<>> /\ me'.taken = <<>> /\ me'.used = <<>> /\ me'.i = 1
          /\ me'.group = FALSE
      BY <2>1 DEF NoCall
    <3>2. Len(<<>>) = 0 /\ DOMAIN <<>> = {} OBVIOUS
    <3>3. 1 .. 0 = {} OBVIOUS
    <3> QED BY <3>1, <3>2, <3>3 DEF Hand, Filled, Resting
  <2>4. CallInv' BY <2>1, <2>3 DEF CallInv, Resting
  <2>5. PlaceInv'
    <3>1. 1 .. 0 = {} OBVIOUS
    <3> QED BY <1>1, <2>2, <2>3, <3>1, Parts DEF PlaceInv
  <2>6. FlagInv' BY <1>1, <2>2, <2>3, Parts DEF FlagInv
  <2>7. FreedInv' BY <1>1, <2>1, <2>2, <2>3, Parts DEF FreedInv
  <2>8. AnswerInv' BY <1>1, <2>2, <2>3, Parts DEF AnswerInv
  <2>9. OrderInv'
    <3>1. 1 .. 0 = {} OBVIOUS
    <3> QED BY <2>2, <2>3, <3>1, Parts DEF OrderInv, Resting
  <2> QED BY <2>4, <2>5, <2>6, <2>7, <2>8, <2>9 DEF CtrlInv
<1> QED BY <1>2, <1>3

\* Bookkeeping moves the calling thread from one step at rest to another.
LEMMA Rests ==
    ASSUME CtrlInv, NEW p \in Resting, NEW q \in Resting, me.pc = p, Goto(q)
    PROVE  /\ me = [NoCall EXCEPT !.pc = p] /\ me' = [NoCall EXCEPT !.pc = q]
           /\ me' \in MeType /\ me'.pc = q
<1>1. me = [NoCall EXCEPT !.pc = p] BY Parts DEF CallInv, Resting
<1>2. me' = [NoCall EXCEPT !.pc = q] /\ me'.pc = q BY <1>1 DEF Goto, NoCall
<1>3. me' \in MeType BY <1>2, Before, Parts DEF MeType, Resting
<1> QED BY <1>1, <1>2, <1>3

\* A drain ends: only the thread that drained is told.
LEMMA DrainedInv == ASSUME CtrlInv, NEW t \in Threads, Drained(t) PROVE CtrlInv'
<1>1. TypeOK' BY Before, Parts DEF Drained, TypeOK
<1> QED BY <1>1, Quiet DEF Drained

\* A drain begins, unless one has given up.
LEMMA FlushEnterInv == ASSUME CtrlInv, FlushEnter PROVE CtrlInv'
<1>1. drain' \in [Threads -> {"No", "Enter", "Wait", "Cancelled"}]
  BY Before, Parts DEF FlushEnter, Entered, Threads
<1>2. TypeOK' BY <1>1, Parts DEF FlushEnter, TypeOK
<1> QED BY <1>2, Quiet DEF FlushEnter

\* The other thread starts to drain.
LEMMA SendInv == ASSUME CtrlInv, Send PROVE CtrlInv'
<1>1. drain' \in [Threads -> {"No", "Enter", "Wait", "Cancelled"}]
  BY Before, Parts DEF Send, Entered, Threads
<1>2. sends' \in 0 .. MaxSends BY Before, Parts, CtrlAssumption DEF Send, CtrlAssumption
<1>3. TypeOK' BY <1>1, <1>2, Parts DEF Send, TypeOK
<1> QED BY <1>3, Quiet DEF Send

\* A drain gives up: the slots in flight are retired and stay where they are.
LEMMA GiveUpInv == ASSUME CtrlInv, NEW t \in Threads, GiveUp(t) PROVE CtrlInv'
<1> DEFINE L == {w \in InFlight : ~ slot[w].is_read}
<1>1. Cardinality(L) \in Nat
  <2>1. L \subseteq InFlight /\ IsFiniteSet(InFlight) BY Before, Parts
  <2> QED BY <2>1, FS_Subset, FS_CardinalityType
<1> HIDE DEF L
<1>2. /\ pool' \in PoolType /\ pool'.free = pool.free /\ pool'.inflight = pool.inflight
  <2>1. PICK n \in Nat : pool' = [pool EXCEPT !.abandoned = TRUE, !.write_errors = n]
    <3>1. pool.write_errors + Cardinality(L) \in Nat BY <1>1, Before, Parts
    <3> QED BY <3>1 DEF GiveUp, L
  <2> QED BY <2>1, Before, Parts DEF PoolType
<1>3. batch' \in BatchType BY Before, Parts DEF GiveUp, BatchType
<1>4. seen' \in SeenType /\ seen'.next = seen.next /\ seen'.done = seen.done
      /\ seen'.broken = seen.broken
  <2>1. {slot[w].op : w \in InFlight} \subseteq Ops
    <3>1. \A w \in InFlight : slot[w].op \in Ops \cup {0} /\ slot[w].op # 0
      BY Before, Parts DEF FlagInv, SlotType
    <3> QED BY <3>1
  <2>2. PICK R \in SUBSET Ops : seen' = [seen EXCEPT !.retired = @ \cup R] BY <2>1 DEF GiveUp
  <2> QED BY <2>2, Before, Parts DEF SeenType
<1>5. TypeOK' BY <1>2, <1>3, <1>4, Parts DEF GiveUp, TypeOK
<1> QED BY <1>2, <1>4, <1>5, Quiet DEF GiveUp

\* write_batch_begin starts a new generation, or nests.
LEMMA BeginInv == ASSUME CtrlInv, Begin PROVE CtrlInv'
<1>1. seen' \in SeenType /\ seen'.next = seen.next /\ seen'.done = seen.done
      /\ seen'.broken = seen.broken
  <2>1. seen.begun \in Int /\ seen.begun >= 0 /\ seen.begun + 1 <= MaxTurns
    BY Before, Parts, CtrlAssumption DEF Begin, SeenType, CtrlAssumption
  <2>2. seen.begun + 1 \in 0 .. MaxTurns BY <2>1, CtrlAssumption DEF CtrlAssumption
  <2> QED BY <2>2, Before, Parts DEF Begin, SeenType
<1>2. /\ batch' \in BatchType /\ pool' \in PoolType /\ pool'.free = pool.free
      /\ pool'.inflight = pool.inflight
  <2>1. CASE batch.depth > 0
    <3>1. batch' = [batch EXCEPT !.depth = batch.depth + 1] /\ pool' = pool /\ batch.depth < 2
      BY <2>1 DEF Begin
    <3>2. batch.depth + 1 \in 0 .. 2 BY <2>1, <3>1, Before, Parts DEF BatchType
    <3> QED BY <3>1, <3>2, Before, Parts DEF BatchType
  <2>2. CASE ~ (batch.depth > 0)
    <3>1. PICK p \in BOOLEAN : batch' = [pipelined |-> p, depth |-> 1, ops |-> {}]
      <4>1. (~ pool.abandoned /\ pool.built) \in BOOLEAN OBVIOUS
      <4> QED BY <2>2, <4>1 DEF Begin
    <3>2. pool' = [pool EXCEPT !.write_errors = 0, !.generation = @ + 1] BY <2>2 DEF Begin
    <3>3. batch' \in BatchType BY <3>1 DEF BatchType
    <3>4. pool' \in PoolType /\ pool'.free = pool.free /\ pool'.inflight = pool.inflight
      <4>1. PICK n \in Nat : pool' = [pool EXCEPT !.write_errors = 0, !.generation = n]
        <5>1. pool.generation + 1 \in Nat BY Before, Parts
        <5> QED BY <3>2, <5>1
      <4> QED BY <4>1, Before, Parts DEF PoolType
    <3> QED BY <3>3, <3>4
  <2> QED BY <2>1, <2>2
<1>3. TypeOK' BY <1>1, <1>2, Parts DEF Begin, TypeOK
<1> QED BY <1>1, <1>2, <1>3, Quiet DEF Begin

\* write_batch_end drains, or leaves an inner batch.
LEMMA EndInv == ASSUME CtrlInv, End PROVE CtrlInv'
<1>1. CASE batch.depth > 1
  <2>1. batch' = [batch EXCEPT !.depth = batch.depth - 1] /\ UNCHANGED <<me, drain>>
    BY <1>1 DEF End
  <2>2. batch' \in BatchType
    <3>1. batch.depth - 1 \in 0 .. 2 BY <1>1, Before, Parts DEF BatchType
    <3> QED BY <2>1, <3>1, Before, Parts DEF BatchType
  <2>3. TypeOK' BY <2>1, <2>2, Parts DEF End, TypeOK
  <2> QED BY <2>1, <2>3, Quiet DEF End
<1>2. CASE ~ (batch.depth > 1)
  <2>1. me.pc = "Idle" /\ Goto("End") /\ batch' = batch
        /\ drain' = [drain EXCEPT !["caller"] = "Enter"]
    BY <1>2 DEF End, ThenDrain, At
  <2>2. /\ me = [NoCall EXCEPT !.pc = "Idle"] /\ me' = [NoCall EXCEPT !.pc = "End"]
        /\ me' \in MeType
    BY <2>1, Rests DEF Resting
  <2>3. drain' \in [Threads -> {"No", "Enter", "Wait", "Cancelled"}] BY <2>1, Before, Parts
  <2>4. TypeOK' BY <2>1, <2>2, <2>3, Parts DEF End, TypeOK
  <2> QED BY <2>2, <2>4, Quiet DEF End, Resting
<1> QED BY <1>1, <1>2

\* The outer batch ends.
LEMMA EndDrainedInv == ASSUME CtrlInv, EndDrained PROVE CtrlInv'
<1>1. me.pc = "End" /\ Goto("Idle") BY DEF EndDrained, At
<1>2. /\ me = [NoCall EXCEPT !.pc = "End"] /\ me' = [NoCall EXCEPT !.pc = "Idle"]
      /\ me' \in MeType
  BY <1>1, Rests DEF Resting
<1>3. batch' \in BatchType BY DEF EndDrained, BatchType
<1>4. TypeOK' BY <1>2, <1>3, Parts DEF EndDrained, TypeOK
<1> QED BY <1>2, <1>4, Quiet DEF EndDrained, Resting

\* The destructor drains first.
LEMMA DestroyInv == ASSUME CtrlInv, Destroy PROVE CtrlInv'
<1>1. me.pc = "Idle" /\ Goto("Destroy") /\ drain' = [drain EXCEPT !["caller"] = "Enter"]
  BY DEF Destroy, At, ThenDrain
<1>2. /\ me = [NoCall EXCEPT !.pc = "Idle"] /\ me' = [NoCall EXCEPT !.pc = "Destroy"]
      /\ me' \in MeType
  BY <1>1, Rests DEF Resting
<1>3. drain' \in [Threads -> {"No", "Enter", "Wait", "Cancelled"}] BY <1>1, Before, Parts
<1>4. TypeOK' BY <1>2, <1>3, Parts DEF Destroy, TypeOK
<1> QED BY <1>2, <1>4, Quiet DEF Destroy, Resting

\* The destructor has reaped what it could.
LEMMA LastReapInv == ASSUME CtrlInv, LastReap PROVE CtrlInv'
<1>1. me.pc = "Reap" /\ Goto("Free") BY DEF LastReap, At
<1>2. /\ me = [NoCall EXCEPT !.pc = "Reap"] /\ me' = [NoCall EXCEPT !.pc = "Free"]
      /\ me' \in MeType
  BY <1>1, Rests DEF Resting
<1>3. TypeOK' BY <1>2, Parts DEF LastReap, TypeOK
<1> QED BY <1>2, <1>3, Quiet DEF LastReap, Resting

\* The destructor is done.
LEMMA AllFreedInv == ASSUME CtrlInv, AllFreed PROVE CtrlInv'
<1>1. me.pc = "Free" /\ Goto("Gone") BY DEF AllFreed, At
<1>2. /\ me = [NoCall EXCEPT !.pc = "Free"] /\ me' = [NoCall EXCEPT !.pc = "Gone"]
      /\ me' \in MeType
  BY <1>1, Rests DEF Resting
<1>3. TypeOK' BY <1>2, Parts DEF AllFreed, TypeOK
<1> QED BY <1>2, <1>3, Quiet DEF AllFreed, Resting

------------------------------------------------------------------------------
(* The steps that move a slot. *)

\* The positions of a sequence without its first element.
LEMMA TailIndex ==
    ASSUME NEW S, NEW s \in Seq(S), s # <<>>
    PROVE  /\ 1 \in DOMAIN s /\ Head(s) = s[1]
           /\ \A i \in DOMAIN Tail(s) : i \in Nat \ {0} /\ i + 1 \in DOMAIN s
                                        /\ Tail(s)[i] = s[i + 1]
<1>1. /\ Len(Tail(s)) = Len(s) - 1 /\ Tail(s) \in Seq(S)
      /\ \A i \in 1 .. Len(Tail(s)) : Tail(s)[i] = s[i + 1]
  BY HeadTailProperties
<1>2. /\ Len(s) \in Nat \ {0} /\ DOMAIN s = 1 .. Len(s)
      /\ DOMAIN Tail(s) = 1 .. Len(s) - 1
  BY <1>1, EmptySeq, LenProperties
<1> QED BY <1>1, <1>2

\* One slot is assigned.
LEMMA SlotUpdate ==
    ASSUME slot \in [Slots -> SlotType], NEW w \in Slots, NEW x \in SlotType,
           slot' = [slot EXCEPT ![w] = x]
    PROVE  /\ slot' \in [Slots -> SlotType] /\ slot'[w] = x
           /\ \A v \in Slots : v # w => slot'[v] = slot[v]
OBVIOUS

\* The slots of the calling thread and of the callback are slots.
LEMMA InHand ==
    ASSUME CtrlInv
    PROVE  /\ me.i >= 1 /\ Hand \subseteq Slots /\ Filled \subseteq Hand
           /\ Busy \subseteq Slots /\ Publishing \subseteq Busy
           /\ \A k \in me.i .. Len(me.taken) : k \in DOMAIN me.taken /\ me.taken[k] \in Hand
<1>1. me.i >= 1
  <2>1. CASE me.pc \in Resting BY <2>1, AtRest, Parts DEF CallInv, Resting
  <2>2. CASE me.pc \notin Resting BY <2>2, Parts DEF CallInv, Resting
  <2> QED BY <2>1, <2>2
<1>2. \A k \in me.i .. Len(me.taken) : k \in DOMAIN me.taken /\ me.taken[k] \in Hand
  BY <1>1, Before, Parts DEF Hand
<1>3. Hand \subseteq Slots BY <1>2, Before, Parts DEF Hand
<1>4. Filled \subseteq Hand
  <2> SUFFICES ASSUME me.pc = "Submit" PROVE me.taken[me.i] \in Hand BY DEF Filled
  <2>1. me.i \in me.i .. Len(me.taken) BY Before, Parts DEF CallInv
  <2> QED BY <1>2, <2>1
<1> QED BY <1>1, <1>2, <1>3, <1>4, Parts DEF FlagInv, Publishing, Busy

\* A transfer ends: its slot waits for the callback, with the answer or without.
LEMMA CompleteInv == ASSUME CtrlInv, Complete PROVE CtrlInv'
<1> DEFINE w == Head(ep0)
<1>1. /\ ep0 # <<>> /\ ep0' = Tail(ep0)
      /\ UNCHANGED <<pool, cb, batch, me, drain, sends>>
  BY DEF Complete
<1>2. /\ w \in Slots /\ w \in Elems(ep0) /\ ep0' \in Seq(Slots) /\ Distinct(ep0')
      /\ Elems(ep0') = Elems(ep0) \ {w}
      /\ 1 \in DOMAIN ep0 /\ w = ep0[1]
      /\ \A i \in DOMAIN ep0' : i \in Nat \ {0} /\ i + 1 \in DOMAIN ep0 /\ ep0'[i] = ep0[i + 1]
  BY SMTT(30), <1>1, TailElems, TailIndex, Before, Parts DEF PlaceInv
<1>3. slot[w] \in SlotType /\ slot[w].op \in Ops
  BY <1>2, Before, Parts DEF FlagInv, SlotType
<1>4. \E ok \in BOOLEAN :
         /\ reap' = Append(reap, [slot |-> w, ok |-> ok])
         /\ \/ ok = FALSE /\ UNCHANGED <<seen, slot>>
            \/ /\ ok = TRUE /\ seen' = Performed(slot[w].op, slot[w].is_read)
               /\ slot' = [slot EXCEPT ![w] = [slot[w] EXCEPT !.answer = slot[w].op]]
  BY <1>2, Before, Parts DEF Complete
<1>5. PICK ok \in BOOLEAN :
         /\ reap' = Append(reap, [slot |-> w, ok |-> ok])
         /\ \/ ok = FALSE /\ UNCHANGED <<seen, slot>>
            \/ /\ ok = TRUE /\ seen' = Performed(slot[w].op, slot[w].is_read)
               /\ slot' = [slot EXCEPT ![w] = [slot[w] EXCEPT !.answer = slot[w].op]]
  BY <1>4
<1> HIDE DEF w
<1>6. /\ slot' \in [Slots -> SlotType]
      /\ \A v \in Slots : v # w => slot'[v] = slot[v]
      /\ \A v \in Slots : /\ slot'[v].op = slot[v].op /\ slot'[v].is_read = slot[v].is_read
                          /\ slot'[v].inflight = slot[v].inflight /\ slot'[v].done = slot[v].done
                          /\ slot'[v].cb_busy = slot[v].cb_busy /\ slot'[v].ok = slot[v].ok
                          /\ slot'[v].memory = slot[v].memory
      /\ ok => slot'[w].answer = slot[w].op
  <2>1. CASE UNCHANGED slot /\ ok = FALSE BY <2>1, Before, Parts
  <2>2. CASE slot' = [slot EXCEPT ![w] = [slot[w] EXCEPT !.answer = slot[w].op]]
    <3> DEFINE x == [slot[w] EXCEPT !.answer = slot[w].op]
    <3>1. /\ x \in SlotType /\ x.op = slot[w].op /\ x.is_read = slot[w].is_read
          /\ x.inflight = slot[w].inflight /\ x.done = slot[w].done /\ x.ok = slot[w].ok
          /\ x.cb_busy = slot[w].cb_busy /\ x.memory = slot[w].memory /\ x.answer = slot[w].op
      BY <1>3 DEF SlotType
    <3>2. slot' = [slot EXCEPT ![w] = x] BY <2>2
    <3> HIDE DEF x
    <3>3. slot' \in [Slots -> SlotType] /\ slot'[w] = x
          /\ \A v \in Slots : v # w => slot'[v] = slot[v]
      BY <1>2, <3>1, <3>2, SlotUpdate, Before, Parts
    <3> QED BY <3>1, <3>3
  <2> QED BY <1>5, <2>1, <2>2
<1>7. /\ reap' \in Seq(Reaps) /\ Waiting' = Waiting \cup {w} /\ Apart(reap')
      /\ \A i \in DOMAIN reap' : \/ reap'[i].slot = w /\ reap'[i].ok = ok
                                 \/ i \in DOMAIN reap /\ reap'[i] = reap[i]
  <2> DEFINE x == [slot |-> w, ok |-> ok]
  <2>1. x \in Reaps /\ x.slot = w /\ x.ok = ok BY <1>2 DEF Reaps
  <2>2. w \notin Waiting /\ Apart(reap) BY <1>2, Parts DEF PlaceInv
  <2>3. reap' = Append(reap, x) BY <1>5
  <2> HIDE DEF x
  <2> QED BY <2>1, <2>2, <2>3, ReapAppend, Before, Parts DEF Waiting
<1>8. /\ seen' \in SeenType /\ seen'.next = seen.next
      /\ seen'.done \subseteq seen.done \cup {slot[w].op}
      /\ seen'.broken = seen.broken
  <2>1. CASE UNCHANGED seen BY <2>1, Before, Parts
  <2>2. CASE seen' = Performed(slot[w].op, slot[w].is_read)
    <3>1. \A o \in seen.done : o < slot[w].op BY <1>2, Parts DEF OrderInv
    <3>2. \A o \in seen.done : o \in Nat BY Before, Parts, CtrlAssumption DEF SeenType, Ops, CtrlAssumption
    <3>3. slot[w].op \in Nat BY <1>3, CtrlAssumption DEF Ops, CtrlAssumption
    <3>4. ~ \E o \in seen.done : o > slot[w].op \/ (o = slot[w].op /\ ~ slot[w].is_read)
      BY <3>1, <3>2, <3>3
    <3>5. seen.broken = FALSE BY Before, Parts DEF OrderInv, SeenType
    <3>6. (seen.broken \/ \E o \in seen.done : o > slot[w].op \/ (o = slot[w].op /\ ~ slot[w].is_read)) = FALSE
      BY <3>4, <3>5
    <3>7. seen' = [seen EXCEPT !.done = @ \cup {slot[w].op}, !.broken = FALSE]
      BY <2>2, <3>6 DEF Performed
    <3> QED BY <3>5, <3>7, <1>3, Before, Parts DEF SeenType
  <2> QED BY <1>5, <2>1, <2>2
<1>9. TypeOK' BY <1>1, <1>2, <1>6, <1>7, <1>8, Parts DEF TypeOK, Reaps
<1>10. UNCHANGED <<Busy, Publishing, Hand, Filled, InFlight>>
  BY <1>1, <1>6 DEF Busy, Publishing, Hand, Filled, InFlight
<1>11. CallInv' BY <1>1, <1>8, Parts DEF CallInv
<1>12. PlaceInv' BY <1>1, <1>2, <1>7, <1>10, Parts DEF PlaceInv
<1>13. FlagInv'
  <2>1. Elems(ep0') \cup Waiting' = Elems(ep0) \cup Waiting BY <1>2, <1>7
  <2> QED BY <1>1, <1>6, <1>10, <2>1, Before, Parts DEF FlagInv
<1>14. FreedInv' BY <1>1, <1>2, <1>6, <1>7, <1>10, Parts DEF FreedInv
<1>15. AnswerInv'
  <2>1. (\A v \in Elems(ep0) \cup Waiting \cup Publishing \cup Hand : ~ slot[v].done)'
    <3>1. /\ Elems(ep0') \cup Waiting' \cup Publishing' \cup Hand'
                = Elems(ep0) \cup Waiting \cup Publishing \cup Hand
          /\ Elems(ep0) \cup Waiting \cup Publishing \cup Hand \subseteq Slots
      BY <1>2, <1>7, <1>10, InHand, Before, Parts
    <3> QED BY <1>6, <3>1, Parts DEF AnswerInv
  <2>2. (\A i \in DOMAIN reap : reap[i].ok => slot[reap[i].slot].answer = slot[reap[i].slot].op)'
    <3> SUFFICES ASSUME NEW i \in DOMAIN reap', reap'[i].ok
                 PROVE  slot'[reap'[i].slot].answer = slot'[reap'[i].slot].op
      OBVIOUS
    <3>1. CASE reap'[i].slot = w /\ reap'[i].ok = ok BY <3>1, <1>2, <1>6
    <3>2. CASE i \in DOMAIN reap /\ reap'[i] = reap[i]
      <4>1. reap[i].slot \in Waiting BY <3>2 DEF Waiting, SlotsOf
      <4>2. reap[i].slot # w /\ reap[i].slot \in Slots
        BY <4>1, <1>2, Before, Parts DEF PlaceInv
      <4> QED BY <3>2, <4>2, <1>6, Parts DEF AnswerInv
    <3> QED BY <1>7, <3>1, <3>2
  <2>3. (\A v \in Slots : slot[v].ok /\ (slot[v].done \/ v \in Publishing)
                            => slot[v].answer = slot[v].op)'
    <3>1. ~ slot[w].done /\ w \notin Publishing
      BY <1>2, InHand, Parts DEF AnswerInv, PlaceInv
    <3> QED BY <1>6, <1>10, <3>1, Parts DEF AnswerInv
  <2>4. (\A k \in DOMAIN me.used : /\ slot[me.used[k].slot].op = me.used[k].op.id
                                   /\ me.used[k].slot \notin Hand)'
    BY <1>1, <1>6, <1>10, Before, Parts DEF AnswerInv
  <2> QED BY <2>1, <2>2, <2>3, <2>4 DEF AnswerInv
<1>16. OrderInv'
  <2>0. \A i \in DOMAIN ep0' : ep0'[i] \in Slots /\ slot'[ep0'[i]].op = slot[ep0[i + 1]].op
    BY <1>2, <1>6, LenProperties, ElementOfSeq
  <2>1. (~ seen.broken /\ \A o \in seen.done : o < seen.next)'
    BY <1>2, <1>8, Parts DEF OrderInv
  <2>2. (\A i \in DOMAIN ep0 : slot[ep0[i]].op < seen.next)'
    BY <1>2, <1>8, <2>0, Parts DEF OrderInv
  <2>3. (\A i, j \in DOMAIN ep0 : i < j => slot[ep0[i]].op < slot[ep0[j]].op)'
    BY <1>2, <2>0, Parts DEF OrderInv
  <2>4. (\A i \in DOMAIN ep0, o \in seen.done : o < slot[ep0[i]].op)'
    <3>1. \A i \in DOMAIN ep0' : slot[w].op < slot[ep0[i + 1]].op
      BY <1>2, Parts DEF OrderInv
    <3> QED BY <1>2, <1>8, <2>0, <3>1, Parts DEF OrderInv
  <2>5. (\A v \in Filled : slot[v].op = me.ops[me.i].id /\ slot[v].is_read = me.ops[me.i].read)'
    BY <1>1, <1>6, <1>10, InHand, Parts DEF OrderInv
  <2>6. (me.pc # "Sync" => \A k \in me.i .. Len(me.ops) :
          /\ \A o \in seen.done : o < me.ops[k].id
          /\ \A i \in DOMAIN ep0 : slot[ep0[i]].op < me.ops[k].id)'
    BY <1>1, <1>2, <1>8, <2>0, Parts DEF OrderInv
  <2>7. (me.pc \in {"Sync", "Await", "AwaitDrained"} /\ (me.pc = "Sync" \/ ~ me.group) =>
          /\ \A o \in seen.done : o < me.ops[1].id \/ (o = me.ops[1].id /\ me.ops[1].read)
          /\ \A i \in DOMAIN ep0 : \/ slot[ep0[i]].op < me.ops[1].id
                                   \/ slot[ep0[i]].op = me.ops[1].id /\ me.ops[1].read)'
    BY <1>1, <1>2, <1>8, <2>0, Parts DEF OrderInv
  <2> QED BY <2>1, <2>2, <2>3, <2>4, <2>5, <2>6, <2>7 DEF OrderInv
<1> QED BY <1>9, <1>11, <1>12, <1>13, <1>14, <1>15, <1>16 DEF CtrlInv

\* The order is about the accesses of the slots on endpoint 0, not their flags.
LEMMA OrderKept ==
    ASSUME CtrlInv, \/ UNCHANGED ep0
                    \/ DOMAIN ep0' = {},
           UNCHANGED me,
           seen'.next = seen.next, seen'.done = seen.done, seen'.broken = seen.broken,
           \A v \in Slots : slot'[v].op = slot[v].op /\ slot'[v].is_read = slot[v].is_read
    PROVE  OrderInv'
<1>1. \A i \in DOMAIN ep0' : i \in DOMAIN ep0 /\ ep0'[i] = ep0[i] /\ ep0[i] \in Slots
  BY Before, Parts, LenProperties, ElementOfSeq
<1>2. \A i \in DOMAIN ep0' : slot'[ep0'[i]].op = slot[ep0[i]].op BY <1>1
<1>3. Filled' = Filled /\ Filled \subseteq Slots BY InHand DEF Filled
<1>4. (\A v \in Filled : slot[v].op = me.ops[me.i].id /\ slot[v].is_read = me.ops[me.i].read)'
  BY <1>3, Parts DEF OrderInv
<1> QED BY <1>1, <1>2, <1>4, Parts DEF OrderInv

\* The callback has the slot.
LEMMA CbEnterInv == ASSUME CtrlInv, CbEnter PROVE CtrlInv'
<1> DEFINE w == Head(reap).slot
           ok == Head(reap).ok
<1>1. /\ cb.pc = "Idle" /\ reap # <<>> /\ reap' = Tail(reap)
      /\ cb' = [pc |-> "Publish", slot |-> w]
      /\ slot' = [slot EXCEPT ![w].cb_busy = TRUE, ![w].ok = ok]
      /\ UNCHANGED <<ep0, batch, me, drain, sends, seen>>
  BY DEF CbEnter
<1>2. /\ reap' \in Seq(Reaps) /\ w \in Slots /\ ok \in BOOLEAN /\ w \in Waiting
      /\ Waiting' = Waiting \ {w} /\ Apart(reap')
      /\ 1 \in DOMAIN reap /\ w = reap[1].slot /\ ok = reap[1].ok
      /\ \A i \in DOMAIN reap' : i + 1 \in DOMAIN reap /\ reap'[i] = reap[i + 1]
  BY <1>1, ReapTail, Before, Parts DEF PlaceInv, Waiting, Reaps
<1>3. pool' \in PoolType /\ pool'.free = pool.free /\ pool'.inflight = pool.inflight
  <2>1. PICK n \in Nat : pool' = [pool EXCEPT !.write_errors = n]
    <3>1. pool.write_errors \in Nat /\ pool.write_errors + 1 \in Nat BY Before, Parts
    <3> QED BY <3>1 DEF CbEnter
  <2> QED BY <2>1, Before, Parts DEF PoolType
<1> HIDE DEF w, ok
<1>4. /\ slot' \in [Slots -> SlotType] /\ \A v \in Slots : v # w => slot'[v] = slot[v]
      /\ \A v \in Slots : /\ slot'[v].op = slot[v].op /\ slot'[v].is_read = slot[v].is_read
                          /\ slot'[v].inflight = slot[v].inflight /\ slot'[v].done = slot[v].done
                          /\ slot'[v].answer = slot[v].answer /\ slot'[v].memory = slot[v].memory
      /\ slot'[w].cb_busy = TRUE /\ slot'[w].ok = ok
  <2> DEFINE x == [slot[w] EXCEPT !.cb_busy = TRUE, !.ok = ok]
  <2>1. slot[w] \in SlotType BY <1>2, Before, Parts
  <2>2. /\ x \in SlotType /\ x.op = slot[w].op /\ x.is_read = slot[w].is_read
        /\ x.inflight = slot[w].inflight /\ x.done = slot[w].done /\ x.answer = slot[w].answer
        /\ x.memory = slot[w].memory /\ x.cb_busy = TRUE /\ x.ok = ok
    BY <1>2, <2>1 DEF SlotType
  <2>3. slot' = [slot EXCEPT ![w] = x] BY <1>1, <1>2, Before, Parts
  <2> HIDE DEF x
  <2>4. slot' \in [Slots -> SlotType] /\ slot'[w] = x
        /\ \A v \in Slots : v # w => slot'[v] = slot[v]
    BY <1>2, <2>2, <2>3, SlotUpdate, Before, Parts
  <2> QED BY <2>2, <2>4
<1>5. TypeOK'
  <2>1. cb' \in [pc : {"Idle", "Publish", "Release"}, slot : Slots \cup {NoSlot}] BY <1>1, <1>2
  <2> QED BY <1>1, <1>2, <1>3, <1>4, <2>1, Parts DEF TypeOK, Reaps
<1>6. Busy = {} /\ Publishing = {} /\ Busy' = {w} /\ Publishing' = {w}
  BY <1>1 DEF Busy, Publishing
<1>7. UNCHANGED <<Hand, Filled, InFlight>> BY <1>1, <1>4 DEF Hand, Filled, InFlight
<1>8. CallInv' BY <1>1, Parts DEF CallInv
<1>9. PlaceInv' BY <1>1, <1>2, <1>3, <1>6, <1>7, Parts DEF PlaceInv
<1>10. FlagInv'
  <2>1. Waiting' \cup Publishing' = Waiting \cup Publishing BY <1>2, <1>6
  <2>2. \A v \in Slots : slot'[v].cb_busy <=> v \in Busy' BY <1>4, <1>6, Parts DEF FlagInv
  <2> QED BY SMTT(30), <1>1, <1>2, <1>3, <1>4, <1>6, <1>7, <2>1, <2>2, Before, Parts DEF FlagInv
<1>11. FreedInv' BY <1>1, <1>2, <1>3, <1>4, <1>6, Parts DEF FreedInv
<1>12. AnswerInv'
  <2>1. (\A v \in Elems(ep0) \cup Waiting \cup Publishing \cup Hand : ~ slot[v].done)'
    <3>1. /\ Elems(ep0') \cup Waiting' \cup Publishing' \cup Hand'
                = Elems(ep0) \cup Waiting \cup Publishing \cup Hand
          /\ Elems(ep0) \cup Waiting \cup Publishing \cup Hand \subseteq Slots
      BY <1>1, <1>2, <1>6, <1>7, InHand, Before, Parts
    <3> QED BY <1>4, <3>1, Parts DEF AnswerInv
  <2>2. (\A i \in DOMAIN reap : reap[i].ok => slot[reap[i].slot].answer = slot[reap[i].slot].op)'
    <3>1. \A i \in DOMAIN reap : reap[i].slot \in Slots BY Before, Parts DEF Waiting, SlotsOf
    <3> QED BY <1>2, <1>4, <3>1, Parts DEF AnswerInv
  <2>3. (\A v \in Slots : slot[v].ok /\ (slot[v].done \/ v \in Publishing)
                            => slot[v].answer = slot[v].op)'
    BY <1>2, <1>4, <1>6, Parts DEF AnswerInv
  <2>4. (\A k \in DOMAIN me.used : /\ slot[me.used[k].slot].op = me.used[k].op.id
                                   /\ me.used[k].slot \notin Hand)'
    BY SMTT(30), <1>1, <1>4, <1>7, Before, Parts DEF AnswerInv
  <2> QED BY <2>1, <2>2, <2>3, <2>4 DEF AnswerInv
<1>13. OrderInv' BY <1>1, <1>4, OrderKept
<1> QED BY <1>5, <1>8, <1>9, <1>10, <1>11, <1>12, <1>13 DEF CtrlInv

\* The slot is done, and no longer in flight.
LEMMA CbPublishInv == ASSUME CtrlInv, CbPublish PROVE CtrlInv'
<1> DEFINE w == cb.slot
<1>1. /\ cb.pc = "Publish" /\ cb' = [cb EXCEPT !.pc = "Release"]
      /\ slot' = [slot EXCEPT ![w].inflight = FALSE, ![w].done = TRUE]
      /\ pool' = [pool EXCEPT !.inflight = @ - 1]
      /\ UNCHANGED <<ep0, reap, batch, me, drain, sends, seen>>
  BY DEF CbPublish
<1>2. Busy = {w} /\ Publishing = {w} /\ w \in Slots /\ w \in InFlight
  BY <1>1, InHand, Parts DEF Busy, Publishing, FlagInv
<1>3. /\ cb' \in [pc : {"Idle", "Publish", "Release"}, slot : Slots \cup {NoSlot}]
      /\ Busy' = Busy /\ Publishing' = {}
  BY <1>1, Before, Parts DEF Busy, Publishing
<1>4. Cardinality(InFlight \ {w}) = pool.inflight - 1 /\ pool.inflight - 1 \in Nat
  <2>1. Cardinality(InFlight \ {w}) = Cardinality(InFlight) - 1 /\ IsFiniteSet(InFlight \ {w})
    BY <1>2, FS_RemoveElement, Before, Parts
  <2>2. Cardinality(InFlight \ {w}) \in Nat BY <2>1, FS_CardinalityType
  <2> QED BY <2>1, <2>2, Parts DEF FlagInv
<1>5. pool' \in PoolType /\ pool'.free = pool.free /\ pool'.inflight = pool.inflight - 1
  BY <1>1, <1>4, Before, Parts DEF PoolType
<1> HIDE DEF w
<1>6. /\ slot' \in [Slots -> SlotType] /\ \A v \in Slots : v # w => slot'[v] = slot[v]
      /\ \A v \in Slots : /\ slot'[v].op = slot[v].op /\ slot'[v].is_read = slot[v].is_read
                          /\ slot'[v].ok = slot[v].ok /\ slot'[v].cb_busy = slot[v].cb_busy
                          /\ slot'[v].answer = slot[v].answer /\ slot'[v].memory = slot[v].memory
      /\ slot'[w].inflight = FALSE /\ slot'[w].done = TRUE
  <2> DEFINE x == [slot[w] EXCEPT !.inflight = FALSE, !.done = TRUE]
  <2>1. slot[w] \in SlotType BY <1>2, Before, Parts
  <2>2. /\ x \in SlotType /\ x.op = slot[w].op /\ x.is_read = slot[w].is_read
        /\ x.ok = slot[w].ok /\ x.cb_busy = slot[w].cb_busy /\ x.answer = slot[w].answer
        /\ x.memory = slot[w].memory /\ x.inflight = FALSE /\ x.done = TRUE
    BY <2>1 DEF SlotType
  <2>3. slot' = [slot EXCEPT ![w] = x] BY <1>1, <1>2, Before, Parts
  <2> HIDE DEF x
  <2>4. slot' \in [Slots -> SlotType] /\ slot'[w] = x
        /\ \A v \in Slots : v # w => slot'[v] = slot[v]
    BY <1>2, <2>2, <2>3, SlotUpdate, Before, Parts
  <2> QED BY <2>2, <2>4
<1>7. TypeOK' BY <1>1, <1>3, <1>5, <1>6, Parts DEF TypeOK
<1>8. UNCHANGED <<Hand, Filled, Waiting>> BY <1>1 DEF Hand, Filled, Waiting
<1>9. CallInv' BY <1>1, Parts DEF CallInv
<1>10. PlaceInv' BY <1>1, <1>3, <1>5, <1>8, Parts DEF PlaceInv
<1>11. FlagInv'
  <2>1. InFlight' = InFlight \ {w} BY <1>6 DEF InFlight
  <2>2. w \notin Elems(ep0) /\ w \notin Waiting /\ w \notin Filled
    BY <1>2, InHand, Parts DEF PlaceInv
  <2>3. InFlight' = Elems(ep0') \cup Waiting' \cup Publishing' \cup Filled'
    BY <1>1, <1>2, <1>3, <1>8, <2>1, <2>2, Parts DEF FlagInv
  <2> QED BY <1>3, <1>4, <1>5, <1>6, <2>1, <2>3, Before, Parts DEF FlagInv
<1>12. FreedInv' BY <1>1, <1>3, <1>5, <1>6, <1>8, Parts DEF FreedInv
<1>13. AnswerInv'
  <2>1. (\A v \in Elems(ep0) \cup Waiting \cup Publishing \cup Hand : ~ slot[v].done)'
    <3>1. w \notin Elems(ep0) \cup Waiting \cup Hand BY <1>2, Parts DEF PlaceInv
    <3>2. Elems(ep0) \cup Waiting \cup Hand \subseteq Slots BY InHand, Before, Parts
    <3> QED BY <1>1, <1>3, <1>6, <1>8, <3>1, <3>2, Parts DEF AnswerInv
  <2>2. (\A i \in DOMAIN reap : reap[i].ok => slot[reap[i].slot].answer = slot[reap[i].slot].op)'
    <3>1. \A i \in DOMAIN reap : reap[i].slot \in Slots BY Before, Parts DEF Waiting, SlotsOf
    <3> QED BY <1>1, <1>6, <3>1, Parts DEF AnswerInv
  <2>3. (\A v \in Slots : slot[v].ok /\ (slot[v].done \/ v \in Publishing)
                            => slot[v].answer = slot[v].op)'
    BY <1>2, <1>3, <1>6, Parts DEF AnswerInv
  <2>4. (\A k \in DOMAIN me.used : /\ slot[me.used[k].slot].op = me.used[k].op.id
                                   /\ me.used[k].slot \notin Hand)'
    BY SMTT(30), <1>1, <1>6, <1>8, Before, Parts DEF AnswerInv
  <2> QED BY <2>1, <2>2, <2>3, <2>4 DEF AnswerInv
<1>14. OrderInv' BY <1>1, <1>6, OrderKept
<1> QED BY <1>7, <1>9, <1>10, <1>11, <1>12, <1>13, <1>14 DEF CtrlInv

\* The slot goes to the free list.
LEMMA CbReleaseInv == ASSUME CtrlInv, CbRelease PROVE CtrlInv'
<1> DEFINE w == cb.slot
<1>1. /\ cb.pc = "Release" /\ cb' = NoCb
      /\ slot' = [slot EXCEPT ![w].cb_busy = FALSE]
      /\ pool' = [pool EXCEPT !.free = Append(@, w)]
      /\ UNCHANGED <<ep0, reap, batch, me, drain, sends, seen>>
  BY DEF CbRelease
<1>2. Busy = {w} /\ Publishing = {} /\ w \in Slots BY <1>1, InHand DEF Busy, Publishing
<1>3. /\ cb' \in [pc : {"Idle", "Publish", "Release"}, slot : Slots \cup {NoSlot}]
      /\ Busy' = {} /\ Publishing' = {}
  BY <1>1 DEF Busy, Publishing, NoCb
<1>4. /\ Append(pool.free, w) \in Seq(Slots) /\ Distinct(Append(pool.free, w))
      /\ Elems(Append(pool.free, w)) = Elems(pool.free) \cup {w}
  BY <1>2, AppendElems, Before, Parts DEF PlaceInv
<1>5. /\ pool' \in PoolType /\ pool'.free = Append(pool.free, w)
      /\ pool'.inflight = pool.inflight
  BY <1>1, <1>4, Before, Parts DEF PoolType
<1> HIDE DEF w
<1>6. /\ slot' \in [Slots -> SlotType] /\ \A v \in Slots : v # w => slot'[v] = slot[v]
      /\ \A v \in Slots : /\ slot'[v].op = slot[v].op /\ slot'[v].is_read = slot[v].is_read
                          /\ slot'[v].ok = slot[v].ok /\ slot'[v].inflight = slot[v].inflight
                          /\ slot'[v].done = slot[v].done
                          /\ slot'[v].answer = slot[v].answer /\ slot'[v].memory = slot[v].memory
      /\ slot'[w].cb_busy = FALSE
  <2> DEFINE x == [slot[w] EXCEPT !.cb_busy = FALSE]
  <2>1. slot[w] \in SlotType BY <1>2, Before, Parts
  <2>2. /\ x \in SlotType /\ x.op = slot[w].op /\ x.is_read = slot[w].is_read
        /\ x.ok = slot[w].ok /\ x.inflight = slot[w].inflight /\ x.answer = slot[w].answer
        /\ x.memory = slot[w].memory /\ x.done = slot[w].done /\ x.cb_busy = FALSE
    BY <2>1 DEF SlotType
  <2>3. slot' = [slot EXCEPT ![w] = x] BY <1>1, <1>2, Before, Parts
  <2> HIDE DEF x
  <2>4. slot' \in [Slots -> SlotType] /\ slot'[w] = x
        /\ \A v \in Slots : v # w => slot'[v] = slot[v]
    BY <1>2, <2>2, <2>3, SlotUpdate, Before, Parts
  <2> QED BY <2>2, <2>4
<1>7. TypeOK' BY <1>1, <1>3, <1>5, <1>6, Parts DEF TypeOK
<1>8. UNCHANGED <<Hand, Filled, Waiting, InFlight>>
  BY <1>1, <1>6 DEF Hand, Filled, Waiting, InFlight
<1>9. CallInv' BY <1>1, Parts DEF CallInv
<1>10. PlaceInv' BY <1>1, <1>2, <1>3, <1>4, <1>5, <1>8, Parts DEF PlaceInv
<1>11. FlagInv' BY <1>1, <1>2, <1>3, <1>5, <1>6, <1>8, Before, Parts DEF FlagInv
<1>12. FreedInv' BY <1>1, <1>2, <1>3, <1>4, <1>5, <1>6, <1>8, Parts DEF FreedInv
<1>13. AnswerInv'
  <2>1. (\A v \in Elems(ep0) \cup Waiting \cup Publishing \cup Hand : ~ slot[v].done)'
    <3>2. Elems(ep0) \cup Waiting \cup Hand \subseteq Slots BY InHand, Before, Parts
    <3> QED BY <1>1, <1>3, <1>6, <1>8, <3>2, Parts DEF AnswerInv
  <2>2. (\A i \in DOMAIN reap : reap[i].ok => slot[reap[i].slot].answer = slot[reap[i].slot].op)'
    <3>1. \A i \in DOMAIN reap : reap[i].slot \in Slots BY Before, Parts DEF Waiting, SlotsOf
    <3> QED BY <1>1, <1>6, <3>1, Parts DEF AnswerInv
  <2>3. (\A v \in Slots : slot[v].ok /\ (slot[v].done \/ v \in Publishing)
                            => slot[v].answer = slot[v].op)'
    BY <1>2, <1>3, <1>6, Parts DEF AnswerInv
  <2>4. (\A k \in DOMAIN me.used : /\ slot[me.used[k].slot].op = me.used[k].op.id
                                   /\ me.used[k].slot \notin Hand)'
    BY SMTT(30), <1>1, <1>6, <1>8, Before, Parts DEF AnswerInv
  <2> QED BY <2>1, <2>2, <2>3, <2>4 DEF AnswerInv
<1>14. OrderInv' BY <1>1, <1>6, OrderKept
<1> QED BY <1>7, <1>9, <1>10, <1>11, <1>12, <1>13, <1>14 DEF CtrlInv

\* Every slot on endpoint 0 waits for its callback, which will say it failed.
LEMMA CancelParts ==
    ASSUME CtrlInv, CancelAll, UNCHANGED <<pool, slot, cb>>,
           me'.taken = me.taken, me'.i = me.i, me'.used = me.used, Filled' = Filled,
           me'.pc \notin {"Free", "Gone"} => me.pc \notin {"Free", "Gone"}
    PROVE  /\ ep0' = <<>> /\ reap' \in Seq(Reaps) /\ DOMAIN ep0' = {}
           /\ PlaceInv' /\ FlagInv' /\ FreedInv' /\ AnswerInv'
<1>1. /\ ep0' = <<>> /\ DOMAIN ep0' = {} /\ Elems(ep0') = {} /\ Distinct(ep0')
      /\ reap' = reap \o [i \in DOMAIN ep0 |-> [slot |-> ep0[i], ok |-> FALSE]]
  <2>1. DOMAIN <<>> = {} OBVIOUS
  <2> QED BY <2>1, EmptyElems, Before, Parts DEF CancelAll
<1>2. /\ reap' \in Seq(Reaps) /\ Waiting' = Waiting \cup Elems(ep0) /\ Apart(reap')
      /\ \A i \in DOMAIN reap' : ~ reap'[i].ok \/ (i \in DOMAIN reap /\ reap'[i] = reap[i])
  <2>1. Apart(reap) /\ Distinct(ep0) /\ SlotsOf(reap) \cap Elems(ep0) = {}
    BY Parts DEF PlaceInv, Waiting
  <2> DEFINE t == reap \o [i \in DOMAIN ep0 |-> [slot |-> ep0[i], ok |-> FALSE]]
  <2>2. reap \in Seq(Reaps) /\ ep0 \in Seq(Slots) BY Before, Parts
  <2>3. /\ t \in Seq(Reaps) /\ SlotsOf(t) = SlotsOf(reap) \cup Elems(ep0) /\ Apart(t)
        /\ \A i \in DOMAIN t : ~ t[i].ok \/ (i \in DOMAIN reap /\ t[i] = reap[i])
    BY ONLY <2>1, <2>2, ReapCancelled
  <2>4. reap' = t BY <1>1
  <2> HIDE DEF t
  <2> QED BY <2>3, <2>4 DEF Waiting
<1>3. UNCHANGED <<Busy, Publishing, InFlight>> /\ Hand' = Hand
  BY DEF Busy, Publishing, InFlight, Hand
<1>4. PlaceInv' BY <1>1, <1>2, <1>3, Parts DEF PlaceInv
<1>5. FlagInv'
  <2>1. Elems(ep0') \cup Waiting' = Elems(ep0) \cup Waiting BY <1>1, <1>2
  <2> QED BY <1>3, <2>1, Parts DEF FlagInv
<1>6. FreedInv' BY <1>1, <1>2, <1>3, Parts DEF FreedInv
<1>7. AnswerInv' BY <1>1, <1>2, <1>3, Parts DEF AnswerInv
<1> QED BY <1>1, <1>2, <1>4, <1>5, <1>6, <1>7

\* A drain that times out cancels.
LEMMA DrainTimeoutInv == ASSUME CtrlInv, NEW t \in Threads, DrainTimeout(t) PROVE CtrlInv'
<1>1. CancelAll /\ UNCHANGED <<pool, slot, cb, batch, me, sends, seen>> BY DEF DrainTimeout
<1>2. Filled' = Filled BY <1>1 DEF Filled
<1>3. /\ ep0' = <<>> /\ reap' \in Seq(Reaps) /\ DOMAIN ep0' = {}
      /\ PlaceInv' /\ FlagInv' /\ FreedInv' /\ AnswerInv'
  BY <1>1, <1>2, CancelParts
<1>4. drain' \in [Threads -> {"No", "Enter", "Wait", "Cancelled"}] BY Before, Parts DEF DrainTimeout
<1>5. <<>> \in Seq(Slots) BY EmptySeq
<1>6. TypeOK' BY <1>1, <1>3, <1>4, <1>5, Parts DEF TypeOK, Reaps
<1>7. CallInv' BY <1>1, Parts DEF CallInv
<1>8. OrderInv' BY <1>1, <1>3, OrderKept
<1> QED BY <1>3, <1>6, <1>7, <1>8 DEF CtrlInv

\* The destructor cancels once more, unless nothing is in flight.
LEMMA LastCancelInv == ASSUME CtrlInv, LastCancel PROVE CtrlInv'
<1>1. me.pc = "Destroy" /\ UNCHANGED <<pool, slot, cb, batch, drain, sends, seen>>
  BY DEF LastCancel, At
<1>2. CASE pool.inflight > 0
  <2>1. CancelAll /\ Goto("Reap") BY <1>2 DEF LastCancel
  <2>2. /\ me = [NoCall EXCEPT !.pc = "Destroy"] /\ me' = [NoCall EXCEPT !.pc = "Reap"]
        /\ me' \in MeType /\ me'.pc = "Reap"
    BY <1>1, <2>1, Rests DEF Resting
  <2>3. me'.taken = <<>> /\ me'.i = 1 /\ me'.used = <<>> /\ me'.ops = <<>> /\ me'.group = FALSE
    BY <2>2 DEF NoCall
  <2>4. me.taken = <<>> /\ me.i = 1 /\ me.used = <<>> /\ Filled = {} BY <2>2, AtRest
  <2>5. Filled' = {} BY <2>2 DEF Filled
  <2>6. /\ ep0' = <<>> /\ reap' \in Seq(Reaps) /\ DOMAIN ep0' = {}
        /\ PlaceInv' /\ FlagInv' /\ FreedInv' /\ AnswerInv'
    BY <1>1, <2>1, <2>2, <2>3, <2>4, <2>5, CancelParts
  <2>7. <<>> \in Seq(Slots) /\ Len(<<>>) = 0 /\ DOMAIN <<>> = {} /\ 1 .. 0 = {} BY EmptySeq
  <2>8. TypeOK' BY <1>1, <2>2, <2>6, <2>7, Parts DEF TypeOK, Reaps
  <2>9. CallInv' BY <2>2, <2>3, <2>7 DEF CallInv
  <2>10. OrderInv' BY <1>1, <2>2, <2>3, <2>5, <2>6, <2>7, Parts DEF OrderInv
  <2> QED BY <2>6, <2>8, <2>9, <2>10 DEF CtrlInv
<1>3. CASE ~ (pool.inflight > 0)
  <2>1. UNCHANGED <<ep0, reap>> /\ Goto("Free") BY <1>3 DEF LastCancel
  <2>2. /\ me = [NoCall EXCEPT !.pc = "Destroy"] /\ me' = [NoCall EXCEPT !.pc = "Free"]
        /\ me' \in MeType
    BY <1>1, <2>1, Rests DEF Resting
  <2>3. TypeOK' BY <1>1, <2>1, <2>2, Parts DEF TypeOK
  <2> QED BY <1>1, <2>1, <2>2, <2>3, Quiet DEF Resting
<1> QED BY <1>2, <1>3

\* The destructor leaks a slot in flight and frees one that is nowhere.
LEMMA FreeSlotInv == ASSUME CtrlInv, NEW w \in Slots, FreeSlot(w) PROVE CtrlInv'
<1>1. me.pc = "Free" /\ UNCHANGED <<ep0, reap, cb, batch, me, drain, sends, seen>>
  BY DEF FreeSlot, At
<1>2. \E m \in {"Leaked", "Freed"} : slot' = [slot EXCEPT ![w].memory = m] BY DEF FreeSlot
<1>3. PICK m \in {"Leaked", "Freed"} : slot' = [slot EXCEPT ![w].memory = m] BY <1>2
<1>4. /\ slot' \in [Slots -> SlotType]
      /\ \A v \in Slots : /\ slot'[v].op = slot[v].op /\ slot'[v].is_read = slot[v].is_read
                          /\ slot'[v].ok = slot[v].ok /\ slot'[v].inflight = slot[v].inflight
                          /\ slot'[v].done = slot[v].done /\ slot'[v].cb_busy = slot[v].cb_busy
                          /\ slot'[v].answer = slot[v].answer
      /\ \A v \in Slots : v # w => slot'[v] = slot[v]
      /\ slot'[w].memory = m
  <2> DEFINE x == [slot[w] EXCEPT !.memory = m]
  <2>1. slot[w] \in SlotType BY Before, Parts
  <2>2. /\ x \in SlotType /\ x.op = slot[w].op /\ x.is_read = slot[w].is_read
        /\ x.ok = slot[w].ok /\ x.inflight = slot[w].inflight /\ x.answer = slot[w].answer
        /\ x.memory = m /\ x.done = slot[w].done /\ x.cb_busy = slot[w].cb_busy
    BY <2>1 DEF SlotType
  <2>3. slot' = [slot EXCEPT ![w] = x] BY <1>3, Before, Parts
  <2> HIDE DEF x
  <2>4. slot' \in [Slots -> SlotType] /\ slot'[w] = x
        /\ \A v \in Slots : v # w => slot'[v] = slot[v]
    BY <2>2, <2>3, SlotUpdate, Before, Parts
  <2> QED BY <2>2, <2>4
<1>5. /\ pool' \in PoolType /\ pool'.inflight = pool.inflight /\ Distinct(pool'.free)
      /\ Elems(pool'.free) \subseteq Elems(pool.free)
      /\ slot'[w].memory = "Freed" => /\ w \notin Elems(pool'.free)
                                      /\ ~ slot[w].inflight /\ ~ slot[w].cb_busy
  <2>1. CASE slot' = [slot EXCEPT ![w].memory = "Leaked"] /\ pool' = pool
    <3>1. slot'[w].memory = "Leaked" BY <2>1, Before, Parts DEF SlotType
    <3> QED BY <2>1, <3>1, Before, Parts DEF PlaceInv
  <2>2. CASE /\ ~ slot[w].inflight /\ ~ slot[w].cb_busy
             /\ pool' = [pool EXCEPT !.free = Without(@, w)]
    <3>1. /\ Without(pool.free, w) \in Seq(Slots) /\ Distinct(Without(pool.free, w))
          /\ Elems(Without(pool.free, w)) = Elems(pool.free) \ {w}
      BY WithoutElems, Before, Parts DEF PlaceInv
    <3>2. /\ pool' \in PoolType /\ pool'.inflight = pool.inflight
          /\ pool'.free = Without(pool.free, w)
      BY <2>2, <3>1, Before, Parts DEF PoolType
    <3> QED BY <2>2, <3>1, <3>2
  <2> QED BY <2>1, <2>2 DEF FreeSlot
<1>6. TypeOK' BY <1>1, <1>4, <1>5, Parts DEF TypeOK
<1>7. UNCHANGED <<Hand, Filled, Waiting, Busy, Publishing, InFlight>>
  BY <1>1, <1>4 DEF Hand, Filled, Waiting, Busy, Publishing, InFlight
<1>8. CallInv' BY <1>1, Parts DEF CallInv
<1>9. PlaceInv' BY <1>1, <1>5, <1>7, Parts DEF PlaceInv
<1>10. FlagInv' BY <1>1, <1>4, <1>5, <1>7, Before, Parts DEF FlagInv
<1>11. FreedInv'
  <2>1. slot'[w].memory = "Freed" => w \notin Elems(ep0) \cup Waiting \cup Busy
    <3>1. ~ slot[w].inflight => w \notin Elems(ep0) \cup Waiting
      BY Parts DEF FlagInv, InFlight
    <3>2. ~ slot[w].cb_busy => w \notin Busy BY Parts DEF FlagInv
    <3> QED BY <1>5, <3>1, <3>2
  <2> QED BY <1>1, <1>4, <1>5, <1>7, <2>1, Parts DEF FreedInv
<1>12. AnswerInv'
  <2>1. (\A v \in Elems(ep0) \cup Waiting \cup Publishing \cup Hand : ~ slot[v].done)'
    <3>2. Elems(ep0) \cup Waiting \cup Publishing \cup Hand \subseteq Slots
      BY InHand, Before, Parts
    <3> QED BY <1>1, <1>4, <1>7, <3>2, Parts DEF AnswerInv
  <2>2. (\A i \in DOMAIN reap : reap[i].ok => slot[reap[i].slot].answer = slot[reap[i].slot].op)'
    <3>1. \A i \in DOMAIN reap : reap[i].slot \in Slots BY Before, Parts DEF Waiting, SlotsOf
    <3> QED BY <1>1, <1>4, <3>1, Parts DEF AnswerInv
  <2>3. (\A v \in Slots : slot[v].ok /\ (slot[v].done \/ v \in Publishing)
                            => slot[v].answer = slot[v].op)'
    BY <1>4, <1>7, Parts DEF AnswerInv
  <2>4. (\A k \in DOMAIN me.used : /\ slot[me.used[k].slot].op = me.used[k].op.id
                                   /\ me.used[k].slot \notin Hand)'
    BY ZenonT(60), <1>1, <1>4, <1>7, Before, Parts DEF AnswerInv
  <2> QED BY <2>1, <2>2, <2>3, <2>4 DEF AnswerInv
<1>13. OrderInv' BY <1>1, <1>4, OrderKept
<1> QED BY <1>6, <1>8, <1>9, <1>10, <1>11, <1>12, <1>13 DEF CtrlInv

------------------------------------------------------------------------------
(* The steps of a call. *)

\* A step of the calling thread that moves no slot.
LEMMA CallOnly ==
    ASSUME CtrlInv, UNCHANGED <<slot, ep0, reap, cb>>,
           pool'.free = pool.free, pool'.inflight = pool.inflight,
           me.pc \notin {"Free", "Gone", "Submit"}, me'.pc # "Submit",
           TypeOK', CallInv', OrderInv',
           \/ me'.taken = me.taken /\ me'.i = me.i
           \/ Hand = {} /\ me'.i = Len(me'.taken) + 1
           \/ Hand = {} /\ me'.taken = <<>> /\ me'.i = 1,
           \A k \in DOMAIN me'.used : \E j \in DOMAIN me.used : me'.used[k] = me.used[j]
    PROVE  CtrlInv'
<1>1. Len(me.taken) \in Nat /\ me.i \in Nat /\ Len(me'.taken) \in Nat /\ me'.i \in Nat
  <2>1. me'.taken \in Seq(Slots) /\ me'.i \in Nat BY DEF TypeOK, MeType
  <2> QED BY <2>1, Before, Parts, LenProperties
<1>2. UNCHANGED <<Waiting, Busy, Publishing, InFlight>>
  BY DEF Waiting, Busy, Publishing, InFlight
<1>3. Filled = {} /\ Filled' = {} BY DEF Filled
<1>4. Hand' = Hand /\ \A i, j \in me'.i .. Len(me'.taken) : me'.taken[i] = me'.taken[j] => i = j
  <2>1. CASE me'.taken = me.taken /\ me'.i = me.i BY <2>1, Parts DEF Hand, PlaceInv
  <2>2. CASE Hand = {} /\ me'.i = Len(me'.taken) + 1
    <3>1. me'.i .. Len(me'.taken) = {} BY <1>1, <2>2
    <3> QED BY <2>2, <3>1 DEF Hand
  <2>3. CASE Hand = {} /\ me'.taken = <<>> /\ me'.i = 1
    <3>1. me'.i .. Len(me'.taken) = {} BY <2>3
    <3> QED BY <2>3, <3>1 DEF Hand
  <2> QED BY <2>1, <2>2, <2>3
<1>5. PlaceInv' BY <1>2, <1>4, Parts DEF PlaceInv
<1>6. FlagInv' BY <1>2, <1>3, Parts DEF FlagInv
<1>7. FreedInv' BY <1>2, Parts DEF FreedInv
<1>8. AnswerInv' BY <1>2, <1>4, Parts DEF AnswerInv
<1> QED BY <1>5, <1>6, <1>7, <1>8 DEF CtrlInv

\* The accesses of a call are the next ones.
LEMMA FreshOps ==
    ASSUME TypeOK, NEW n \in Nat, NEW reads, seen.next + n <= MaxOps + 1
    PROVE  /\ Fresh(n, reads) \in Seq(OpType) /\ Len(Fresh(n, reads)) = n
           /\ \A k \in 1 .. n : Fresh(n, reads)[k].id = seen.next + k - 1
<1> DEFINE f == Fresh(n, reads)
<1>1. seen.next \in Nat /\ seen.next >= 1 /\ MaxOps \in Nat
  BY Before, CtrlAssumption DEF SeenType, CtrlAssumption
<1>2. f = [k \in 1 .. n |-> [id |-> seen.next + k - 1, read |-> k \in reads]] BY DEF Fresh
<1>3. \A k \in 1 .. n : f[k] = [id |-> seen.next + k - 1, read |-> k \in reads] BY <1>2
<1>4. \A k \in 1 .. n : f[k] \in OpType /\ f[k].id = seen.next + k - 1
  <2> SUFFICES ASSUME NEW k \in 1 .. n
               PROVE  f[k] \in OpType /\ f[k].id = seen.next + k - 1
    OBVIOUS
  <2>1. seen.next + k - 1 \in Ops BY <1>1 DEF Ops
  <2>2. PICK r \in BOOLEAN : f[k] = [id |-> seen.next + k - 1, read |-> r]
    <3>1. (k \in reads) \in BOOLEAN OBVIOUS
    <3> QED BY <1>3, <3>1
  <2> QED BY <2>1, <2>2 DEF OpType
<1>5. f \in [1 .. n -> OpType]
  <2>1. f = [k \in 1 .. n |-> f[k]] BY <1>2
  <2> QED BY <1>4, <2>1
<1>6. f \in Seq(OpType) BY <1>5, SeqDef
<1>7. DOMAIN f = 1 .. n BY <1>5
<1>8. Len(f) = n BY <1>6, <1>7, LenProperties
<1> QED BY <1>4, <1>6, <1>8

\* A call begins: its accesses come after all that was performed or queued.
LEMMA CallBegins ==
    ASSUME CtrlInv, me.pc = "Idle", NEW n \in Nat \ {0}, NEW reads,
           seen.next + n <= MaxOps + 1, seen' = [seen EXCEPT !.next = @ + n],
           me'.ops = Fresh(n, reads), me'.taken = <<>>, me'.used = <<>>, me'.i = 1,
           me'.pc \in {"Take", "Sync"} \/ (me'.pc = "Acquire" /\ me'.group),
           me'.group \/ n = 1,
           UNCHANGED <<slot, ep0, reap, cb, pool>>, TypeOK'
    PROVE  CtrlInv'
<1> DEFINE f == Fresh(n, reads)
<1>1. /\ f \in Seq(OpType) /\ Len(f) = n /\ DOMAIN f = 1 .. n
      /\ \A k \in 1 .. n : f[k].id = seen.next + k - 1
  BY FreshOps, Parts, LenProperties
<1>2. seen.next \in Nat /\ seen'.next = seen.next + n /\ seen'.done = seen.done
      /\ seen'.broken = seen.broken
  BY Before, Parts, CtrlAssumption DEF SeenType, CtrlAssumption
<1>3. f # <<>> /\ Len(<<>>) = 0 /\ DOMAIN <<>> = {}
  <2>1. Len(<<>>) = 0 /\ DOMAIN <<>> = {} OBVIOUS
  <2> QED BY <1>1, <2>1
<1>4. me'.ops = f OBVIOUS
<1> HIDE DEF f
<1>5. CallInv' BY <1>1, <1>2, <1>3, <1>4 DEF CallInv
<1>6. Hand = {}
  <2>1. me = [NoCall EXCEPT !.pc = "Idle"] BY Parts DEF CallInv
  <2> QED BY <2>1, AtRest
<1>7. \A i \in DOMAIN ep0 : slot[ep0[i]].op \in Int
  <2>1. \A i \in DOMAIN ep0 : ep0[i] \in Slots BY Before, Parts, LenProperties, ElementOfSeq
  <2> QED BY <2>1, Before, Parts, CtrlAssumption DEF SlotType, Ops, CtrlAssumption
<1>8. \A o \in seen.done : o \in Int
  BY Before, Parts, CtrlAssumption DEF SeenType, Ops, CtrlAssumption
<1>9. Filled' = {} BY DEF Filled
<1>10. OrderInv' BY SMTT(30), <1>1, <1>2, <1>4, <1>7, <1>8, <1>9, Parts DEF OrderInv
<1> QED BY <1>3, <1>5, <1>6, <1>10, CallOnly

\* A register access begins.
LEMMA RegisterInv == ASSUME CtrlInv, Register PROVE CtrlInv'
<1>1. /\ me.pc = "Idle" /\ seen.next <= MaxOps /\ seen' = [seen EXCEPT !.next = @ + 1]
      /\ UNCHANGED <<pool, slot, ep0, reap, cb, drain, sends>>
  BY DEF Register, At
<1>2. PICK reads \in SUBSET {1} :
         /\ me' = [NoCall EXCEPT !.pc = IF batch.pipelined THEN "Take" ELSE "Sync",
                                 !.ops = Fresh(1, reads)]
         /\ batch' = [batch EXCEPT !.ops = IF reads = {} /\ batch.depth > 0
                                           THEN @ \cup {seen.next} ELSE @]
  BY DEF Register
<1>3. seen.next + 1 <= MaxOps + 1 /\ seen.next \in Ops /\ seen' \in SeenType
  <2>1. seen.next \in Int /\ seen.next >= 1 /\ MaxOps \in Int
    BY Before, Parts, CtrlAssumption DEF SeenType, CtrlAssumption
  <2>2. seen.next \in Ops /\ seen.next + 1 \in 1 .. MaxOps + 1 BY <1>1, <2>1 DEF Ops
  <2>3. seen' \in SeenType BY <1>1, <2>2, Before, Parts DEF SeenType
  <2> QED BY <2>2, <2>3
<1>4. Fresh(1, reads) \in Seq(OpType) BY <1>3, FreshOps, Parts
<1>5. /\ me' \in MeType /\ me'.pc \in {"Take", "Sync"} /\ me'.ops = Fresh(1, reads)
      /\ me'.taken = <<>> /\ me'.used = <<>> /\ me'.i = 1
  <2>1. PICK p \in {"Take", "Sync"} : me' = [NoCall EXCEPT !.pc = p, !.ops = Fresh(1, reads)]
    BY <1>2
  <2>2. me' \in MeType BY <2>1, <1>4, Before, Parts DEF MeType
  <2> QED BY <2>1, <2>2 DEF NoCall
<1>6. batch' \in BatchType BY <1>2, <1>3, Before, Parts DEF BatchType
<1>7. TypeOK' BY <1>1, <1>3, <1>5, <1>6, Parts DEF TypeOK
<1>8. 1 \in Nat \ {0} OBVIOUS
<1> QED BY ONLY CtrlInv, <1>1, <1>3, <1>5, <1>7, <1>8, CallBegins

\* A group of accesses begins.
LEMMA CtrlBatchInv == ASSUME CtrlInv, CtrlBatch PROVE CtrlInv'
<1>1. me.pc = "Idle" /\ UNCHANGED <<pool, slot, ep0, reap, cb, batch, drain, sends>>
  BY DEF CtrlBatch, At
<1>2. PICK n \in 1 .. MaxGroup, reads \in SUBSET (1 .. MaxGroup), p \in {"Sync", "Acquire"} :
         /\ seen.next + n <= MaxOps + 1
         /\ me' = [NoCall EXCEPT !.pc = p, !.group = TRUE, !.ops = Fresh(n, reads),
                                 !.first = seen.next]
         /\ seen' = [seen EXCEPT !.next = @ + n]
  <2>1. PICK n \in 1 .. MaxGroup : \E reads \in SUBSET (1 .. n) :
         /\ seen.next + n <= MaxOps + 1
         /\ me' = [NoCall EXCEPT !.pc = IF pool.abandoned \/ ~ pool.built THEN "Sync" ELSE "Acquire",
                                 !.group = TRUE, !.ops = Fresh(n, reads),
                                 !.first = seen.next]
         /\ seen' = [seen EXCEPT !.next = @ + n]
    BY DEF CtrlBatch
  <2>2. SUBSET (1 .. n) \subseteq SUBSET (1 .. MaxGroup)
    BY CtrlAssumption DEF CtrlAssumption
  <2> QED BY <2>1, <2>2
<1>3. n \in Nat \ {0} BY CtrlAssumption DEF CtrlAssumption
<1>4. seen.next \in Ops /\ seen' \in SeenType
  <2>1. seen.next \in Int /\ seen.next >= 1 /\ MaxOps \in Int
    BY Before, Parts, CtrlAssumption DEF SeenType, CtrlAssumption
  <2>2. seen.next \in Ops /\ seen.next + n \in 1 .. MaxOps + 1 BY <1>2, <1>3, <2>1 DEF Ops
  <2> QED BY <1>2, <2>2, Before, Parts DEF SeenType
<1>5. Fresh(n, reads) \in Seq(OpType) BY <1>2, <1>3, FreshOps, Parts
<1>6. /\ me' \in MeType /\ me'.pc = p /\ me'.group = TRUE /\ me'.ops = Fresh(n, reads)
      /\ me'.taken = <<>> /\ me'.used = <<>> /\ me'.i = 1
  <2>1. me' \in MeType BY <1>2, <1>4, <1>5, Before, Parts DEF MeType
  <2> QED BY <1>2, <2>1 DEF NoCall
<1>7. TypeOK' BY <1>1, <1>4, <1>6, Parts DEF TypeOK
<1> QED BY <1>1, <1>2, <1>3, <1>6, <1>7, CallBegins

\* At the first access of a chunk the call holds all that it has taken.
LEMMA HandIsTaken ==
    ASSUME TypeOK, me.i = 1
    PROVE  /\ Hand = Elems(me.taken)
           /\ (\A i, j \in me.i .. Len(me.taken) : me.taken[i] = me.taken[j] => i = j)
                <=> Distinct(me.taken)
BY Before DEF Hand, Elems, Distinct

\* A slot goes from the free list to the call.
LEMMA TakeSlotInv ==
    ASSUME CtrlInv, NEW p \in {"Acquire", "Fill"}, TakeSlot(p),
           me.pc = "Acquire" \/ (me.pc = "Take" /\ p = "Fill"),
           me.pc = "Acquire" => p = "Acquire" /\ Len(me.taken) # Len(me.ops),
           UNCHANGED <<ep0, reap, cb, batch, drain, sends, seen>>
    PROVE  CtrlInv'
<1> DEFINE w == pool.free[Len(pool.free)]
<1>1. /\ pool.free # <<>> /\ pool' = [pool EXCEPT !.free = SubSeq(@, 1, Len(@) - 1)]
      /\ slot' = [slot EXCEPT ![w].done = FALSE, ![w].inflight = FALSE, ![w].ok = FALSE]
      /\ me' = [me EXCEPT !.pc = p, !.taken = Append(@, w)]
  BY DEF TakeSlot
<1>2. /\ w \in Slots /\ w \in Elems(pool.free) /\ pool' \in PoolType
      /\ pool'.inflight = pool.inflight /\ Distinct(pool'.free)
      /\ Elems(pool'.free) = Elems(pool.free) \ {w}
  <2> DEFINE f == SubSeq(pool.free, 1, Len(pool.free) - 1)
  <2>1. /\ w \in Slots /\ w \in Elems(pool.free) /\ f \in Seq(Slots) /\ Distinct(f)
        /\ Elems(f) = Elems(pool.free) \ {w}
    BY <1>1, FrontElems, Before, Parts DEF PlaceInv
  <2>2. pool' = [pool EXCEPT !.free = f] BY <1>1
  <2> HIDE DEF f, w
  <2>3. pool' \in PoolType /\ pool'.inflight = pool.inflight /\ pool'.free = f
    BY <2>1, <2>2, Before, Parts DEF PoolType
  <2> QED BY <2>1, <2>3
<1> HIDE DEF w
<1>3. me.i = 1 /\ me.used = <<>> /\ Hand = Elems(me.taken) /\ Distinct(me.taken)
      /\ w \notin Hand
  <2>1. me.i = 1 /\ me.used = <<>> BY Parts DEF CallInv
  <2> QED BY <1>2, <2>1, HandIsTaken, Parts DEF PlaceInv
<1>4. /\ Append(me.taken, w) \in Seq(Slots) /\ Distinct(Append(me.taken, w))
      /\ Elems(Append(me.taken, w)) = Elems(me.taken) \cup {w}
      /\ Len(Append(me.taken, w)) = Len(me.taken) + 1
  BY <1>2, <1>3, AppendElems, AppendProperties, Before, Parts
<1>5. /\ me' \in MeType /\ me'.pc = p /\ me'.taken = Append(me.taken, w) /\ me'.i = 1
      /\ me'.used = <<>> /\ me'.ops = me.ops /\ me'.group = me.group
  BY <1>1, <1>3, <1>4, Before, Parts DEF MeType
<1>6. /\ slot' \in [Slots -> SlotType] /\ \A v \in Slots : v # w => slot'[v] = slot[v]
      /\ \A v \in Slots : /\ slot'[v].op = slot[v].op /\ slot'[v].is_read = slot[v].is_read
                          /\ slot'[v].cb_busy = slot[v].cb_busy
                          /\ slot'[v].answer = slot[v].answer /\ slot'[v].memory = slot[v].memory
      /\ slot'[w].inflight = FALSE /\ slot'[w].done = FALSE /\ slot'[w].ok = FALSE
  <2> DEFINE x == [slot[w] EXCEPT !.done = FALSE, !.inflight = FALSE, !.ok = FALSE]
  <2>1. slot[w] \in SlotType BY <1>2, Before, Parts
  <2>2. /\ x \in SlotType /\ x.op = slot[w].op /\ x.is_read = slot[w].is_read
        /\ x.cb_busy = slot[w].cb_busy /\ x.answer = slot[w].answer
        /\ x.memory = slot[w].memory /\ x.inflight = FALSE /\ x.done = FALSE /\ x.ok = FALSE
    BY <2>1 DEF SlotType
  <2>3. slot' = [slot EXCEPT ![w] = x] BY <1>1, <1>2, Before, Parts
  <2> HIDE DEF x
  <2>4. slot' \in [Slots -> SlotType] /\ slot'[w] = x
        /\ \A v \in Slots : v # w => slot'[v] = slot[v]
    BY <1>2, <2>2, <2>3, SlotUpdate, Before, Parts
  <2> QED BY <2>2, <2>4
<1>7. TypeOK' BY <1>2, <1>5, <1>6, Parts DEF TypeOK
<1>8. Filled = {} /\ Filled' = {} /\ UNCHANGED <<Waiting, Busy, Publishing>>
  BY <1>5 DEF Filled, Waiting, Busy, Publishing
<1>9. Hand' = Hand \cup {w}
      /\ \A i, j \in me'.i .. Len(me'.taken) : me'.taken[i] = me'.taken[j] => i = j
  <2>1. DOMAIN me'.taken = 1 .. Len(me'.taken) BY <1>4, <1>5, LenProperties
  <2>2. Hand' = Elems(me'.taken) BY <1>5, <2>1 DEF Hand, Elems
  <2> QED BY <1>3, <1>4, <1>5, <2>1, <2>2 DEF Distinct
<1>10. CallInv'
  <2>1. Len(me.taken) + 1 <= Len(me.ops) /\ me.ops # <<>>
    <3>1. me.ops # <<>> /\ Len(me.taken) <= Len(me.ops) BY Parts DEF CallInv
    <3>2. Len(me.ops) # 0 BY <3>1, Before, Parts, EmptySeq
    <3>3. CASE me.pc = "Take"
      <4>1. me.taken = <<>> BY <3>3, Parts DEF CallInv
      <4>2. Len(me.taken) = 0 BY <4>1
      <4> QED BY <3>1, <3>2, <4>2, Before, Parts
    <3>4. CASE me.pc = "Acquire" BY <3>1, <3>4, Before, Parts
    <3> QED BY <3>1, <3>3, <3>4
  <2>2. p = "Acquire" => me.group BY Parts DEF CallInv
  <2>3. p = "Fill" => 1 <= Len(me.taken) + 1 BY Before, Parts
  <2> QED BY <1>4, <1>5, <2>1, <2>2, <2>3, Parts DEF CallInv
<1>11. InFlight' = InFlight
  <2>1. w \notin InFlight BY <1>2, <1>8, InHand, Parts DEF FlagInv, PlaceInv
  <2> QED BY <1>6, <2>1 DEF InFlight
<1>12. PlaceInv' BY <1>2, <1>3, <1>8, <1>9, Parts DEF PlaceInv
<1>13. FlagInv' BY <1>2, <1>6, <1>8, <1>11, Before, Parts DEF FlagInv
<1>14. FreedInv' BY <1>2, <1>5, <1>6, <1>8, Parts DEF FreedInv
<1>15. AnswerInv'
  <2>1. (\A v \in Elems(ep0) \cup Waiting \cup Publishing \cup Hand : ~ slot[v].done)'
    <3>1. Elems(ep0) \cup Waiting \cup Publishing \cup Hand \subseteq Slots
      BY InHand, Before, Parts
    <3> QED BY <1>6, <1>8, <1>9, <3>1, Parts DEF AnswerInv
  <2>2. (\A i \in DOMAIN reap : reap[i].ok => slot[reap[i].slot].answer = slot[reap[i].slot].op)'
    <3>1. \A i \in DOMAIN reap : reap[i].slot \in Slots BY Before, Parts DEF Waiting, SlotsOf
    <3> QED BY <1>6, <3>1, Parts DEF AnswerInv
  <2>3. (\A v \in Slots : slot[v].ok /\ (slot[v].done \/ v \in Publishing)
                            => slot[v].answer = slot[v].op)'
    BY <1>6, <1>8, Parts DEF AnswerInv
  <2>4. DOMAIN me'.used = {} BY <1>5
  <2> QED BY <2>1, <2>2, <2>3, <2>4 DEF AnswerInv
<1>16. OrderInv'
  <2>1. \A i \in DOMAIN ep0 : ep0[i] \in Slots BY Before, Parts, LenProperties, ElementOfSeq
  <2> QED BY <1>3, <1>5, <1>6, <1>8, <2>1, Parts DEF OrderInv
<1> QED BY <1>7, <1>10, <1>12, <1>13, <1>14, <1>15, <1>16 DEF CtrlInv

\* A step that changes nothing but where the call is.
LEMMA Moves ==
    ASSUME CtrlInv, NEW p, NEW d \in [Threads -> {"No", "Enter", "Wait", "Cancelled"}], drain' = d,
           me' = [me EXCEPT !.pc = p],
           \/ me.pc = "Acquire" /\ p = "Sync" /\ me.taken = <<>>
           \/ me.pc = "Acquire" /\ p = "Take" /\ me.taken = <<>>
           \/ me.pc = "Acquire" /\ p = "Fill" /\ me.taken # <<>>
           \/ me.pc = "Take" /\ p = "TakeDrained"
           \/ me.pc = "TakeDrained" /\ p = "Take"
           \/ me.pc = "Await" /\ p = "AwaitDrained" /\ me.used # <<>>,
           UNCHANGED <<slot, ep0, reap, cb, pool, batch, sends, seen>>
    PROVE  CtrlInv'
<1>1. /\ me' \in MeType /\ me'.pc = p /\ me'.taken = me.taken /\ me'.i = me.i
      /\ me'.used = me.used /\ me'.ops = me.ops /\ me'.group = me.group
  BY Before, Parts DEF MeType
<1>2. TypeOK' BY <1>1, Parts DEF TypeOK
<1>3. Len(me.taken) \in Nat /\ (me.taken # <<>> => Len(me.taken) >= 1)
      /\ (me.taken = <<>> => Len(me.taken) = 0)
      /\ (me.ops # <<>> => Len(me.ops) >= 1) /\ Len(me.ops) \in Nat
  <2>1. Len(me.taken) = 0 <=> me.taken = <<>> BY Before, Parts, EmptySeq
  <2>2. Len(me.ops) = 0 <=> me.ops = <<>> BY Before, Parts, EmptySeq
  <2> QED BY <2>1, <2>2, Before, Parts
<1>4. CallInv' BY <1>1, <1>3, Parts DEF CallInv
<1>5. OrderInv'
  <2>1. Filled' = {} BY <1>1 DEF Filled
  <2>2. me.pc = "Acquire" => 1 \in me.i .. Len(me.ops) BY <1>3, Parts DEF CallInv
  <2> QED BY <1>1, <2>1, <2>2, Parts DEF OrderInv
<1> QED BY <1>1, <1>2, <1>4, <1>5, CallOnly

\* A group takes the next free slot, or goes on with those it has.
LEMMA AcquireInv == ASSUME CtrlInv, Acquire PROVE CtrlInv'
<1>1. me.pc = "Acquire" /\ UNCHANGED <<ep0, reap, cb, batch, drain, sends, seen>>
  BY DEF Acquire, At
<1>2. CASE me.taken = <<>> /\ Goto("Sync") /\ UNCHANGED <<pool, slot>>
  BY <1>1, <1>2, Moves, Before, Parts DEF Goto
<1>3. CASE Len(me.taken) # Len(me.ops) /\ TakeSlot("Acquire") BY <1>1, <1>3, TakeSlotInv
<1>4. CASE Goto(IF me.taken = <<>> THEN "Take" ELSE "Fill") /\ UNCHANGED <<pool, slot>>
  BY <1>1, <1>4, Moves, Before, Parts DEF Goto
<1> QED BY <1>2, <1>3, <1>4 DEF Acquire

\* async_take_slot takes a slot, or drains for one.
LEMMA TakeInv == ASSUME CtrlInv, Take PROVE CtrlInv'
<1>1. me.pc = "Take" /\ UNCHANGED <<ep0, reap, cb, batch, sends, seen>> BY DEF Take, At
<1>2. CASE TakeSlot("Fill") /\ UNCHANGED drain BY <1>1, <1>2, TakeSlotInv
<1>3. CASE ThenDrain("TakeDrained") /\ UNCHANGED <<pool, slot>>
  <2>1. [drain EXCEPT !["caller"] = "Enter"] \in [Threads -> {"No", "Enter", "Wait", "Cancelled"}]
    BY Before, Parts
  <2> QED BY <1>1, <1>3, <2>1, Moves DEF ThenDrain, Goto
<1> QED BY <1>2, <1>3 DEF Take

\* A call that got no slot goes on synchronously, with nothing submitted.
LEMMA TakeDrainedInv == ASSUME CtrlInv, TakeDrained PROVE CtrlInv'
<1>1. me.pc = "TakeDrained" /\ UNCHANGED <<pool, slot, ep0, reap, cb, batch, drain, sends, seen>>
  BY DEF TakeDrained, At
<1>2. CASE me' = [me EXCEPT !.pc = "Take"] BY <1>1, <1>2, Moves, Before, Parts
<1>3. CASE me' = [me EXCEPT !.pc = "Sync", !.ok = FALSE]
  <2>1. /\ me' \in MeType /\ me'.pc = "Sync" /\ me'.taken = me.taken /\ me'.i = me.i
        /\ me'.used = me.used /\ me'.ops = me.ops /\ me'.group = me.group
    BY <1>3, Before, Parts DEF MeType
  <2>2. TypeOK' BY <1>1, <2>1, Parts DEF TypeOK
  <2>3. me.taken = <<>> /\ me.i = 1 /\ Len(me.taken) = 0 /\ me.ops # <<>>
    <3>1. me.taken = <<>> /\ me.i = 1 /\ me.ops # <<>> BY <1>1, Parts DEF CallInv
    <3> QED BY <3>1
  <2>4. CallInv' BY <1>1, <2>1, <2>3, Parts DEF CallInv
  <2>5. 1 \in me.i .. Len(me.ops)
    <3>1. Len(me.ops) # 0 BY <2>3, Before, Parts, EmptySeq
    <3> QED BY <2>3, <3>1, Before, Parts
  <2>6. OrderInv'
    <3>1. Filled' = {} BY <2>1 DEF Filled
    <3> QED BY <1>1, <2>1, <2>5, <3>1, Parts DEF OrderInv
  <2> QED BY <1>1, <2>1, <2>2, <2>4, <2>6, CallOnly
<1> QED BY <1>2, <1>3 DEF TakeDrained


\* The access that a call is about to submit, and the slot it is in.
LEMMA InTurn ==
    ASSUME CtrlInv, me.pc \in {"Fill", "Submit"}
    PROVE  /\ me.i \in me.i .. Len(me.taken) /\ me.i \in me.i .. Len(me.ops)
           /\ me.i \in DOMAIN me.ops /\ me.i \in DOMAIN me.taken
           /\ me.ops[me.i] \in OpType /\ me.taken[me.i] \in Hand /\ me.taken[me.i] \in Slots
<1>1. me.i >= 1 /\ me.i <= Len(me.taken) /\ Len(me.taken) <= Len(me.ops)
  BY InHand, Parts DEF CallInv
<1>2. /\ me.i \in me.i .. Len(me.taken) /\ me.i \in me.i .. Len(me.ops)
      /\ me.i \in DOMAIN me.ops /\ me.i \in DOMAIN me.taken
  BY <1>1, Before, Parts
<1> QED BY <1>2, InHand, Before, Parts

\* async_submit fills the slot in and counts it.
LEMMA FillInv == ASSUME CtrlInv, Fill PROVE CtrlInv'
<1> DEFINE w == me.taken[me.i]
           a == me.ops[me.i]
<1>1. /\ me.pc = "Fill" /\ me' = [me EXCEPT !.pc = "Submit"]
      /\ slot' = [slot EXCEPT ![w] = [@ EXCEPT !.op = a.id, !.is_read = a.read,
                                      !.gen = pool.generation, !.inflight = TRUE, !.answer = 0]]
      /\ pool' = [pool EXCEPT !.inflight = @ + 1]
      /\ UNCHANGED <<ep0, reap, cb, batch, drain, sends, seen>>
  BY DEF Fill, At, Goto
<1>2. /\ w \in Hand /\ w \in Slots /\ a \in OpType
      /\ me.i \in me.i .. Len(me.taken) /\ me.i \in me.i .. Len(me.ops) /\ me.i \in DOMAIN me.ops
  BY <1>1, InTurn
<1>3. /\ me' \in MeType /\ me'.pc = "Submit" /\ me'.taken = me.taken /\ me'.i = me.i
      /\ me'.used = me.used /\ me'.ops = me.ops /\ me'.group = me.group
  BY <1>1, Before, Parts DEF MeType
<1>4. Filled = {} /\ Filled' = {w} /\ Hand' = Hand /\ UNCHANGED <<Waiting, Busy, Publishing>>
  BY <1>1, <1>3 DEF Filled, Hand, Waiting, Busy, Publishing
<1>5. w \notin Elems(ep0) \cup Waiting \cup Busy \cup Publishing BY <1>2, InHand, Parts DEF PlaceInv
<1>6. a.id \in Ops /\ a.read \in BOOLEAN BY <1>2 DEF OpType
<1>7. w \notin InFlight BY <1>4, <1>5, Parts DEF FlagInv
<1>8. pool' \in PoolType /\ pool'.free = pool.free /\ pool'.inflight = pool.inflight + 1
  <2>1. pool.inflight + 1 \in Nat BY Before, Parts
  <2> QED BY <1>1, <2>1, Before, Parts DEF PoolType
<1> HIDE DEF w, a
<1>9. /\ slot' \in [Slots -> SlotType] /\ \A v \in Slots : v # w => slot'[v] = slot[v]
      /\ \A v \in Slots : /\ slot'[v].ok = slot[v].ok /\ slot'[v].done = slot[v].done
                          /\ slot'[v].cb_busy = slot[v].cb_busy /\ slot'[v].memory = slot[v].memory
      /\ slot'[w].op = a.id /\ slot'[w].is_read = a.read /\ slot'[w].inflight = TRUE
  <2> DEFINE x == [slot[w] EXCEPT !.op = a.id, !.is_read = a.read, !.gen = pool.generation,
                                  !.inflight = TRUE, !.answer = 0]
  <2>1. slot[w] \in SlotType /\ pool.generation \in Nat BY <1>2, Before, Parts
  <2>2. /\ x \in SlotType /\ x.op = a.id /\ x.is_read = a.read /\ x.inflight = TRUE
        /\ x.cb_busy = slot[w].cb_busy /\ x.memory = slot[w].memory
        /\ x.done = slot[w].done /\ x.ok = slot[w].ok
    BY <1>6, <2>1 DEF SlotType
  <2>3. slot' = [slot EXCEPT ![w] = x] BY <1>1, <1>2, Before, Parts
  <2> HIDE DEF x
  <2>4. slot' \in [Slots -> SlotType] /\ slot'[w] = x
        /\ \A v \in Slots : v # w => slot'[v] = slot[v]
    BY <1>2, <2>2, <2>3, SlotUpdate, Before, Parts
  <2> QED BY <2>2, <2>4
<1>10. TypeOK' BY <1>1, <1>3, <1>8, <1>9, Parts DEF TypeOK
<1>11. CallInv' BY <1>1, <1>3, Parts DEF CallInv
<1>12. PlaceInv' BY <1>1, <1>3, <1>4, <1>8, Parts DEF PlaceInv
<1>13. FlagInv'
  <2>1. InFlight' = InFlight \cup {w} BY <1>2, <1>9 DEF InFlight
  <2>2. Cardinality(InFlight \cup {w}) = pool.inflight + 1
    <3>1. IsFiniteSet(InFlight) BY Before, Parts
    <3>2. Cardinality(InFlight \cup {w}) = Cardinality(InFlight) + 1 BY <1>7, <3>1, FS_AddElement
    <3> QED BY <3>2, Parts DEF FlagInv
  <2>3. InFlight' = Elems(ep0') \cup Waiting' \cup Publishing' \cup Filled'
    BY <1>1, <1>4, <2>1, Parts DEF FlagInv
  <2>4. \A v \in InFlight' : slot'[v].op # 0
    <3>1. a.id # 0 BY <1>6, CtrlAssumption DEF Ops, CtrlAssumption
    <3> QED BY <1>9, <2>1, <3>1, Before, Parts DEF FlagInv
  <2> QED BY <1>4, <1>8, <1>9, <2>1, <2>2, <2>3, <2>4, Parts DEF FlagInv
<1>14. FreedInv' BY <1>1, <1>3, <1>4, <1>8, <1>9, Parts DEF FreedInv
<1>15. AnswerInv'
  <2>1. (\A v \in Elems(ep0) \cup Waiting \cup Publishing \cup Hand : ~ slot[v].done)'
    <3>1. Elems(ep0) \cup Waiting \cup Publishing \cup Hand \subseteq Slots
      BY InHand, Before, Parts
    <3> QED BY <1>1, <1>4, <1>9, <3>1, Parts DEF AnswerInv
  <2>2. (\A i \in DOMAIN reap : reap[i].ok => slot[reap[i].slot].answer = slot[reap[i].slot].op)'
    <3>1. \A i \in DOMAIN reap : reap[i].slot \in Waiting BY DEF Waiting, SlotsOf
    <3>2. \A i \in DOMAIN reap : reap[i].slot \in Slots /\ reap[i].slot # w
      BY <1>5, <3>1, Before, Parts
    <3> QED BY <1>1, <1>9, <3>2, Parts DEF AnswerInv
  <2>3. (\A v \in Slots : slot[v].ok /\ (slot[v].done \/ v \in Publishing)
                            => slot[v].answer = slot[v].op)'
    <3>1. ~ slot[w].done BY <1>2, Parts DEF AnswerInv
    <3> QED BY <1>4, <1>5, <1>9, <3>1, Parts DEF AnswerInv
  <2>4. (\A k \in DOMAIN me.used : /\ slot[me.used[k].slot].op = me.used[k].op.id
                                   /\ me.used[k].slot \notin Hand)'
    <3>1. \A k \in DOMAIN me.used : me.used[k].slot \in Slots /\ me.used[k].slot # w
      BY <1>2, Before, Parts DEF AnswerInv
    <3> QED BY <1>3, <1>4, <1>9, <3>1, Parts DEF AnswerInv
  <2> QED BY <2>1, <2>2, <2>3, <2>4 DEF AnswerInv
<1>16. OrderInv'
  <2>1. \A i \in DOMAIN ep0 : ep0[i] \in Elems(ep0) BY DEF Elems
  <2>2. \A i \in DOMAIN ep0 : slot'[ep0[i]] = slot[ep0[i]] BY <1>5, <1>9, <2>1, Before, Parts
  <2>3. (\A v \in Filled : slot[v].op = me.ops[me.i].id /\ slot[v].is_read = me.ops[me.i].read)'
    BY <1>3, <1>4, <1>9 DEF a
  <2>4. (me.pc # "Sync" => \A k \in me.i .. Len(me.ops) :
          /\ \A o \in seen.done : o < me.ops[k].id
          /\ \A i \in DOMAIN ep0 : slot[ep0[i]].op < me.ops[k].id)'
    BY ZenonT(60), <1>1, <1>3, <2>2, Parts DEF OrderInv
  <2>5. (~ seen.broken /\ \A o \in seen.done : o < seen.next)' BY <1>1, Parts DEF OrderInv
  <2>6. (\A i \in DOMAIN ep0 : slot[ep0[i]].op < seen.next)' BY <1>1, <2>2, Parts DEF OrderInv
  <2>7. (\A i, j \in DOMAIN ep0 : i < j => slot[ep0[i]].op < slot[ep0[j]].op)'
    <3> SUFFICES ASSUME NEW i \in DOMAIN ep0, NEW j \in DOMAIN ep0, i < j
                 PROVE  slot'[ep0[i]].op < slot'[ep0[j]].op
      BY <1>1
    <3> QED BY <2>2, Parts DEF OrderInv
  <2>8. (\A i \in DOMAIN ep0, o \in seen.done : o < slot[ep0[i]].op)'
    BY <1>1, <2>2, Parts DEF OrderInv
  <2> QED BY <1>3, <2>3, <2>4, <2>5, <2>6, <2>7, <2>8 DEF OrderInv
<1> QED BY <1>10, <1>11, <1>12, <1>13, <1>14, <1>15, <1>16 DEF CtrlInv

\* The call goes on to its next slot.
LEMMA HandShrinks ==
    ASSUME CtrlInv, me.pc = "Submit",
           \/ me'.taken = me.taken /\ me'.i = me.i + 1
           \/ me'.taken = <<>> /\ me'.i = 1 /\ ~ me.group
    PROVE  /\ Hand' = Hand \ {me.taken[me.i]}
           /\ \A i, j \in me'.i .. Len(me'.taken) : me'.taken[i] = me'.taken[j] => i = j
           /\ ~ me.group => me.i = 1 /\ Len(me.taken) = 1 /\ Len(me.ops) = 1
<1>1. /\ me.i \in Nat /\ me.i >= 1 /\ me.i <= Len(me.taken) /\ Len(me.taken) <= Len(me.ops)
      /\ Len(me.taken) \in Nat /\ Len(me.ops) \in Nat
  BY InHand, Before, Parts DEF CallInv
<1>2. ~ me.group => me.i = 1 /\ Len(me.taken) = 1 /\ Len(me.ops) = 1
  <2> SUFFICES ASSUME ~ me.group PROVE me.i = 1 /\ Len(me.taken) = 1 /\ Len(me.ops) = 1
    OBVIOUS
  <2>1. Len(me.ops) <= 1 BY Parts DEF CallInv
  <2>2. \A i, m, n \in Nat : i >= 1 /\ i <= m /\ m <= n /\ n <= 1 => i = 1 /\ m = 1 /\ n = 1
    OBVIOUS
  <2> QED BY ONLY <1>1, <2>1, <2>2
<1>3. \A i, j \in me.i .. Len(me.taken) : me.taken[i] = me.taken[j] => i = j
  BY Parts DEF PlaceInv
<1>4. CASE me'.taken = me.taken /\ me'.i = me.i + 1
  <2>1. me.i .. Len(me.taken) = {me.i} \cup (me'.i .. Len(me'.taken))
        /\ me.i \notin me'.i .. Len(me'.taken)
    BY <1>1, <1>4
  <2>2. Hand' = {me.taken[k] : k \in me'.i .. Len(me'.taken)} BY <1>4 DEF Hand
  <2>3. Hand' \subseteq Hand \ {me.taken[me.i]}
    <3> SUFFICES ASSUME NEW k \in me'.i .. Len(me'.taken)
                 PROVE  me.taken[k] \in Hand \ {me.taken[me.i]}
      BY <2>2
    <3>1. k \in me.i .. Len(me.taken) /\ k # me.i /\ me.i \in me.i .. Len(me.taken) BY <2>1
    <3> QED BY <3>1, <1>3 DEF Hand
  <2>4. Hand \ {me.taken[me.i]} \subseteq Hand' BY <2>1, <2>2 DEF Hand
  <2> QED BY <1>2, <1>3, <1>4, <2>1, <2>3, <2>4
<1>5. CASE me'.taken = <<>> /\ me'.i = 1 /\ ~ me.group
  <2>1. Len(<<>>) = 0 /\ 1 .. 0 = {} OBVIOUS
  <2>2. Hand' = {} BY <1>5, <2>1 DEF Hand
  <2>3. me.i .. Len(me.taken) = {me.i} BY <1>2, <1>5
  <2>4. Hand = {me.taken[me.i]} BY <2>3 DEF Hand
  <2> QED BY <1>2, <1>5, <2>1, <2>2, <2>4
<1> QED BY <1>4, <1>5

\* The accesses have numbers.
LEMMA Numbers ==
    ASSUME CtrlInv
    PROVE  /\ \A i \in DOMAIN ep0 : ep0[i] \in Slots /\ slot[ep0[i]].op \in Int
           /\ \A o \in seen.done : o \in Int
           /\ \A k \in DOMAIN me.ops : me.ops[k].id \in Int
           /\ seen.next \in Int
<1>1. \A i \in DOMAIN ep0 : ep0[i] \in Slots BY Before, Parts, LenProperties, ElementOfSeq
<1>2. \A w \in Slots : slot[w].op \in Int
  BY Before, Parts, CtrlAssumption DEF SlotType, Ops, CtrlAssumption
<1>3. (\A o \in seen.done : o \in Int) /\ seen.next \in Int
  BY Before, Parts, CtrlAssumption DEF SeenType, Ops, CtrlAssumption
<1>4. \A k \in DOMAIN me.ops : me.ops[k].id \in Int
  BY Before, Parts, CtrlAssumption DEF OpType, Ops, CtrlAssumption
<1> QED BY <1>1, <1>2, <1>3, <1>4

\* libusb_submit_transfer takes the transfer: endpoint 0 has the slot.
LEMMA SubmittedInv ==
    ASSUME CtrlInv, me.pc = "Submit", ep0' = Append(ep0, me.taken[me.i]),
           UNCHANGED <<pool, slot, reap, cb, batch, drain, sends, seen>>,
           me' = IF me.group \/ me.ops[me.i].read
                 THEN [me EXCEPT !.pc = IF me.i < Len(me.taken) THEN "Fill" ELSE "Await",
                                 !.i = @ + 1,
                                 !.used = Append(@, [op |-> me.ops[me.i], slot |-> me.taken[me.i]])]
                 ELSE NoCall
    PROVE  CtrlInv'
<1> DEFINE w == me.taken[me.i]
           a == me.ops[me.i]
           u == [op |-> a, slot |-> w]
           p == IF me.i < Len(me.taken) THEN "Fill" ELSE "Await"
<1>1. /\ w \in Hand /\ w \in Slots /\ a \in OpType /\ Filled = {w}
      /\ me.i \in me.i .. Len(me.taken) /\ me.i \in me.i .. Len(me.ops) /\ me.i \in DOMAIN me.ops
      /\ slot[w].op = a.id /\ slot[w].is_read = a.read
  <2>1. Filled = {w} BY DEF Filled
  <2> QED BY <2>1, InTurn, Parts DEF OrderInv
<1>2. /\ u \in [op : OpType, slot : Slots] /\ Append(me.used, u) \in Seq([op : OpType, slot : Slots])
      /\ Append(me.used, u) # <<>>
      /\ \A k \in DOMAIN Append(me.used, u) :
            \/ Append(me.used, u)[k] = u
            \/ k \in DOMAIN me.used /\ Append(me.used, u)[k] = me.used[k]
  <2>1. u \in [op : OpType, slot : Slots] BY <1>1
  <2> HIDE DEF u
  <2>2. /\ Append(me.used, u) \in Seq([op : OpType, slot : Slots])
        /\ Len(Append(me.used, u)) = Len(me.used) + 1 /\ Len(me.used) \in Nat
        /\ \A k \in 1 .. Len(me.used) : Append(me.used, u)[k] = me.used[k]
        /\ Append(me.used, u)[Len(me.used) + 1] = u
    <3>1. me.used \in Seq([op : OpType, slot : Slots]) BY Before, Parts
    <3> QED BY ONLY <2>1, <3>1, AppendProperties, LenProperties
  <2>3. DOMAIN me.used = 1 .. Len(me.used)
        /\ DOMAIN Append(me.used, u) = 1 .. Len(me.used) + 1
    <3>1. me.used \in Seq([op : OpType, slot : Slots]) BY Before, Parts
    <3> QED BY ONLY <2>2, <3>1, LenProperties
  <2>4. Append(me.used, u) # <<>>
    <3>1. Len(<<>>) = 0 OBVIOUS
    <3> QED BY <2>2, <3>1
  <2> QED BY <2>1, <2>2, <2>3, <2>4
<1>3. \/ /\ me' \in MeType /\ me'.pc = p /\ me'.i = me.i + 1 /\ me'.used = Append(me.used, u)
         /\ me'.taken = me.taken /\ me'.ops = me.ops /\ me'.group = me.group
         /\ me.group \/ a.read
      \/ me' = NoCall /\ ~ me.group
  <2>1. CASE me.group \/ a.read
    <3>1. me' = [me EXCEPT !.pc = p, !.i = @ + 1, !.used = Append(@, u)] BY <2>1
    <3>2. me.i + 1 \in Nat /\ p \in {"Fill", "Await"} BY Before, Parts
    <3> HIDE DEF u, p, a
    <3>3. me' \in MeType BY <1>2, <3>1, <3>2, Before, Parts DEF MeType
    <3>4. /\ me'.pc = p /\ me'.i = me.i + 1 /\ me'.used = Append(me.used, u)
          /\ me'.taken = me.taken /\ me'.ops = me.ops /\ me'.group = me.group
      BY <3>1, Before, Parts DEF MeType
    <3> QED BY <2>1, <3>3, <3>4
  <2>2. CASE ~ (me.group \/ a.read) BY <2>2
  <2> QED BY <2>1, <2>2
<1>4. u.slot = w /\ u.op = a OBVIOUS
<1>5. p \in {"Fill", "Await"} /\ (p = "Fill" <=> me.i < Len(me.taken)) OBVIOUS
<1> HIDE DEF w, a, u, p
<1>6. /\ NoCall.pc = "Idle" /\ NoCall.taken = <<>> /\ NoCall.i = 1 /\ NoCall.ops = <<>>
      /\ NoCall.used = <<>> /\ NoCall.group = FALSE /\ NoCall = [NoCall EXCEPT !.pc = "Idle"]
      /\ Len(<<>>) = 0 /\ DOMAIN <<>> = {} /\ 1 .. 0 = {}
  BY DEF NoCall
<1>7. /\ Hand' = Hand \ {w} /\ Filled' = {} /\ UNCHANGED <<Waiting, Busy, Publishing, InFlight>>
      /\ \A i, j \in me'.i .. Len(me'.taken) : me'.taken[i] = me'.taken[j] => i = j
      /\ ~ me.group => me.i = 1 /\ Len(me.taken) = 1 /\ Len(me.ops) = 1
      /\ me'.pc \in {"Fill", "Await", "Idle"}
  <2>1. me'.pc \in {"Fill", "Await", "Idle"} BY <1>3, <1>5, <1>6
  <2>2. Filled' = {} BY <2>1 DEF Filled
  <2> QED BY <1>3, <1>6, <2>1, <2>2, HandShrinks DEF Waiting, Busy, Publishing, InFlight, w
<1>8. /\ ep0' = Append(ep0, w) /\ ep0' \in Seq(Slots) /\ Elems(ep0') = Elems(ep0) \cup {w}
      /\ Distinct(ep0')
      /\ w \notin Elems(ep0) \cup Waiting \cup Busy \cup Elems(pool.free)
  <2>1. w \notin Elems(ep0) \cup Waiting \cup Busy \cup Elems(pool.free) /\ Distinct(ep0)
    BY <1>1, Parts DEF PlaceInv
  <2> QED BY <1>1, <2>1, AppendElems, Before, Parts DEF w
<1>9. TypeOK'
  <2>1. me' \in MeType BY <1>3, Before, Parts
  <2> QED BY <1>8, <2>1, Parts DEF TypeOK
<1>10. CallInv'
  <2>1. CASE me' = NoCall
    <3>1. /\ me'.pc = "Idle" /\ me'.taken = <<>> /\ me'.i = 1 /\ me'.ops = <<>>
          /\ me'.used = <<>> /\ me'.group = FALSE /\ me' = [NoCall EXCEPT !.pc = "Idle"]
      BY <1>6, <2>1
    <3> QED BY <1>6, <3>1 DEF CallInv
  <2>2. CASE /\ me'.pc = p /\ me'.i = me.i + 1 /\ me'.used = Append(me.used, u)
             /\ me'.taken = me.taken /\ me'.ops = me.ops /\ me'.group = me.group
             /\ me.group \/ a.read
    <3>1. /\ me.i \in Nat /\ Len(me.taken) \in Nat /\ me.i >= 1 /\ me.i <= Len(me.taken)
          /\ Len(me.taken) <= Len(me.ops) /\ me.ops # <<>>
      BY InHand, Before, Parts DEF CallInv
    <3>2. ~ me.group => me.ops[1].read BY <1>7, <2>2 DEF a
    <3>3. /\ me.pc \notin {"Idle", "End", "Destroy", "Reap", "Free", "Gone"}
          /\ ~ me.group => Len(me.ops) <= 1
          /\ \A k \in DOMAIN me.ops : me.ops[k].id = me.ops[1].id + k - 1
          /\ \A k \in DOMAIN me.ops : me.ops[k].id < seen.next
      BY Parts DEF CallInv
    <3>4. /\ p \in {"Fill", "Await"}
          /\ p = "Fill" => me.i + 1 <= Len(me.taken)
          /\ p = "Await" => me.i + 1 = Len(me.taken) + 1
          /\ me.i + 1 >= 1
      BY <1>5, <3>1
    <3>5. me'.used # <<>> BY <1>2, <2>2
    <3>6. seen' = seen OBVIOUS
    <3> QED BY ONLY <2>2, <3>1, <3>2, <3>3, <3>4, <3>5, <3>6 DEF CallInv
  <2> QED BY <1>3, <2>1, <2>2
<1>11. PlaceInv' BY <1>1, <1>7, <1>8, Parts DEF PlaceInv
<1>12. FlagInv'
  <2>1. Elems(ep0') \cup Filled' = Elems(ep0) \cup Filled BY <1>1, <1>7, <1>8
  <2> QED BY <1>7, <2>1, Parts DEF FlagInv
<1>13. FreedInv' BY <1>7, <1>8, Parts DEF FreedInv
<1>14. AnswerInv'
  <2>1. (\A v \in Elems(ep0) \cup Waiting \cup Publishing \cup Hand : ~ slot[v].done)'
    BY <1>1, <1>7, <1>8, Parts DEF AnswerInv
  <2>2. (\A i \in DOMAIN reap : reap[i].ok => slot[reap[i].slot].answer = slot[reap[i].slot].op)'
    BY Parts DEF AnswerInv
  <2>3. (\A v \in Slots : slot[v].ok /\ (slot[v].done \/ v \in Publishing)
                            => slot[v].answer = slot[v].op)'
    BY <1>7, Parts DEF AnswerInv
  <2>4. (\A k \in DOMAIN me.used : /\ slot[me.used[k].slot].op = me.used[k].op.id
                                   /\ me.used[k].slot \notin Hand)'
    <3>1. CASE me' = NoCall BY <1>6, <3>1
    <3>2. CASE me'.used = Append(me.used, u)
      <4> SUFFICES ASSUME NEW k \in DOMAIN me'.used
                   PROVE  slot[me'.used[k].slot].op = me'.used[k].op.id /\ me'.used[k].slot \notin Hand'
        OBVIOUS
      <4>1. CASE me'.used[k] = u BY SMTT(30), <4>1, <1>1, <1>4, <1>7
      <4>2. CASE k \in DOMAIN me.used /\ me'.used[k] = me.used[k]
        BY <4>2, <1>7, Parts DEF AnswerInv
      <4> QED BY <1>2, <3>2, <4>1, <4>2
    <3> QED BY <1>3, <3>1, <3>2
  <2> QED BY <2>1, <2>2, <2>3, <2>4 DEF AnswerInv
<1>15. OrderInv'
  <2>1. /\ Len(ep0) \in Nat /\ DOMAIN ep0 = 1 .. Len(ep0) /\ DOMAIN ep0' = 1 .. Len(ep0) + 1
        /\ \A i \in 1 .. Len(ep0) : ep0'[i] = ep0[i]
        /\ ep0'[Len(ep0) + 1] = w
    BY <1>1, <1>8, AppendProperties, LenProperties, Before, Parts
  <2>2. \A i \in DOMAIN ep0' : \/ i \in DOMAIN ep0 /\ ep0'[i] = ep0[i]
                               \/ i = Len(ep0) + 1 /\ ep0'[i] = w
    BY <2>1
  <2>3. /\ \A i \in DOMAIN ep0 : slot[ep0[i]].op < a.id
        /\ \A o \in seen.done : o < a.id
        /\ a.id < seen.next
    BY <1>1, Parts DEF OrderInv, CallInv, a
  <2>4. (~ seen.broken /\ \A o \in seen.done : o < seen.next)' BY Parts DEF OrderInv
  <2>5. (\A i \in DOMAIN ep0 : slot[ep0[i]].op < seen.next)'
    BY <1>1, <2>2, <2>3, Parts DEF OrderInv
  <2>6. (\A i, j \in DOMAIN ep0 : i < j => slot[ep0[i]].op < slot[ep0[j]].op)'
    <3> SUFFICES ASSUME NEW i \in DOMAIN ep0', NEW j \in DOMAIN ep0', i < j
                 PROVE  slot[ep0'[i]].op < slot[ep0'[j]].op
      OBVIOUS
    <3>1. i \in DOMAIN ep0 /\ ep0'[i] = ep0[i] BY <2>1, <2>2
    <3>2. CASE j \in DOMAIN ep0 /\ ep0'[j] = ep0[j] BY <3>1, <3>2, Parts DEF OrderInv
    <3>3. CASE ep0'[j] = w BY <3>1, <3>3, <1>1, <2>3
    <3> QED BY <2>2, <3>2, <3>3
  <2>7. (\A i \in DOMAIN ep0, o \in seen.done : o < slot[ep0[i]].op)'
    BY <1>1, <2>2, <2>3, Parts DEF OrderInv
  <2>8. (me.pc # "Sync" => \A k \in me.i .. Len(me.ops) :
          /\ \A o \in seen.done : o < me.ops[k].id
          /\ \A i \in DOMAIN ep0 : slot[ep0[i]].op < me.ops[k].id)'
    <3>1. CASE me' = NoCall BY <1>6, <3>1
    <3>2. CASE me'.i = me.i + 1 /\ me'.ops = me.ops
      <4> SUFFICES ASSUME NEW k \in me.i + 1 .. Len(me.ops)
                   PROVE  /\ \A o \in seen.done : o < me.ops[k].id
                          /\ \A i \in DOMAIN ep0' : slot[ep0'[i]].op < me.ops[k].id
        BY <3>2
      <4>1. k \in me.i .. Len(me.ops) /\ k \in DOMAIN me.ops /\ k > me.i
        BY SMTT(30), InHand, Before, Parts
      <4>2. a.id < me.ops[k].id
        <5>1. /\ me.ops[k].id = me.ops[1].id + k - 1 /\ a.id = me.ops[1].id + me.i - 1
          BY <1>1, <4>1, Parts DEF CallInv, a
        <5>2. me.ops[1].id \in Int /\ me.i \in Int /\ k \in Int
          <6>1. 1 \in DOMAIN me.ops BY <1>1, InHand, Before, Parts
          <6> QED BY <6>1, <4>1, Numbers, Before, Parts
        <5> QED BY <5>1, <5>2, <4>1
      <4> QED BY <1>1, <2>2, <4>1, <4>2, Parts DEF OrderInv
    <3> QED BY <1>3, <3>1, <3>2
  <2>9. (me.pc \in {"Sync", "Await", "AwaitDrained"} /\ (me.pc = "Sync" \/ ~ me.group) =>
          /\ \A o \in seen.done : o < me.ops[1].id \/ (o = me.ops[1].id /\ me.ops[1].read)
          /\ \A i \in DOMAIN ep0 : \/ slot[ep0[i]].op < me.ops[1].id
                                   \/ slot[ep0[i]].op = me.ops[1].id /\ me.ops[1].read)'
    <3>1. CASE me' = NoCall BY <1>6, <3>1
    <3>2. CASE me'.pc = p /\ me'.ops = me.ops /\ me'.group = me.group /\ (me.group \/ a.read)
      <4> SUFFICES ASSUME ~ me.group
                   PROVE  /\ \A o \in seen.done : o < me.ops[1].id
                          /\ \A i \in DOMAIN ep0' : \/ slot[ep0'[i]].op < me.ops[1].id
                                                    \/ slot[ep0'[i]].op = me.ops[1].id /\ me.ops[1].read
        BY <3>2, <1>5
      <4>1. me.ops[1] = a BY <1>7 DEF a
      <4> QED BY <1>1, <2>2, <2>3, <3>2, <4>1
    <3> QED BY <1>3, <3>1, <3>2
  <2> QED BY <1>7, <2>4, <2>5, <2>6, <2>7, <2>8, <2>9 DEF OrderInv
<1> QED BY <1>9, <1>10, <1>11, <1>12, <1>13, <1>14, <1>15 DEF CtrlInv

\* libusb_submit_transfer refuses the transfer: the slot goes back, uncounted.
LEMMA RefusedInv ==
    ASSUME CtrlInv, me.pc = "Submit", slot' = [slot EXCEPT ![me.taken[me.i]].inflight = FALSE],
           pool' = [pool EXCEPT !.inflight = @ - 1, !.free = Append(@, me.taken[me.i])],
           me' = [me EXCEPT !.pc = IF me.group THEN IF me.i < Len(me.taken) THEN "Fill" ELSE "Await"
                                   ELSE "Sync",
                            !.i = @ + 1, !.ok = FALSE],
           UNCHANGED <<ep0, reap, cb, batch, drain, sends, seen>>
    PROVE  CtrlInv'
<1> DEFINE w == me.taken[me.i]
<1>1. /\ w \in Hand /\ w \in Slots /\ Filled = {w} /\ w \in InFlight
      /\ me.i \in me.i .. Len(me.taken) /\ me.i \in me.i .. Len(me.ops) /\ me.i \in DOMAIN me.ops
  <2>1. Filled = {w} BY DEF Filled
  <2> QED BY <2>1, InTurn, Parts DEF FlagInv
<1>2. PICK p \in {"Fill", "Await", "Sync"} :
         /\ me' = [me EXCEPT !.pc = p, !.i = @ + 1, !.ok = FALSE]
         /\ p = "Sync" <=> ~ me.group
         /\ p = "Fill" => me.i < Len(me.taken)
         /\ p = "Await" => ~ (me.i < Len(me.taken))
  <2>1. CASE me.group /\ me.i < Len(me.taken) BY <2>1
  <2>2. CASE me.group /\ ~ (me.i < Len(me.taken)) BY <2>2
  <2>3. CASE ~ me.group BY <2>3
  <2> QED BY <2>1, <2>2, <2>3
<1>3. /\ me' \in MeType /\ me'.pc = p /\ me'.i = me.i + 1 /\ me'.used = me.used
      /\ me'.taken = me.taken /\ me'.ops = me.ops /\ me'.group = me.group
  <2>1. me.i + 1 \in Nat BY Before, Parts
  <2> QED BY <1>2, <2>1, Before, Parts DEF MeType
<1>4. Cardinality(InFlight \ {w}) = pool.inflight - 1 /\ pool.inflight - 1 \in Nat
  <2>1. Cardinality(InFlight \ {w}) = Cardinality(InFlight) - 1 /\ IsFiniteSet(InFlight \ {w})
    BY ZenonT(60), <1>1, FS_RemoveElement, Before, Parts
  <2>2. Cardinality(InFlight \ {w}) \in Nat BY <2>1, FS_CardinalityType
  <2> QED BY <2>1, <2>2, Parts DEF FlagInv
<1>5. /\ Append(pool.free, w) \in Seq(Slots) /\ Distinct(Append(pool.free, w))
      /\ Elems(Append(pool.free, w)) = Elems(pool.free) \cup {w}
  <2>1. w \notin Elems(pool.free) /\ Distinct(pool.free) BY <1>1, Parts DEF PlaceInv
  <2> QED BY <1>1, <2>1, AppendElems, Before, Parts
<1>6. /\ pool' \in PoolType /\ pool'.free = Append(pool.free, w)
      /\ pool'.inflight = pool.inflight - 1
  BY <1>4, <1>5, Before, Parts DEF PoolType
<1>7. /\ Hand' = Hand \ {w} /\ Filled' = {} /\ UNCHANGED <<Waiting, Busy, Publishing>>
      /\ \A i, j \in me'.i .. Len(me'.taken) : me'.taken[i] = me'.taken[j] => i = j
      /\ ~ me.group => me.i = 1 /\ Len(me.taken) = 1 /\ Len(me.ops) = 1
  <2>1. Filled' = {} BY <1>3 DEF Filled
  <2> QED BY <1>3, <2>1, HandShrinks DEF Waiting, Busy, Publishing
<1> HIDE DEF w
<1>8. /\ slot' \in [Slots -> SlotType] /\ \A v \in Slots : v # w => slot'[v] = slot[v]
      /\ \A v \in Slots : /\ slot'[v].op = slot[v].op /\ slot'[v].is_read = slot[v].is_read
                          /\ slot'[v].ok = slot[v].ok /\ slot'[v].done = slot[v].done
                          /\ slot'[v].cb_busy = slot[v].cb_busy
                          /\ slot'[v].answer = slot[v].answer /\ slot'[v].memory = slot[v].memory
      /\ slot'[w].inflight = FALSE
  <2> DEFINE x == [slot[w] EXCEPT !.inflight = FALSE]
  <2>1. slot[w] \in SlotType BY <1>1, Before, Parts
  <2>2. /\ x \in SlotType /\ x.op = slot[w].op /\ x.is_read = slot[w].is_read
        /\ x.cb_busy = slot[w].cb_busy /\ x.answer = slot[w].answer
        /\ x.memory = slot[w].memory /\ x.inflight = FALSE /\ x.done = slot[w].done
        /\ x.ok = slot[w].ok
    BY <2>1 DEF SlotType
  <2>3. slot' = [slot EXCEPT ![w] = x] BY <1>1, Before, Parts DEF w
  <2> HIDE DEF x
  <2>4. slot' \in [Slots -> SlotType] /\ slot'[w] = x
        /\ \A v \in Slots : v # w => slot'[v] = slot[v]
    BY <1>1, <2>2, <2>3, SlotUpdate, Before, Parts
  <2> QED BY <2>2, <2>4
<1>9. TypeOK' BY <1>3, <1>6, <1>8, Parts DEF TypeOK
<1>10. CallInv'
  <2>1. /\ me.i \in Nat /\ Len(me.taken) \in Nat /\ me.i >= 1 /\ me.i <= Len(me.taken)
        /\ Len(me.taken) <= Len(me.ops) /\ me.ops # <<>>
    BY InHand, Before, Parts DEF CallInv
  <2> QED BY <1>2, <1>3, <1>7, <2>1, Parts DEF CallInv
<1>11. PlaceInv' BY <1>1, <1>3, <1>5, <1>6, <1>7, Parts DEF PlaceInv
<1>12. w \notin Elems(ep0) \cup Waiting \cup Busy /\ Publishing \subseteq Busy
  BY <1>1, InHand, Parts DEF PlaceInv
<1>13. FlagInv'
  <2>1. InFlight' = InFlight \ {w} BY <1>8 DEF InFlight
  <2>2. InFlight' = Elems(ep0') \cup Waiting' \cup Publishing' \cup Filled'
    BY <1>1, <1>7, <1>12, <2>1, Parts DEF FlagInv
  <2>3. pool'.inflight = Cardinality(InFlight') BY ONLY <1>4, <1>6, <2>1
  <2>4. /\ \A v \in Slots : slot[v].cb_busy <=> v \in Busy
        /\ \A v \in InFlight : slot[v].op # 0
        /\ Busy \subseteq Slots /\ InFlight \subseteq Slots
    BY Before, Parts DEF FlagInv
  <2>5. Busy' = Busy BY <1>7
  <2>6. /\ \A v \in Slots : slot'[v].cb_busy <=> v \in Busy'
        /\ \A v \in InFlight' : slot'[v].op # 0
        /\ Busy' \subseteq Slots
    BY ONLY <1>8, <2>1, <2>4, <2>5
  <2> QED BY ONLY <2>2, <2>3, <2>6 DEF FlagInv
<1>14. FreedInv'
  <2>1. slot[w].memory = "Live" BY <1>1, Parts DEF FreedInv
  <2> QED BY <1>2, <1>3, <1>5, <1>6, <1>7, <1>8, <2>1, Parts DEF FreedInv
<1>15. AnswerInv'
  <2>1. (\A v \in Elems(ep0) \cup Waiting \cup Publishing \cup Hand : ~ slot[v].done)'
    <3>1. Elems(ep0) \cup Waiting \cup Publishing \cup Hand \subseteq Slots
      BY InHand, Before, Parts
    <3> QED BY <1>7, <1>8, <3>1, Parts DEF AnswerInv
  <2>2. (\A i \in DOMAIN reap : reap[i].ok => slot[reap[i].slot].answer = slot[reap[i].slot].op)'
    <3>1. \A i \in DOMAIN reap : reap[i].slot \in Slots BY Before, Parts DEF Waiting, SlotsOf
    <3> QED BY <1>8, <3>1, Parts DEF AnswerInv
  <2>3. (\A v \in Slots : slot[v].ok /\ (slot[v].done \/ v \in Publishing)
                            => slot[v].answer = slot[v].op)'
    <3>1. \A v \in Slots : slot[v].ok /\ (slot[v].done \/ v \in Publishing)
                              => slot[v].answer = slot[v].op
      BY Parts DEF AnswerInv
    <3>2. Publishing' = Publishing BY <1>7
    <3> QED BY ONLY <1>8, <3>1, <3>2
  <2>4. (\A k \in DOMAIN me.used : /\ slot[me.used[k].slot].op = me.used[k].op.id
                                   /\ me.used[k].slot \notin Hand)'
    <3>1. \A k \in DOMAIN me.used : /\ slot[me.used[k].slot].op = me.used[k].op.id
                                     /\ me.used[k].slot \notin Hand /\ me.used[k].slot \in Slots
      BY Before, Parts DEF AnswerInv
    <3>2. me'.used = me.used /\ Hand' = Hand \ {w} BY <1>3, <1>7
    <3> QED BY ONLY <1>8, <3>1, <3>2
  <2> QED BY <2>1, <2>2, <2>3, <2>4 DEF AnswerInv
<1>16. OrderInv'
  <2>1. \A i \in DOMAIN ep0 : slot'[ep0[i]].op = slot[ep0[i]].op BY <1>8, Numbers
  <2>2. (~ seen.broken /\ \A o \in seen.done : o < seen.next)' BY Parts DEF OrderInv
  <2>3. (\A i \in DOMAIN ep0 : slot[ep0[i]].op < seen.next)' BY <2>1, Parts DEF OrderInv
  <2>4. (\A i, j \in DOMAIN ep0 : i < j => slot[ep0[i]].op < slot[ep0[j]].op)'
    <3> SUFFICES ASSUME NEW i \in DOMAIN ep0, NEW j \in DOMAIN ep0, i < j
                 PROVE  slot'[ep0[i]].op < slot'[ep0[j]].op
      OBVIOUS
    <3> QED BY <2>1, Parts DEF OrderInv
  <2>5. (\A i \in DOMAIN ep0, o \in seen.done : o < slot[ep0[i]].op)'
    BY <2>1, Parts DEF OrderInv
  <2>6. (me.pc # "Sync" => \A k \in me.i .. Len(me.ops) :
          /\ \A o \in seen.done : o < me.ops[k].id
          /\ \A i \in DOMAIN ep0 : slot[ep0[i]].op < me.ops[k].id)'
    <3>1. \A k \in me.i + 1 .. Len(me.ops) : k \in me.i .. Len(me.ops) BY Before, Parts
    <3> QED BY <1>3, <2>1, <3>1, Parts DEF OrderInv
  <2>7. (me.pc \in {"Sync", "Await", "AwaitDrained"} /\ (me.pc = "Sync" \/ ~ me.group) =>
          /\ \A o \in seen.done : o < me.ops[1].id \/ (o = me.ops[1].id /\ me.ops[1].read)
          /\ \A i \in DOMAIN ep0 : \/ slot[ep0[i]].op < me.ops[1].id
                                   \/ slot[ep0[i]].op = me.ops[1].id /\ me.ops[1].read)'
    <3>1. ~ me.group => 1 \in me.i .. Len(me.ops) BY <1>7
    <3> QED BY <1>2, <1>3, <2>1, <3>1, Parts DEF OrderInv
  <2> QED BY <1>7, <2>2, <2>3, <2>4, <2>5, <2>6, <2>7 DEF OrderInv
<1> QED BY <1>9, <1>10, <1>11, <1>13, <1>14, <1>15, <1>16 DEF CtrlInv

\* async_submit, taken or refused.
LEMMA SubmitInv == ASSUME CtrlInv, Submit PROVE CtrlInv'
<1>1. me.pc = "Submit" /\ UNCHANGED <<reap, cb, batch, drain, sends, seen>> BY DEF Submit, At
<1>2. CASE /\ ep0' = Append(ep0, me.taken[me.i])
           /\ me' = IF me.group \/ me.ops[me.i].read
                    THEN [me EXCEPT !.pc = IF me.i < Len(me.taken) THEN "Fill" ELSE "Await",
                                    !.i = @ + 1,
                                    !.used = Append(@, [op |-> me.ops[me.i], slot |-> me.taken[me.i]])]
                    ELSE NoCall
           /\ UNCHANGED <<pool, slot>>
  BY ONLY CtrlInv, <1>1, <1>2, SubmittedInv
<1>3. CASE /\ slot' = [slot EXCEPT ![me.taken[me.i]].inflight = FALSE]
           /\ pool' = [pool EXCEPT !.inflight = @ - 1, !.free = Append(@, me.taken[me.i])]
           /\ me' = [me EXCEPT !.pc = IF me.group
                                      THEN IF me.i < Len(me.taken) THEN "Fill" ELSE "Await"
                                      ELSE "Sync",
                               !.i = @ + 1, !.ok = FALSE]
           /\ ep0' = ep0
  BY ONLY CtrlInv, <1>1, <1>3, RefusedInv
<1> QED BY <1>2, <1>3 DEF Submit

\* The call returns.
LEMMA Returned ==
    ASSUME me' = NoCall
    PROVE  /\ me'.pc = "Idle" /\ me'.taken = <<>> /\ me'.i = 1 /\ me'.ops = <<>>
           /\ me'.used = <<>> /\ me'.group = FALSE /\ Len(me'.ops) = 0 /\ DOMAIN me'.ops = {}
           /\ DOMAIN me'.used = {} /\ me'.i .. Len(me'.ops) = {} /\ CallInv'
<1>1. Len(<<>>) = 0 /\ DOMAIN <<>> = {} /\ 1 .. 0 = {} OBVIOUS
<1>2. /\ me'.pc = "Idle" /\ me'.taken = <<>> /\ me'.i = 1 /\ me'.ops = <<>>
      /\ me'.used = <<>> /\ me'.group = FALSE /\ me' = [NoCall EXCEPT !.pc = "Idle"]
  BY DEF NoCall
<1>3. CallInv'
  <2>1. /\ Len(me'.ops) <= 1 /\ me' = [NoCall EXCEPT !.pc = me'.pc]
        /\ me'.pc \notin {"Take", "TakeDrained", "Acquire", "Fill", "Submit", "Await",
                          "AwaitDrained", "Sync"}
        /\ me'.pc \in {"Idle", "End", "Destroy", "Reap", "Free", "Gone"}
        /\ \A k \in DOMAIN me'.ops : FALSE
    <3>1. /\ me'.pc \notin {"Take", "TakeDrained", "Acquire", "Fill", "Submit", "Await",
                            "AwaitDrained", "Sync"}
          /\ me'.pc \in {"Idle", "End", "Destroy", "Reap", "Free", "Gone"}
      BY <1>2
    <3>2. me' = [NoCall EXCEPT !.pc = me'.pc] BY <1>2
    <3>3. Len(me'.ops) <= 1 /\ \A k \in DOMAIN me'.ops : FALSE BY <1>1, <1>2
    <3> QED BY ONLY <3>1, <3>2, <3>3
  <2> QED BY ONLY <2>1 DEF CallInv
<1> QED BY <1>1, <1>2, <1>3

\* A call that has submitted all its slots has none in its hands.
LEMMA EmptyHand ==
    ASSUME CtrlInv, me.pc \in {"Await", "AwaitDrained", "Sync"}
    PROVE  Hand = {} /\ me.i = Len(me.taken) + 1
<1>1. me.i = Len(me.taken) + 1 BY Parts DEF CallInv
<1>2. me.i .. Len(me.taken) = {} BY <1>1, Before, Parts
<1> QED BY <1>1, <1>2 DEF Hand

\* An answer is collected, or the access has failed.
LEMMA CollectInv ==
    ASSUME CtrlInv, Collect, me.pc \in {"Await", "AwaitDrained"}, me.used # <<>>,
           UNCHANGED <<pool, slot, ep0, reap, cb, batch, drain, sends, seen>>
    PROVE  CtrlInv'
<1>1. Hand = {} /\ me.i = Len(me.taken) + 1 BY EmptyHand
<1>2. /\ Tail(me.used) \in Seq([op : OpType, slot : Slots])
      /\ \A k \in DOMAIN Tail(me.used) : k + 1 \in DOMAIN me.used
                                         /\ Tail(me.used)[k] = me.used[k + 1]
  BY TailElems, TailIndex, Before, Parts
<1>3. CASE me.group
  <2>1. PICK b \in BOOLEAN : me' = [me EXCEPT !.pc = "Await", !.used = Tail(@), !.ok = b]
    <3>1. PICK g : me' = [me EXCEPT !.pc = "Await", !.used = Tail(@), !.ok = @ /\ g]
      BY <1>3 DEF Collect
    <3>2. (me.ok /\ g) \in BOOLEAN OBVIOUS
    <3> QED BY <3>1, <3>2
  <2>2. /\ me' \in MeType /\ me'.pc = "Await" /\ me'.taken = me.taken /\ me'.i = me.i
        /\ me'.used = Tail(me.used) /\ me'.ops = me.ops /\ me'.group = me.group
    BY <1>2, <2>1, Before, Parts DEF MeType
  <2>3. TypeOK' BY <2>2, Parts DEF TypeOK
  <2>4. CallInv' BY <1>1, <1>3, <2>2, Parts DEF CallInv
  <2>5. OrderInv'
    <3>1. Filled' = {} BY <2>2 DEF Filled
    <3> QED BY <1>3, <2>2, <3>1, Parts DEF OrderInv
  <2> QED BY <1>2, <2>2, <2>3, <2>4, <2>5, CallOnly
<1>4. CASE me' = NoCall
  <2>1. TypeOK' BY <1>4, Before, Parts DEF TypeOK
  <2>2. OrderInv'
    <3>1. Filled' = {} BY <1>4, Returned DEF Filled
    <3> QED BY <1>4, <3>1, Returned, Parts DEF OrderInv
  <2> QED BY <1>1, <1>4, <2>1, <2>2, Returned, CallOnly
<1>5. CASE ~ me.group /\ me' = [me EXCEPT !.pc = "Sync"]
  <2>1. /\ me' \in MeType /\ me'.pc = "Sync" /\ me'.taken = me.taken /\ me'.i = me.i
        /\ me'.used = me.used /\ me'.ops = me.ops /\ me'.group = me.group
    BY <1>5, Before, Parts DEF MeType
  <2>2. TypeOK' BY <2>1, Parts DEF TypeOK
  <2>3. CallInv' BY <1>1, <1>5, <2>1, Parts DEF CallInv
  <2>4. OrderInv'
    <3>1. Filled' = {} BY <2>1 DEF Filled
    <3> QED BY <1>5, <2>1, <3>1, Parts DEF OrderInv
  <2> QED BY <1>5, <2>1, <2>2, <2>3, <2>4, CallOnly
<1> QED BY <1>3, <1>4, <1>5 DEF Collect

\* The call waits for the first slot it has not collected, or drains.
LEMMA AwaitInv == ASSUME CtrlInv, Await PROVE CtrlInv'
<1>1. /\ me.pc = "Await" /\ me.used # <<>>
      /\ UNCHANGED <<pool, slot, ep0, reap, cb, batch, sends, seen>>
  BY DEF Await, At
<1>2. CASE Collect /\ UNCHANGED drain BY <1>1, <1>2, CollectInv
<1>3. CASE ThenDrain("AwaitDrained")
  <2>1. [drain EXCEPT !["caller"] = "Enter"] \in [Threads -> {"No", "Enter", "Wait", "Cancelled"}]
    BY Before, Parts
  <2> QED BY <1>1, <1>3, <2>1, Moves DEF ThenDrain, Goto
<1> QED BY <1>2, <1>3 DEF Await

\* After the drain it takes what there is.
LEMMA AwaitDrainedInv == ASSUME CtrlInv, AwaitDrained PROVE CtrlInv'
<1>1. /\ me.pc = "AwaitDrained" /\ Collect
      /\ UNCHANGED <<pool, slot, ep0, reap, cb, batch, drain, sends, seen>>
  BY DEF AwaitDrained, At
<1>2. me.used # <<>> BY <1>1, Parts DEF CallInv
<1> QED BY <1>1, <1>2, CollectInv

\* The call goes on with what is left of its accesses, or returns.
LEMMA Remains ==
    ASSUME CtrlInv, NEW p \in {"Acquire", "Sync"}, NEW q \in Seq(OpType), NEW n \in Nat,
           NEW b \in BOOLEAN, GoesOn(p, q, b), q # <<>> => me.group,
           p = "Acquire" => me.used = <<>>, seen'.next = seen.next,
           \A k \in DOMAIN q : k + n \in DOMAIN me.ops /\ q[k] = me.ops[k + n]
    PROVE  /\ me' \in MeType /\ CallInv' /\ me'.taken = <<>> /\ me'.i = 1
           /\ me' = NoCall \/ /\ me'.pc = p /\ me'.ops = q /\ me'.used = me.used /\ me'.group
                              /\ 1 \in DOMAIN q
<1>1. CASE q = <<>> BY <1>1, Returned, Before, Parts DEF GoesOn
<1>2. CASE q # <<>>
  <2>1. me' = [me EXCEPT !.pc = p, !.ops = q, !.taken = <<>>, !.i = 1, !.ok = b]
    BY <1>2 DEF GoesOn
  <2>2. <<>> \in Seq(Slots) /\ Len(<<>>) = 0 BY EmptySeq
  <2>3. me' \in MeType BY <2>1, <2>2, Before, Parts DEF MeType
  <2>4. /\ me'.pc = p /\ me'.ops = q /\ me'.taken = <<>> /\ me'.i = 1 /\ me'.used = me.used
        /\ me'.group = me.group
    BY <2>1, Before, Parts DEF MeType
  <2>5. Len(q) \in Nat \ {0} /\ DOMAIN q = 1 .. Len(q) /\ 1 \in DOMAIN q
    BY <1>2, EmptySeq, LenProperties
  <2>6. \A k \in DOMAIN q : q[k].id = q[1].id + k - 1
    <3> SUFFICES ASSUME NEW k \in DOMAIN q PROVE q[k].id = q[1].id + k - 1 OBVIOUS
    <3>1. /\ q[k].id = me.ops[1].id + (k + n) - 1 /\ q[1].id = me.ops[1].id + (1 + n) - 1
      BY <2>5, Parts DEF CallInv
    <3>2. me.ops[1].id \in Int /\ k \in Int
      <4>1. 1 \in DOMAIN me.ops
        <5>1. 1 + n \in DOMAIN me.ops BY <2>5
        <5> QED BY <5>1, Before, Parts
      <4> QED BY <2>5, <4>1, Numbers
    <3>3. \A x, j \in Int : x + (j + n) - 1 = (x + (1 + n) - 1) + j - 1 OBVIOUS
    <3> QED BY ONLY <3>1, <3>2, <3>3
  <2>7. \A k \in DOMAIN q : q[k].id < seen.next BY Parts DEF CallInv
  <2>8. CallInv' BY <1>2, <2>2, <2>4, <2>5, <2>6, <2>7 DEF CallInv
  <2> QED BY <1>2, <2>3, <2>4, <2>5, <2>8
<1> QED BY <1>1, <1>2

\* What is left of a list without its first n elements.
LEMMA DropElems ==
    ASSUME NEW S, NEW s \in Seq(S), NEW n \in Nat, n <= Len(s)
    PROVE  LET q == SubSeq(s, n + 1, Len(s))
           IN  /\ q \in Seq(S) /\ Len(q) = Len(s) - n
               /\ \A k \in DOMAIN q : /\ k + n \in DOMAIN s /\ k + n \in n + 1 .. Len(s)
                                      /\ q[k] = s[k + n]
<1> DEFINE m == n + 1
           l == Len(s)
           q == SubSeq(s, m, l)
<1>1. l \in Nat /\ m \in Int /\ l \in Int /\ DOMAIN s = 1 .. l /\ \A i \in m .. l : s[i] \in S
  BY LenProperties, ElementOfSeq
<1> HIDE DEF l, m
<1>2. /\ q \in Seq(S) /\ Len(q) = IF m <= l THEN l - m + 1 ELSE 0
      /\ \A i \in 1 .. l - m + 1 : q[i] = s[m + i - 1]
  BY ONLY <1>1, SubSeqProperties
<1>3. DOMAIN q = 1 .. Len(q) BY <1>2, LenProperties
<1> HIDE DEF q
<1>4. Len(q) = l - n
  <2>1. n <= l /\ m = n + 1 BY DEF l, m
  <2> QED BY ONLY <1>1, <1>2, <2>1
<1>5. ASSUME NEW k \in DOMAIN q
      PROVE  k + n \in DOMAIN s /\ k + n \in n + 1 .. l /\ q[k] = s[k + n]
  <2>1. k \in 1 .. l - m + 1 /\ m + k - 1 = k + n /\ k + n \in n + 1 .. l
    BY <1>1, <1>3, <1>4 DEF m
  <2> QED BY <1>1, <1>2, <2>1
<1> QED BY <1>2, <1>4, <1>5 DEF q, l, m

\* The next slots' worth of a group.
LEMMA NextChunkInv == ASSUME CtrlInv, NextChunk PROVE CtrlInv'
<1> DEFINE n == Len(me.taken)
           q == SubSeq(me.ops, n + 1, Len(me.ops))
<1>1. /\ me.pc = "Await" /\ me.used = <<>> /\ GoesOn("Acquire", q, me.ok)
      /\ UNCHANGED <<pool, slot, ep0, reap, cb, batch, drain, sends, seen>>
  BY DEF NextChunk, At
<1>2. me.group BY <1>1, Parts DEF CallInv
<1>3. Hand = {} /\ me.i = n + 1 /\ n <= Len(me.ops) /\ me.ok \in BOOLEAN
  BY <1>1, EmptyHand, Before, Parts DEF CallInv, MeType
<1>4. /\ q \in Seq(OpType) /\ n \in Nat /\ Len(q) = Len(me.ops) - n
      /\ \A k \in DOMAIN q : /\ k + n \in DOMAIN me.ops /\ q[k] = me.ops[k + n]
                             /\ k + n \in me.i .. Len(me.ops)
  <2>1. n \in Nat /\ me.ops \in Seq(OpType) /\ n <= Len(me.ops) BY <1>3, Before, Parts
  <2> HIDE DEF n
  <2>2. /\ q \in Seq(OpType) /\ Len(q) = Len(me.ops) - n
        /\ \A k \in DOMAIN q : /\ k + n \in DOMAIN me.ops /\ k + n \in n + 1 .. Len(me.ops)
                               /\ q[k] = me.ops[k + n]
    BY ONLY <2>1, DropElems
  <2> QED BY <1>3, <2>1, <2>2
<1> HIDE DEF q, n
<1>5. /\ me' \in MeType /\ CallInv' /\ me'.taken = <<>> /\ me'.i = 1
      /\ me' = NoCall \/ /\ me'.pc = "Acquire" /\ me'.ops = q /\ me'.used = me.used /\ me'.group
  BY <1>1, <1>2, <1>3, <1>4, Remains
<1>6. TypeOK' BY <1>1, <1>5, Parts DEF TypeOK
<1>7. OrderInv'
  <2>1. Filled' = {} /\ me'.pc \in {"Idle", "Acquire"} BY <1>5, Returned DEF Filled
  <2>2. (\A k \in me.i .. Len(me.ops) :
          /\ \A o \in seen.done : o < me.ops[k].id
          /\ \A i \in DOMAIN ep0 : slot[ep0[i]].op < me.ops[k].id)'
    <3>1. CASE me' = NoCall BY <3>1, Returned
    <3>2. CASE me'.ops = q
      <4>1. DOMAIN q = 1 .. Len(q) BY <1>4, LenProperties
      <4> QED BY <1>1, <1>4, <1>5, <3>2, <4>1, Parts DEF OrderInv
    <3> QED BY <1>5, <3>1, <3>2
  <2> QED BY <1>1, <2>1, <2>2, Parts DEF OrderInv
<1>8. \A k \in DOMAIN me'.used : \E j \in DOMAIN me.used : me'.used[k] = me.used[j]
  BY <1>5, Returned
<1> QED BY <1>1, <1>3, <1>5, <1>6, <1>7, <1>8, Returned, CallOnly

\* A synchronous access: the device performs it, behind what it has queued, or it fails.
LEMMA SyncInv == ASSUME CtrlInv, Sync PROVE CtrlInv'
<1> DEFINE a == Head(me.ops)
<1>1. me.pc = "Sync" /\ UNCHANGED <<slot, ep0, reap, cb, batch, drain, sends>> BY DEF Sync, At
<1>2. Hand = {} /\ me.i = Len(me.taken) + 1 /\ me.ops # <<>> /\ Filled = {}
  BY <1>1, EmptyHand, Parts DEF CallInv, Filled
<1>3. /\ 1 \in DOMAIN me.ops /\ a = me.ops[1] /\ a \in OpType /\ Tail(me.ops) \in Seq(OpType)
      /\ \A k \in DOMAIN Tail(me.ops) : k + 1 \in DOMAIN me.ops /\ Tail(me.ops)[k] = me.ops[k + 1]
      /\ Tail(me.ops) # <<>> => me.group /\ 2 \in DOMAIN me.ops /\ Tail(me.ops)[1] = me.ops[2]
  <2>1. /\ 1 \in DOMAIN me.ops /\ a = me.ops[1] /\ Tail(me.ops) \in Seq(OpType)
        /\ \A k \in DOMAIN Tail(me.ops) : /\ k + 1 \in DOMAIN me.ops
                                          /\ Tail(me.ops)[k] = me.ops[k + 1]
    BY <1>2, TailElems, TailIndex, Before, Parts
  <2>2. ASSUME Tail(me.ops) # <<>>
        PROVE  me.group /\ 2 \in DOMAIN me.ops /\ Tail(me.ops)[1] = me.ops[2]
    <3>1. 1 \in DOMAIN Tail(me.ops) BY <2>1, <2>2, TailIndex
    <3>2. 2 \in DOMAIN me.ops /\ Tail(me.ops)[1] = me.ops[2] BY <2>1, <3>1
    <3>3. 2 <= Len(me.ops) BY <3>2, Before, Parts
    <3> QED BY SMTT(30), <3>2, <3>3, Before, Parts DEF CallInv
  <2>3. a \in OpType BY <2>1, Before, Parts
  <2> QED BY <2>1, <2>2, <2>3
<1>4. a.id \in Ops /\ a.id \in Int /\ a.id < seen.next
  BY <1>3, Numbers, Parts DEF OpType, CallInv
<1>5. /\ \A o \in seen.done : o \in Int /\ (o < a.id \/ (o = a.id /\ a.read))
      /\ \A i \in DOMAIN ep0 : \/ slot[ep0[i]].op < a.id
                               \/ slot[ep0[i]].op = a.id /\ a.read
  BY <1>1, <1>3, Numbers, Parts DEF OrderInv
<1>6. Tail(me.ops) # <<>> => Tail(me.ops)[1].id = a.id + 1
  <2> SUFFICES ASSUME Tail(me.ops) # <<>> PROVE Tail(me.ops)[1].id = a.id + 1 OBVIOUS
  <2>1. me.ops[2].id = me.ops[1].id + 2 - 1 BY <1>3, Parts DEF CallInv
  <2> QED BY <1>3, <1>4, <2>1
<1> HIDE DEF a
<1>7. \E q \in {<<>>, Tail(me.ops)}, b \in BOOLEAN : GoesOn("Sync", q, b)
  <2>1. me.ok \in BOOLEAN BY Before, Parts DEF MeType
  <2> QED BY <2>1 DEF Sync
<1>8. /\ seen' \in SeenType /\ seen'.next = seen.next /\ seen'.broken = seen.broken
      /\ seen'.done \subseteq seen.done \cup {a.id}
      /\ seen' = seen \/ DOMAIN ep0 = {}
  <2>1. CASE seen' = seen BY <2>1, Before, Parts
  <2>2. CASE ep0 = <<>> /\ seen' = Performed(a.id, a.read)
    <3>1. ~ \E o \in seen.done : o > a.id \/ (o = a.id /\ ~ a.read) BY <1>4, <1>5
    <3>2. seen.broken = FALSE BY Before, Parts DEF OrderInv, SeenType
    <3>3. (seen.broken \/ \E o \in seen.done : o > a.id \/ (o = a.id /\ ~ a.read)) = FALSE
      BY <3>1, <3>2
    <3>4. seen' = [seen EXCEPT !.done = @ \cup {a.id}, !.broken = FALSE]
      BY <2>2, <3>3 DEF Performed
    <3>5. DOMAIN ep0 = {} BY <2>2
    <3> QED BY <3>2, <3>4, <3>5, <1>4, Before, Parts DEF SeenType
  <2> QED BY <2>1, <2>2 DEF Sync, a
<1>9. pool' \in PoolType /\ pool'.free = pool.free /\ pool'.inflight = pool.inflight
  <2>1. CASE pool' = pool BY <2>1, Before, Parts
  <2>2. CASE pool' # pool
    <3>1. PICK m \in Nat : pool' = [pool EXCEPT !.write_errors = m]
      <4>1. pool.write_errors \in Nat /\ pool.write_errors + 1 \in Nat BY Before, Parts
      <4> QED BY <2>2, <4>1 DEF Sync
    <3> QED BY <3>1, Before, Parts DEF PoolType
  <2> QED BY <2>1, <2>2
<1>10. PICK q \in {<<>>, Tail(me.ops)}, b \in BOOLEAN : GoesOn("Sync", q, b) BY <1>7
<1>11. /\ q \in Seq(OpType)
       /\ q # <<>> => me.group /\ q[1].id = a.id + 1
       /\ \A k \in DOMAIN q : k + 1 \in DOMAIN me.ops /\ q[k] = me.ops[k + 1]
  <2>1. CASE q = <<>>
    <3>1. DOMAIN <<>> = {} /\ <<>> \in Seq(OpType) BY EmptySeq
    <3> QED BY <2>1, <3>1
  <2>2. CASE q = Tail(me.ops) BY <2>2, <1>3, <1>6
  <2> QED BY <1>10, <2>1, <2>2
<1>12. /\ me' \in MeType /\ CallInv' /\ me'.taken = <<>> /\ me'.i = 1
       /\ me' = NoCall \/ /\ me'.pc = "Sync" /\ me'.ops = q /\ me'.used = me.used /\ me'.group
                          /\ 1 \in DOMAIN q
  <2>1. 1 \in Nat /\ "Sync" \in {"Acquire", "Sync"} /\ "Sync" # "Acquire" OBVIOUS
  <2> QED BY <1>8, <1>10, <1>11, <2>1, Remains
<1>13. TypeOK' BY <1>1, <1>8, <1>9, <1>12, Parts DEF TypeOK
<1>14. Filled' = {} /\ me'.pc \in {"Idle", "Sync"} BY <1>12, Returned DEF Filled
<1>15. OrderInv'
  <2>1. (~ seen.broken /\ \A o \in seen.done : o < seen.next)' BY <1>4, <1>8, Parts DEF OrderInv
  <2>2. (\A i \in DOMAIN ep0 : slot[ep0[i]].op < seen.next)' BY <1>1, <1>8, Parts DEF OrderInv
  <2>3. (\A i, j \in DOMAIN ep0 : i < j => slot[ep0[i]].op < slot[ep0[j]].op)'
    BY <1>1, Parts DEF OrderInv
  <2>4. (\A i \in DOMAIN ep0, o \in seen.done : o < slot[ep0[i]].op)'
    BY <1>1, <1>8, Parts DEF OrderInv
  <2>5. (me.pc # "Sync" => \A k \in me.i .. Len(me.ops) :
          /\ \A o \in seen.done : o < me.ops[k].id
          /\ \A i \in DOMAIN ep0 : slot[ep0[i]].op < me.ops[k].id)'
    BY <1>12, Returned
  <2>6. (me.pc \in {"Sync", "Await", "AwaitDrained"} /\ (me.pc = "Sync" \/ ~ me.group) =>
          /\ \A o \in seen.done : o < me.ops[1].id \/ (o = me.ops[1].id /\ me.ops[1].read)
          /\ \A i \in DOMAIN ep0 : \/ slot[ep0[i]].op < me.ops[1].id
                                   \/ slot[ep0[i]].op = me.ops[1].id /\ me.ops[1].read)'
    <3>1. CASE me' = NoCall BY <3>1, Returned
    <3>2. CASE me'.ops = q /\ 1 \in DOMAIN q
      <4>1. q # <<>>
        <5>1. DOMAIN <<>> = {} OBVIOUS
        <5> QED BY <3>2, <5>1
      <4>2. \A o \in seen'.done : o < me'.ops[1].id
        <5> SUFFICES ASSUME NEW o \in seen'.done PROVE o < a.id + 1 BY <1>11, <3>2, <4>1
        <5>1. CASE o = a.id BY <1>4, <5>1
        <5>2. CASE o \in seen.done BY <1>4, <1>5, <5>2
        <5> QED BY <1>8, <5>1, <5>2
      <4>3. \A i \in DOMAIN ep0' : slot'[ep0'[i]].op < me'.ops[1].id
        BY <1>1, <1>4, <1>5, <1>11, <3>2, <4>1, Numbers
      <4> QED BY <4>2, <4>3
    <3> QED BY <1>12, <3>1, <3>2
  <2> QED BY <1>14, <2>1, <2>2, <2>3, <2>4, <2>5, <2>6 DEF OrderInv
<1>16. \A k \in DOMAIN me'.used : \E j \in DOMAIN me.used : me'.used[k] = me.used[j]
  BY <1>12, Returned
<1> QED BY <1>1, <1>2, <1>9, <1>12, <1>13, <1>14, <1>15, <1>16, CallOnly

------------------------------------------------------------------------------
(* The theorems. *)

\* The pool starts with every slot on its free list, or empty.
LEMMA InitInv == ASSUME Init PROVE CtrlInv
<1>1. /\ slot = [w \in Slots |-> NewSlot] /\ ep0 = <<>> /\ reap = <<>> /\ cb = NoCb
      /\ batch = [pipelined |-> FALSE, depth |-> 0, ops |-> {}]
      /\ me = NoCall /\ drain = [t \in Threads |-> "No"] /\ sends = 0
      /\ seen = [next |-> 1, begun |-> 0, done |-> {}, broken |-> FALSE, retired |-> {}]
  BY DEF Init
<1>2. PICK built \in BOOLEAN :
         pool = [free |-> IF built THEN CHOOSE s \in Orders : TRUE ELSE <<>>, inflight |-> 0,
                 write_errors |-> 0, generation |-> 0, abandoned |-> FALSE, built |-> built]
  BY DEF Init
<1>3. Orders # {}
  <2>1. PICK n \in Nat : ExistsBijection(1 .. n, Slots)
    BY CtrlAssumption, FS_NatBijection DEF CtrlAssumption
  <2>2. Cardinality(Slots) = n BY <2>1, FS_CountingElements
  <2>3. PICK f : f \in Bijection(1 .. n, Slots) BY <2>1 DEF ExistsBijection
  <2>4. f \in [1 .. n -> Slots] /\ \A i, j \in 1 .. n : f[i] = f[j] => i = j
    BY <2>3 DEF Bijection, Injection, IsInjective
  <2>5. f \in Orders BY <2>2, <2>4 DEF Orders
  <2> QED BY <2>5
<1>4. pool.free \in Seq(Slots) /\ Distinct(pool.free)
  <2>1. CASE built
    <3>1. pool.free \in Orders BY <1>2, <1>3, <2>1
    <3>2. Cardinality(Slots) \in Nat
      BY CtrlAssumption, FS_CardinalityType DEF CtrlAssumption
    <3> QED BY <3>1, <3>2, SeqDef DEF Orders, Distinct
  <2>2. CASE ~ built
    <3>1. pool.free = <<>> BY <1>2, <2>2
    <3> QED BY <3>1, EmptySeq, EmptyElems
  <2> QED BY <2>1, <2>2
<1>5. /\ pool.inflight = 0 /\ pool \in PoolType
  <2>1. PICK f \in Seq(Slots) : pool = [free |-> f, inflight |-> 0, write_errors |-> 0,
                                       generation |-> 0, abandoned |-> FALSE, built |-> built]
    BY <1>2, <1>4
  <2> QED BY <2>1 DEF PoolType
<1>6. NewSlot \in SlotType BY DEF NewSlot, SlotType
<1>7. slot \in [Slots -> SlotType] /\ \A w \in Slots : slot[w] = NewSlot BY <1>1, <1>6
<1>8. /\ 1 \in Ops /\ seen \in SeenType /\ sends \in 0 .. MaxSends
  BY <1>1, CtrlAssumption DEF CtrlAssumption, Ops, SeenType
<1>9. batch \in BatchType BY <1>1 DEF BatchType
<1>10. me \in MeType
  <2>1. <<>> \in Seq(OpType) /\ <<>> \in Seq(Slots) /\ <<>> \in Seq([op : OpType, slot : Slots])
    BY EmptySeq
  <2> QED BY <1>1, <1>8, <2>1 DEF NoCall, MeType
<1>11. TypeOK
  <2>1. ep0 \in Seq(Slots) /\ reap \in Seq([slot : Slots, ok : BOOLEAN]) BY <1>1, EmptySeq
  <2>2. cb \in [pc : {"Idle", "Publish", "Release"}, slot : Slots \cup {NoSlot}]
    BY <1>1 DEF NoCb
  <2>3. drain \in [Threads -> {"No", "Enter", "Wait", "Cancelled"}] BY <1>1
  <2> QED BY <1>5, <1>7, <1>8, <1>9, <1>10, <2>1, <2>2, <2>3 DEF TypeOK
<1>12. me = [NoCall EXCEPT !.pc = "Idle"] BY <1>1 DEF NoCall
<1>13. /\ me.pc = "Idle" /\ me.ops = <<>> /\ me.taken = <<>> /\ me.used = <<>> /\ me.i = 1
       /\ ~ me.group /\ Len(me.taken) = 0 /\ Len(me.ops) = 0 /\ DOMAIN me.ops = {}
       /\ DOMAIN me.used = {} /\ Hand = {} /\ Filled = {}
  BY <1>12, AtRest
<1>14. CallInv BY <1>12, <1>13 DEF CallInv
<1>15. /\ Elems(ep0) = {} /\ Distinct(ep0) /\ DOMAIN ep0 = {} /\ DOMAIN reap = {}
       /\ Waiting = {} /\ Apart(reap) /\ Busy = {} /\ Publishing = {}
  <2>1. DOMAIN <<>> = {} OBVIOUS
  <2>2. Elems(ep0) = {} /\ Distinct(ep0) /\ DOMAIN ep0 = {} /\ DOMAIN reap = {}
    BY <1>1, <2>1 DEF Elems, Distinct
  <2>3. Waiting = {} /\ Apart(reap) BY <2>2 DEF Waiting, SlotsOf, Apart
  <2>4. Busy = {} /\ Publishing = {} BY <1>1 DEF Busy, Publishing, NoCb
  <2> QED BY <2>2, <2>3, <2>4
<1>16. PlaceInv
  <2>1. 1 .. 0 = {} OBVIOUS
  <2> QED BY <1>4, <1>13, <1>15, <2>1 DEF PlaceInv
<1>17. InFlight = {}
  <2>1. \A w \in Slots : slot[w].inflight = FALSE BY <1>7 DEF NewSlot
  <2> QED BY <2>1 DEF InFlight
<1>18. FlagInv
  <2>1. \A w \in Slots : slot[w].cb_busy = FALSE BY <1>7 DEF NewSlot
  <2> QED BY <1>5, <1>13, <1>15, <1>17, <2>1, FS_EmptySet DEF FlagInv
<1>19. FreedInv
  <2>1. \A w \in Slots : slot[w].memory = "Live" BY <1>7 DEF NewSlot
  <2> QED BY <2>1 DEF FreedInv
<1>20. AnswerInv
  <2>1. \A w \in Slots : slot[w].ok = FALSE BY <1>7 DEF NewSlot
  <2> QED BY <1>13, <1>15, <2>1 DEF AnswerInv
<1>21. OrderInv
  <2>1. seen.broken = FALSE /\ seen.done = {} BY <1>1
  <2> QED BY <1>13, <1>15, <2>1 DEF OrderInv
<1> QED BY <1>11, <1>14, <1>16, <1>18, <1>19, <1>20, <1>21 DEF CtrlInv

\* Every step keeps the invariant.
LEMMA NextInv == ASSUME CtrlInv, [Next]_vars PROVE CtrlInv'
<1>1. CASE UNCHANGED vars
  <2>1. TypeOK' BY <1>1, Parts DEF TypeOK, vars
  <2> QED BY <1>1, <2>1, Quiet DEF vars
<1>2. CASE Complete BY <1>2, CompleteInv
<1>3. CASE Callback BY <1>3, CbEnterInv, CbPublishInv, CbReleaseInv DEF Callback
<1>4. CASE Calls BY <1>4, BeginInv, EndInv, RegisterInv, CtrlBatchInv, DestroyInv DEF Calls
<1>5. ASSUME NEW t \in Threads, Flush(t) PROVE CtrlInv'
  BY <1>5, DrainedInv, DrainTimeoutInv, GiveUpInv DEF Flush
<1>6. CASE Caller
  <2>1. CASE EndDrained \/ Acquire \/ Take \/ TakeDrained \/ Fill \/ Submit
    BY <2>1, EndDrainedInv, AcquireInv, TakeInv, TakeDrainedInv, FillInv, SubmitInv
  <2>2. CASE Await \/ AwaitDrained \/ NextChunk \/ Sync
    BY <2>2, AwaitInv, AwaitDrainedInv, NextChunkInv, SyncInv
  <2>3. CASE LastCancel \/ LastReap \/ (\E w \in Slots : FreeSlot(w)) \/ AllFreed
    BY <2>3, LastCancelInv, LastReapInv, FreeSlotInv, AllFreedInv
  <2>4. CASE FlushEnter BY <2>4, FlushEnterInv
  <2>5. CASE Flush("caller") BY <2>5, <1>5 DEF Threads
  <2> QED BY <1>6, <2>1, <2>2, <2>3, <2>4, <2>5 DEF Caller
<1>7. CASE Sender
  <2>1. CASE Send BY <2>1, SendInv
  <2>2. CASE Flush("sender") BY <2>2, <1>5 DEF Threads
  <2> QED BY <1>7, <2>1, <2>2 DEF Sender
<1> QED BY <1>1, <1>2, <1>3, <1>4, <1>6, <1>7 DEF Next

\* The invariant of the pool holds for every depth of the pool, every number of
\* register accesses and every interleaving of the callbacks with two drains.
THEOREM CtrlInvariant == Spec => []CtrlInv
<1>1. Init => CtrlInv BY InitInv
<1>2. CtrlInv /\ [Next]_vars => CtrlInv' BY NextInv
<1> QED BY <1>1, <1>2, PTL DEF Spec

\* What libusb and the callback have, by the names of the invariant.
LEMMA OwnedParts ==
    ASSUME TypeOK
    PROVE  Owned = Elems(ep0) \cup Waiting \cup Busy
BY DEF Owned, Elems, Waiting, SlotsOf, Busy

\* async_submit, async_write_cb, async_take_slot and the drains keep the pool
\* sound: its counters and lists stay in their types, inflight counts the slots
\* in flight, the free list holds no slot twice and none that libusb or a
\* callback has, and libusb never has more transfers than there are slots.
THEOREM CtrlPoolIsSound == Spec => []PoolIsSound
<1>1. ASSUME CtrlInv PROVE PoolIsSound
  <2>1. TypeOK BY Parts, <1>1
  <2>2. pool.inflight = Cardinality(InFlight) BY Parts, <1>1 DEF FlagInv
  <2>3. \A i \in DOMAIN ep0 : slot[ep0[i]].inflight
    <3>1. \A i \in DOMAIN ep0 : ep0[i] \in InFlight BY Parts, <1>1 DEF FlagInv, Elems
    <3> QED BY <3>1 DEF InFlight
  <2>4. \A i, j \in DOMAIN pool.free : pool.free[i] = pool.free[j] => i = j
    BY Parts, <1>1 DEF PlaceInv, Distinct
  <2>5. \A i \in DOMAIN pool.free : pool.free[i] \notin Owned
    <3>1. \A i \in DOMAIN pool.free : pool.free[i] \in Elems(pool.free) BY DEF Elems
    <3> QED BY <3>1, <2>1, OwnedParts, Parts, <1>1 DEF PlaceInv
  <2>6. Len(ep0) + Len(reap) <= Cardinality(Slots)
    <3> DEFINE s == [i \in 1 .. Len(reap) |-> reap[i].slot]
    <3>1. s \in Seq(Slots) /\ Len(s) = Len(reap) /\ Elems(s) = Waiting /\ Distinct(s)
      <4>1. reap \in Seq(Reaps) BY Before, <2>1
      <4>2. /\ s \in Seq(Slots) /\ Len(s) = Len(reap) /\ Elems(s) = SlotsOf(reap)
            /\ Apart(reap) <=> Distinct(s)
        BY ONLY <4>1, SlotsOfSeq
      <4> HIDE DEF s
      <4> QED BY <4>2, Parts, <1>1 DEF PlaceInv, Waiting
    <3> HIDE DEF s
    <3>2. IsFiniteSet(Waiting) /\ Cardinality(Waiting) = Len(reap) BY <3>1, DistinctLength
    <3>3. IsFiniteSet(Elems(ep0)) /\ Cardinality(Elems(ep0)) = Len(ep0)
      BY DistinctLength, Before, <2>1, Parts, <1>1 DEF PlaceInv
    <3>4. Elems(ep0) \cap Waiting = {} BY Parts, <1>1 DEF PlaceInv
    <3>5. Cardinality(Elems(ep0) \cup Waiting) = Len(ep0) + Len(reap)
      <4>1. Cardinality(Elems(ep0) \cup Waiting)
              = Cardinality(Elems(ep0)) + Cardinality(Waiting)
                  - Cardinality(Elems(ep0) \cap Waiting)
        BY <3>2, <3>3, FS_Union
      <4>2. Cardinality({}) = 0 BY FS_EmptySet
      <4>3. Len(ep0) \in Nat /\ Len(reap) \in Nat BY Before, <2>1, LenProperties
      <4> QED BY <3>2, <3>3, <3>4, <4>1, <4>2, <4>3
    <3>6. Elems(ep0) \cup Waiting \subseteq Slots BY Before, <2>1
    <3> QED BY <3>5, <3>6, FS_Subset, CtrlAssumption DEF CtrlAssumption
  <2> QED BY <2>1, <2>2, <2>3, <2>4, <2>5, <2>6 DEF PoolIsSound
<1> QED BY <1>1, CtrlInvariant, PTL

\* ~UsbTransport frees no slot that endpoint 0 has, whose completion waits to be
\* reaped, or that a callback is in, however long the callback takes.
THEOREM CtrlFreedIsQuiet == Spec => []FreedIsQuiet
<1>1. ASSUME CtrlInv PROVE FreedIsQuiet BY <1>1, OwnedParts, Parts DEF FreedInv, FreedIsQuiet
<1> QED BY <1>1, CtrlInvariant, PTL

\* An access that ctrl_batch or a pipelined read collects as done and good
\* carries the answer to that access, though slots are used again and again.
THEOREM CtrlReadsTheirOwn == Spec => []ReadsTheirOwn
<1>1. ASSUME CtrlInv PROVE ReadsTheirOwn
  BY <1>1, Before, Parts DEF AnswerInv, ReadsTheirOwn
<1> QED BY <1>1, CtrlInvariant, PTL

\* The device performs the accesses in the order of the calls and no write
\* twice, through refused submissions, cancellations and synchronous fallbacks.
THEOREM CtrlInOrder == Spec => []InOrder
<1>1. ASSUME CtrlInv PROVE InOrder BY <1>1, Parts DEF OrderInv, InOrder
<1> QED BY <1>1, CtrlInvariant, PTL

------------------------------------------------------------------------------
(* What a batch and a group report: an invariant beside the one of the pool. *)

\* The slots that endpoint 0 has and those whose completion is to be reaped; of
\* these, the writes of the batch, whose failure counts, and those that failed.
Out == Elems(ep0) \cup Waiting
Counts(w) == ~ slot[w].is_read /\ slot[w].gen = pool.generation
OutWrites == {slot[w].op : w \in {v \in Out : Counts(v)}}
Failed == {i \in DOMAIN reap : ~ reap[i].ok /\ Counts(reap[i].slot)}
FailedWrites == {slot[reap[i].slot].op : i \in Failed}

\* The accesses of the call, the writes among them, and the accesses queued.
OpIds == {me.ops[k].id : k \in DOMAIN me.ops}
MyWrites == {me.ops[k].id : k \in {j \in DOMAIN me.ops : ~ me.ops[j].read}}
QueueOps == {slot[w].op : w \in Elems(ep0)}

\* What was performed or may still be: any other access made is missed.
Reached == seen.done \cup QueueOps \cup OpIds

\* Which steps a batch, a group and a drain exclude, and the generations.
ModeInv ==
    /\ me.group => batch.depth = 0
    /\ me.pc = "End" => batch.depth > 0
    /\ me.pc = "Sync" /\ me.group => me.used = <<>>
    /\ batch.depth = 0 /\ ~ me.group => me.pc \in Resting \cup {"Sync"}
    /\ batch.pipelined => batch.depth > 0 /\ ~ pool.abandoned
    /\ batch.depth > 0 => drain["sender"] = "No"
    /\ batch.depth > 0 /\ drain["caller"] \in {"Wait", "Cancelled"} => ~ pool.abandoned
    /\ batch.depth > 0 /\ me.pc \in {"Take", "Fill", "Submit"} => ~ pool.abandoned
    /\ drain["caller"] # "No" => me.pc \in {"TakeDrained", "AwaitDrained", "End", "Destroy"}
    /\ \A w \in Slots : slot[w].gen <= pool.generation
    /\ \A w \in Filled : slot[w].gen = pool.generation
    /\ \A o \in batch.ops : o < seen.next

\* An answer is there because the device performed its access.
DoneInv == \A w \in Slots : slot[w].answer # 0 => slot[w].answer \in seen.done

\* A group that is good so far: what it went past is performed, and of the
\* accesses submitted those not performed are still to be collected.
GroupInv ==
    me.group /\ me.ok =>
        /\ \A o \in me.first .. me.ops[1].id - 1 : o \in seen.done
        /\ \A k \in 1 .. me.i - 1 :
              \/ me.ops[k].id \in seen.done
              \/ \E j \in DOMAIN me.used : me.used[j].op.id = me.ops[k].id

\* The slots the group has submitted and not collected.
UsedSlots == {me.used[k].slot : k \in DOMAIN me.used}

\* Unless a drain gave up, a write in flight is the batch's or the group's, and
\* nothing is in flight after a drain.
FlightInv ==
    ~ pool.abandoned =>
        /\ \A w \in InFlight : ~ slot[w].is_read =>
              \/ batch.depth > 0 /\ slot[w].op \in batch.ops
              \/ me.group /\ w \in Filled \cup UsedSlots
        /\ me.pc \in {"AwaitDrained", "End"} /\ drain["caller"] = "No" => InFlight = {}

\* The writes of the batch are accounted for, and the errors counted stand for
\* a write that was missed or that a drain gave up on.
TallyInv ==
    batch.depth > 0 =>
        /\ OutWrites \cup MyWrites \subseteq batch.ops /\ OutWrites \cap OpIds = {}
        /\ pool.abandoned /\ OutWrites # {} => pool.write_errors > 0
        /\ FailedWrites \cap Reached = {}
        /\ pool.write_errors > 0 => \E o \in batch.ops : o \in seen.retired \/ o \notin Reached
        /\ pool.write_errors = 0 => batch.ops \subseteq seen.done \cup OutWrites \cup MyWrites

VerdictInv == ModeInv /\ DoneInv /\ GroupInv /\ FlightInv /\ TallyInv

\* The parts of the invariant, for a step to cite.
LEMMA VParts ==
    ASSUME VerdictInv
    PROVE  ModeInv /\ DoneInv /\ GroupInv /\ FlightInv /\ TallyInv
BY DEF VerdictInv

\* The types that the accounts need.
LEMMA VTypes ==
    ASSUME CtrlInv
    PROVE  /\ \A w \in Slots : /\ slot[w] \in SlotType /\ slot[w].gen \in Nat
                               /\ slot[w].op \in Int /\ slot[w].is_read \in BOOLEAN
                               /\ slot[w].answer \in Int
           /\ batch.depth \in 0 .. 2 /\ batch.ops \subseteq Ops /\ batch.pipelined \in BOOLEAN
           /\ pool.abandoned \in BOOLEAN /\ pool.write_errors \in Nat /\ pool.generation \in Nat
           /\ seen.next \in Int /\ me.ok \in BOOLEAN /\ me.group \in BOOLEAN /\ me.first \in Int
           /\ Ops \subseteq Nat /\ Out \subseteq InFlight /\ InFlight \subseteq Slots
           /\ \A i \in DOMAIN reap : reap[i].slot \in Out /\ reap[i].slot \in Slots
           /\ Elems(ep0) \subseteq Out
<1>1. Ops \subseteq Nat BY CtrlAssumption DEF Ops, CtrlAssumption
<1>2. \A w \in Slots : /\ slot[w] \in SlotType /\ slot[w].gen \in Nat
                       /\ slot[w].op \in Int /\ slot[w].is_read \in BOOLEAN
                       /\ slot[w].answer \in Int
  <2>1. \A w \in Slots : slot[w] \in SlotType BY Before, Parts
  <2>2. \A x \in SlotType : /\ x.gen \in Nat /\ x.op \in Ops \cup {0} /\ x.is_read \in BOOLEAN
                             /\ x.answer \in Ops \cup {0}
    BY DEF SlotType
  <2>3. Ops \cup {0} \subseteq Int BY <1>1
  <2> QED BY <2>1, <2>2, <2>3
<1>3. batch.depth \in 0 .. 2 /\ batch.ops \subseteq Ops /\ batch.pipelined \in BOOLEAN
  BY Before, Parts DEF BatchType
<1>4. pool.abandoned \in BOOLEAN BY Before, Parts DEF PoolType
<1>5. me.ok \in BOOLEAN /\ me.group \in BOOLEAN /\ me.first \in Ops BY Before, Parts DEF MeType
<1>6. Out \subseteq InFlight BY Parts DEF Out, FlagInv
<1>7. \A i \in DOMAIN reap : reap[i].slot \in Waiting BY DEF Waiting, SlotsOf
<1>8. /\ \A i \in DOMAIN reap : reap[i].slot \in Out /\ reap[i].slot \in Slots
      /\ Elems(ep0) \subseteq Out /\ InFlight \subseteq Slots
  BY <1>7, Before, Parts DEF Out
<1>9. me.first \in Int
  <2>1. me.first \in Ops BY <1>5
  <2> QED BY <2>1, CtrlAssumption DEF Ops, CtrlAssumption
<1>10. pool.write_errors \in Nat /\ pool.generation \in Nat BY Before, Parts
<1> QED BY <1>1, <1>2, <1>3, <1>4, <1>5, <1>6, <1>8, <1>9, <1>10, Numbers

\* Nothing of what is out changes.
LEMMA SameOut ==
    ASSUME CtrlInv, UNCHANGED <<ep0, reap>>, pool'.generation = pool.generation,
           \A w \in Out : /\ slot'[w].op = slot[w].op /\ slot'[w].is_read = slot[w].is_read
                          /\ slot'[w].gen = slot[w].gen
    PROVE  /\ Out' = Out /\ OutWrites' = OutWrites /\ QueueOps' = QueueOps
           /\ FailedWrites' = FailedWrites
<1>1. Out' = Out BY DEF Out, Waiting
<1>2. OutWrites' = OutWrites BY <1>1 DEF OutWrites, Counts
<1>3. QueueOps' = QueueOps BY DEF QueueOps, Out
<1>4. Failed' = Failed /\ \A i \in Failed : i \in DOMAIN reap BY VTypes DEF Failed, Counts
<1>5. FailedWrites' = FailedWrites BY <1>4, VTypes DEF FailedWrites
<1> QED BY <1>1, <1>2, <1>3, <1>5

\* The accounts of the batch stay right when no error is counted and nothing is
\* lost from them.
LEMMA TallyKept ==
    ASSUME CtrlInv, VerdictInv, batch'.depth > 0 => batch.depth > 0, batch'.ops = batch.ops,
           pool'.abandoned = pool.abandoned, pool'.write_errors = pool.write_errors,
           seen.retired \subseteq seen'.retired, Reached' \subseteq Reached,
           OutWrites' \subseteq OutWrites, MyWrites' \subseteq MyWrites, OpIds' \subseteq OpIds,
           batch'.depth > 0 => FailedWrites' \cap Reached' = {},
           seen.done \cup OutWrites \cup MyWrites
              \subseteq seen'.done \cup OutWrites' \cup MyWrites'
    PROVE  TallyInv'
<1> SUFFICES ASSUME batch'.depth > 0 PROVE TallyInv' BY DEF TallyInv
<1>1. /\ OutWrites \cup MyWrites \subseteq batch.ops /\ OutWrites \cap OpIds = {}
      /\ pool.abandoned /\ OutWrites # {} => pool.write_errors > 0
      /\ FailedWrites \cap Reached = {}
      /\ pool.write_errors > 0 => \E o \in batch.ops : o \in seen.retired \/ o \notin Reached
      /\ pool.write_errors = 0 => batch.ops \subseteq seen.done \cup OutWrites \cup MyWrites
  BY VParts DEF TallyInv
<1> QED BY <1>1 DEF TallyInv

\* A step that leaves alone what is out, the call's accesses and the device.
LEMMA TallySame ==
    ASSUME CtrlInv, VerdictInv, batch'.depth > 0 => batch.depth > 0, batch'.ops = batch.ops,
           pool'.abandoned = pool.abandoned, pool'.write_errors = pool.write_errors,
           pool'.generation = pool.generation, UNCHANGED <<ep0, reap, seen>>,
           me'.ops = me.ops,
           \A w \in Out : /\ slot'[w].op = slot[w].op /\ slot'[w].is_read = slot[w].is_read
                          /\ slot'[w].gen = slot[w].gen
    PROVE  TallyInv'
<1>1. OutWrites' = OutWrites /\ QueueOps' = QueueOps /\ FailedWrites' = FailedWrites
  BY SameOut
<1>2. OpIds' = OpIds /\ MyWrites' = MyWrites BY DEF OpIds, MyWrites
<1>3. Reached' = Reached BY <1>1, <1>2 DEF Reached
<1>4. batch'.depth > 0 => FailedWrites' \cap Reached' = {} BY <1>1, <1>3, VParts DEF TallyInv
<1> QED BY <1>1, <1>2, <1>3, <1>4, TallyKept

\* Answers stay, or are wiped.
LEMMA DoneKept ==
    ASSUME VerdictInv, seen.done \subseteq seen'.done,
           \A w \in Slots : slot'[w].answer = slot[w].answer \/ slot'[w].answer = 0
    PROVE  DoneInv'
BY VParts DEF DoneInv

\* What a group has done stays done.
LEMMA GroupKept ==
    ASSUME VerdictInv, seen.done \subseteq seen'.done,
           me'.group => me.group, me'.ok => me.ok, me'.first = me.first,
           me'.ops = me.ops, me'.i = me.i, me'.used = me.used
    PROVE  GroupInv'
BY VParts DEF GroupInv

\* The flight of the pool when nothing is submitted or collected.
LEMMA FlightKept ==
    ASSUME CtrlInv, VerdictInv, pool.abandoned => pool'.abandoned,
           batch'.depth = batch.depth, batch'.ops = batch.ops, me'.group = me.group,
           Filled' = Filled, me'.used = me.used, InFlight' \subseteq InFlight,
           \A w \in Slots : slot'[w].op = slot[w].op /\ slot'[w].is_read = slot[w].is_read,
           \/ me'.pc = me.pc /\ drain'["caller"] = drain["caller"]
           \/ me'.pc \notin {"AwaitDrained", "End"} \/ drain'["caller"] # "No"
    PROVE  FlightInv'
<1>1. UsedSlots' = UsedSlots BY DEF UsedSlots
<1>2. InFlight \subseteq Slots BY VTypes
<1> SUFFICES ASSUME ~ pool'.abandoned PROVE FlightInv' BY DEF FlightInv
<1>3. /\ \A w \in InFlight : ~ slot[w].is_read =>
              \/ batch.depth > 0 /\ slot[w].op \in batch.ops
              \/ me.group /\ w \in Filled \cup UsedSlots
      /\ me.pc \in {"AwaitDrained", "End"} /\ drain["caller"] = "No" => InFlight = {}
  BY VParts DEF FlightInv
<1>4. \A w \in InFlight' : ~ slot'[w].is_read =>
              \/ batch'.depth > 0 /\ slot'[w].op \in batch'.ops
              \/ me'.group /\ w \in Filled' \cup UsedSlots'
  BY <1>1, <1>2, <1>3
<1>5. me'.pc \in {"AwaitDrained", "End"} /\ drain'["caller"] = "No" => InFlight' = {} BY <1>3
<1> QED BY <1>4, <1>5 DEF FlightInv

\* A step at rest: the calling thread moves, and nothing is submitted.
LEMMA VDrained ==
    ASSUME CtrlInv, VerdictInv, NEW t \in Threads, Drained(t) PROVE VerdictInv'
<1>1. /\ UNCHANGED <<pool, slot, ep0, reap, cb, batch, me, sends, seen>>
      /\ drain' = [drain EXCEPT ![t] = "No"] /\ drain[t] # "No" /\ pool.inflight = 0
  BY DEF Drained
<1>2. drain \in [Threads -> {"No", "Enter", "Wait", "Cancelled"}] /\ {"caller", "sender"} = Threads
  BY Before, Parts DEF Threads
<1>3. /\ drain'["sender"] \in {drain["sender"], "No"}
      /\ drain'["caller"] \in {drain["caller"], "No"}
  BY <1>1, <1>2
<1>4. Filled' = Filled /\ InFlight' = InFlight /\ UsedSlots' = UsedSlots
  BY <1>1 DEF Filled, InFlight, UsedSlots
<1>5. ModeInv' BY <1>1, <1>3, <1>4, VParts DEF ModeInv
<1>6. DoneInv' BY <1>1, DoneKept
<1>7. GroupInv' BY <1>1, GroupKept
<1>8. FlightInv'
  <2>1. InFlight = {} BY <1>1, Before, Parts, FS_EmptySet DEF FlagInv
  <2> QED BY <2>1, <1>4 DEF FlightInv
<1>9. TallyInv' BY <1>1, TallySame
<1> QED BY <1>5, <1>6, <1>7, <1>8, <1>9 DEF VerdictInv

\* A drain begins: it waits only if none has given up.
LEMMA VFlushEnter == ASSUME CtrlInv, VerdictInv, FlushEnter PROVE VerdictInv'
<1>1. /\ UNCHANGED <<pool, slot, ep0, reap, cb, batch, me, sends, seen>>
      /\ drain' = [drain EXCEPT !["caller"] = Entered] /\ drain["caller"] = "Enter"
  BY DEF FlushEnter
<1>2. drain'["caller"] = Entered /\ drain'["sender"] = drain["sender"]
  BY <1>1, Before, Parts DEF Threads
<1>3. \/ drain'["caller"] = "No" /\ pool.abandoned
      \/ drain'["caller"] = "Wait" /\ ~ pool.abandoned
  BY <1>2 DEF Entered
<1>4. Filled' = Filled /\ InFlight' = InFlight BY <1>1 DEF Filled, InFlight
<1>5. ModeInv' BY <1>1, <1>2, <1>3, <1>4, VParts DEF ModeInv
<1>6. DoneInv' BY <1>1, DoneKept
<1>7. GroupInv' BY <1>1, GroupKept
<1>8. FlightInv'
  <2>1. CASE pool.abandoned BY <2>1, <1>1 DEF FlightInv
  <2>2. CASE ~ pool.abandoned BY <2>2, <1>1, <1>3, <1>4, FlightKept
  <2> QED BY <2>1, <2>2
<1>9. TallyInv' BY <1>1, TallySame
<1> QED BY <1>5, <1>6, <1>7, <1>8, <1>9 DEF VerdictInv

\* The other thread drains outside a batch only.
LEMMA VSend == ASSUME CtrlInv, VerdictInv, Send PROVE VerdictInv'
<1>1. /\ UNCHANGED <<pool, slot, ep0, reap, cb, batch, me, seen>>
      /\ drain' = [drain EXCEPT !["sender"] = Entered] /\ batch.depth = 0
  BY DEF Send
<1>2. drain'["caller"] = drain["caller"] BY <1>1, Before, Parts DEF Threads
<1>3. Filled' = Filled /\ InFlight' = InFlight BY <1>1 DEF Filled, InFlight
<1>4. ModeInv' BY <1>1, <1>2, <1>3, VParts DEF ModeInv
<1>5. DoneInv' BY <1>1, DoneKept
<1>6. GroupInv' BY <1>1, GroupKept
<1>7. FlightInv' BY <1>1, <1>2, <1>3, FlightKept
<1>8. TallyInv' BY <1>1, TallySame
<1> QED BY <1>4, <1>5, <1>6, <1>7, <1>8 DEF VerdictInv

\* write_batch_begin counts from zero in a new generation: what is in flight is
\* older, and a write among it belongs to a pool that was given up on.
LEMMA VBegin == ASSUME CtrlInv, VerdictInv, Begin PROVE VerdictInv'
<1>1. /\ me.pc = "Idle" /\ drain["caller"] = "No" /\ drain["sender"] = "No"
      /\ UNCHANGED <<slot, ep0, reap, cb, me, drain, sends>>
      /\ seen' = [seen EXCEPT !.begun = @ + 1]
  BY DEF Begin, At
<1>2. /\ me = [NoCall EXCEPT !.pc = "Idle"] /\ ~ me.group /\ DOMAIN me.ops = {}
      /\ Filled = {} /\ Filled' = {}
  <2>1. me = [NoCall EXCEPT !.pc = "Idle"] BY <1>1, Parts DEF CallInv
  <2>2. ~ me.group /\ DOMAIN me.ops = {} /\ Filled = {} BY <2>1, AtRest
  <2> QED BY <1>1, <2>1, <2>2 DEF Filled
<1>3. /\ seen'.next = seen.next /\ seen'.done = seen.done /\ seen'.retired = seen.retired
  BY <1>1, Before, Parts DEF SeenType
<1>4. InFlight' = InFlight /\ UsedSlots' = UsedSlots BY <1>1 DEF InFlight, UsedSlots
<1>5. DoneInv' BY <1>1, <1>3, DoneKept
<1>6. GroupInv' BY <1>1, <1>3, GroupKept
<1>7. CASE batch.depth > 0
  <2>1. batch' = [batch EXCEPT !.depth = batch.depth + 1] /\ pool' = pool BY <1>7 DEF Begin
  <2>2. /\ batch'.depth = batch.depth + 1 /\ batch'.ops = batch.ops
        /\ batch'.pipelined = batch.pipelined
    BY <2>1, Before, Parts DEF BatchType
  <2>3. batch'.depth > 0 BY <1>7, <2>2, VTypes
  <2>4. ModeInv' BY <1>1, <1>2, <1>3, <1>7, <2>1, <2>2, <2>3, VParts DEF ModeInv
  <2>5. FlightInv' BY <1>1, <1>2, <1>4, <1>7, <2>1, <2>2, <2>3, VParts DEF FlightInv
  <2>6. TallyInv'
    <3>1. /\ OutWrites' = OutWrites /\ QueueOps' = QueueOps /\ FailedWrites' = FailedWrites
      BY <1>1, <2>1, SameOut
    <3>2. OpIds' = OpIds /\ MyWrites' = MyWrites BY <1>1 DEF OpIds, MyWrites
    <3>3. Reached' = Reached BY <1>3, <3>1, <3>2 DEF Reached
    <3>4. batch'.depth > 0 => FailedWrites' \cap Reached' = {}
      BY <1>7, <3>1, <3>3, VParts DEF TallyInv
    <3> QED BY <1>3, <1>7, <2>1, <2>2, <3>1, <3>2, <3>3, <3>4, TallyKept
  <2> QED BY <1>5, <1>6, <2>4, <2>5, <2>6 DEF VerdictInv
<1>8. CASE ~ (batch.depth > 0)
  <2>1. batch.depth = 0 BY <1>8, VTypes
  <2>2. /\ batch'.pipelined = (~ pool.abandoned /\ pool.built) /\ batch'.depth = 1
        /\ batch'.ops = {}
    BY <1>8 DEF Begin
  <2>3. pool' = [pool EXCEPT !.write_errors = 0, !.generation = @ + 1] BY <1>8 DEF Begin
  <2>4. /\ pool'.write_errors = 0 /\ pool'.generation = pool.generation + 1
        /\ pool'.abandoned = pool.abandoned
    BY <2>3, Before, Parts DEF PoolType
  <2>5. \A w \in Slots : slot'[w].gen < pool'.generation
    BY <1>1, <2>4, VTypes, VParts DEF ModeInv
  <2>6. ModeInv'
    <3>1. \A w \in Slots : slot'[w].gen <= pool'.generation
      BY <1>1, <2>4, VTypes, VParts DEF ModeInv
    <3>2. batch'.pipelined => ~ pool.abandoned BY Zenon, <2>2
    <3>3. batch'.depth > 0 /\ batch'.depth # 0 /\ \A o \in batch'.ops : FALSE BY <2>2
    <3> QED BY <1>1, <1>2, <2>4, <3>1, <3>2, <3>3 DEF ModeInv
  <2>7. FlightInv'
    <3> SUFFICES ASSUME ~ pool.abandoned PROVE FlightInv' BY <2>4 DEF FlightInv
    <3>1. \A w \in InFlight : slot[w].is_read
      BY <1>2, <2>1, VTypes, VParts DEF FlightInv
    <3> QED BY <1>1, <1>4, <3>1 DEF FlightInv
  <2>8. TallyInv'
    <3>1. Out' = Out /\ Out \subseteq Slots BY <1>1, VTypes DEF Out, Waiting
    <3>2. \A w \in Slots : slot'[w].gen # pool'.generation
      BY <1>1, <2>4, VTypes, VParts DEF ModeInv
    <3>3. OutWrites' = {} BY <3>1, <3>2 DEF OutWrites, Counts
    <3>4. FailedWrites' = {}
      <4>1. Failed' = {} BY <1>1, <3>2, VTypes DEF Failed, Counts
      <4> QED BY <4>1 DEF FailedWrites
    <3>5. OpIds' = {} /\ MyWrites' = {} BY <1>1, <1>2 DEF OpIds, MyWrites
    <3> QED BY <2>2, <2>4, <3>3, <3>4, <3>5 DEF TallyInv
  <2> QED BY <1>5, <1>6, <2>6, <2>7, <2>8 DEF VerdictInv
<1> QED BY <1>7, <1>8

\* The calling thread moves between its steps at rest, the batch as it was.
LEMMA VRests ==
    ASSUME CtrlInv, VerdictInv, me.pc \in Resting,
           NEW q \in Resting, me' = [NoCall EXCEPT !.pc = q],
           UNCHANGED <<pool, slot, ep0, reap, seen>>,
           batch'.depth = batch.depth, batch'.ops = batch.ops,
           batch'.pipelined = batch.pipelined, drain'["sender"] = drain["sender"],
           q = "End" => batch.depth > 0 /\ drain'["caller"] = "Enter",
           drain'["caller"] \in {"No", "Enter"},
           drain'["caller"] # "No" => q \in {"End", "Destroy"}
    PROVE  VerdictInv'
<1>1. /\ me = [NoCall EXCEPT !.pc = me.pc] BY Parts DEF CallInv, Resting
<1>2. /\ me.ops = <<>> /\ me.used = <<>> /\ ~ me.group /\ Filled = {} BY <1>1, AtRest DEF Resting
<1>3. /\ me'.pc = q /\ me'.ops = <<>> /\ me'.used = <<>> /\ me'.group = FALSE /\ q # "Submit"
  BY DEF NoCall, Resting
<1>4. Filled' = {} BY <1>3 DEF Filled
<1>5. InFlight' = InFlight BY DEF InFlight
<1>6. ModeInv' BY <1>2, <1>3, <1>4, VParts DEF ModeInv, Resting
<1>7. DoneInv' BY DoneKept
<1>8. GroupInv' BY <1>3 DEF GroupInv
<1>9. FlightInv'
  <2>1. me'.group = me.group BY <1>2, <1>3, VTypes
  <2>2. me'.pc \notin {"AwaitDrained", "End"} \/ drain'["caller"] # "No" BY <1>3 DEF Resting
  <2> QED BY <1>2, <1>3, <1>4, <1>5, <2>1, <2>2, FlightKept
<1>10. TallyInv' BY <1>2, <1>3, TallySame
<1> QED BY <1>6, <1>7, <1>8, <1>9, <1>10 DEF VerdictInv

\* write_batch_end drains, or leaves an inner batch.
LEMMA VEnd == ASSUME CtrlInv, VerdictInv, End PROVE VerdictInv'
<1>1. /\ me.pc = "Idle" /\ drain["caller"] = "No" /\ batch.depth > 0
      /\ UNCHANGED <<pool, slot, ep0, reap, cb, sends, seen>>
  BY DEF End, At
<1>2. CASE batch.depth > 1
  <2>1. batch' = [batch EXCEPT !.depth = batch.depth - 1] /\ UNCHANGED <<me, drain>>
    BY <1>2 DEF End
  <2>2. /\ batch'.depth > 0 /\ batch'.ops = batch.ops /\ batch'.pipelined = batch.pipelined
        /\ batch'.depth # 0
    <3>1. /\ batch'.depth = batch.depth - 1 /\ batch'.ops = batch.ops
          /\ batch'.pipelined = batch.pipelined
      BY <2>1, Before, Parts DEF BatchType
    <3> QED BY <1>2, <3>1, VTypes
  <2>3. Filled' = Filled /\ InFlight' = InFlight /\ UsedSlots' = UsedSlots
    BY <1>1, <2>1 DEF Filled, InFlight, UsedSlots
  <2>4. ~ me.group
    <3>1. me = [NoCall EXCEPT !.pc = "Idle"] BY <1>1, Parts DEF CallInv
    <3> QED BY <3>1, AtRest
  <2>5. ModeInv' BY <1>1, <2>1, <2>2, <2>3, <2>4, VParts DEF ModeInv
  <2>6. DoneInv' BY <1>1, DoneKept
  <2>7. GroupInv' BY <1>1, <2>1, GroupKept
  <2>8. FlightInv' BY <1>1, <2>1, <2>2, <2>3, VParts DEF FlightInv
  <2>9. TallyInv' BY <1>1, <2>1, <2>2, TallySame
  <2> QED BY <2>5, <2>6, <2>7, <2>8, <2>9 DEF VerdictInv
<1>3. CASE ~ (batch.depth > 1)
  <2>1. Goto("End") /\ batch' = batch /\ drain' = [drain EXCEPT !["caller"] = "Enter"]
    BY <1>3 DEF End, ThenDrain
  <2>2. me' = [NoCall EXCEPT !.pc = "End"] BY <1>1, <2>1, Rests DEF Resting
  <2>3. drain'["caller"] = "Enter" /\ drain'["sender"] = drain["sender"]
    BY <2>1, Before, Parts DEF Threads
  <2>4. me.pc \in Resting /\ "End" \in Resting BY <1>1 DEF Resting
  <2> QED BY <1>1, <2>1, <2>2, <2>3, <2>4, VRests
<1> QED BY <1>2, <1>3

\* The batch reports: nothing of it is in flight, or the pool was given up on.
LEMMA VEndDrained == ASSUME CtrlInv, VerdictInv, EndDrained PROVE VerdictInv'
<1>1. /\ me.pc = "End" /\ drain["caller"] = "No" /\ Goto("Idle")
      /\ batch' = [pipelined |-> FALSE, depth |-> 0, ops |-> {}]
      /\ UNCHANGED <<pool, slot, ep0, reap, cb, drain, sends, seen>>
  BY DEF EndDrained, At
<1>2. /\ me' = [NoCall EXCEPT !.pc = "Idle"] BY <1>1, Rests DEF Resting
<1>3. /\ me'.pc = "Idle" /\ me'.group = FALSE BY <1>2 DEF NoCall
<1>4. Filled' = {} /\ InFlight' = InFlight BY <1>1, <1>3 DEF Filled, InFlight
<1>5. batch'.depth = 0 /\ batch'.pipelined = FALSE /\ batch'.ops = {} BY <1>1
<1>6. ModeInv'
  <2>1. ~ (batch'.depth > 0) /\ \A o \in batch'.ops : FALSE BY <1>5
  <2> QED BY <1>1, <1>3, <1>4, <1>5, <2>1, VParts DEF ModeInv, Resting
<1>7. DoneInv' BY <1>1, DoneKept
<1>8. GroupInv' BY <1>3 DEF GroupInv
<1>9. FlightInv' BY <1>1, <1>3, <1>4, VParts DEF FlightInv
<1>10. TallyInv' BY <1>5 DEF TallyInv
<1> QED BY <1>6, <1>7, <1>8, <1>9, <1>10 DEF VerdictInv

\* The destructor.
LEMMA VDestroy == ASSUME CtrlInv, VerdictInv, Destroy PROVE VerdictInv'
<1>1. /\ me.pc = "Idle" /\ Goto("Destroy") /\ drain' = [drain EXCEPT !["caller"] = "Enter"]
      /\ UNCHANGED <<pool, slot, ep0, reap, cb, batch, sends, seen>>
  BY DEF Destroy, At, ThenDrain
<1>2. me' = [NoCall EXCEPT !.pc = "Destroy"] BY <1>1, Rests DEF Resting
<1>3. drain'["caller"] = "Enter" /\ drain'["sender"] = drain["sender"]
  BY <1>1, Before, Parts DEF Threads
<1>4. me.pc \in Resting /\ "Destroy" \in Resting BY <1>1 DEF Resting
<1> QED BY <1>1, <1>2, <1>3, <1>4, VRests

\* The last reaping ends.
LEMMA VLastReap == ASSUME CtrlInv, VerdictInv, LastReap PROVE VerdictInv'
<1>1. /\ me.pc = "Reap" /\ Goto("Free") /\ drain["caller"] = "No"
      /\ UNCHANGED <<pool, slot, ep0, reap, cb, batch, drain, sends, seen>>
  BY DEF LastReap, At
<1>2. me' = [NoCall EXCEPT !.pc = "Free"] BY <1>1, Rests DEF Resting
<1>3. me.pc \in Resting /\ "Free" \in Resting BY <1>1 DEF Resting
<1> QED BY <1>1, <1>2, <1>3, VRests

\* Every slot is freed or leaked.
LEMMA VAllFreed == ASSUME CtrlInv, VerdictInv, AllFreed PROVE VerdictInv'
<1>1. /\ me.pc = "Free" /\ Goto("Gone") /\ drain["caller"] = "No"
      /\ UNCHANGED <<pool, slot, ep0, reap, cb, batch, drain, sends, seen>>
  BY DEF AllFreed, At
<1>2. me' = [NoCall EXCEPT !.pc = "Gone"] BY <1>1, Rests DEF Resting
<1>3. me.pc \in Resting /\ "Gone" \in Resting BY <1>1 DEF Resting
<1> QED BY <1>1, <1>2, <1>3, VRests

\* A transfer ends: the device has performed the access, or it is missed for good.
LEMMA VComplete == ASSUME CtrlInv, VerdictInv, Complete PROVE VerdictInv'
<1> DEFINE w == Head(ep0)
<1>1. /\ ep0 # <<>> /\ ep0' = Tail(ep0)
      /\ UNCHANGED <<pool, cb, batch, me, drain, sends>>
  BY DEF Complete
<1>2. /\ w \in Slots /\ w \in Elems(ep0) /\ Elems(ep0') = Elems(ep0) \ {w}
      /\ 1 \in DOMAIN ep0 /\ w = ep0[1]
  BY SMTT(30), <1>1, TailElems, TailIndex, Before, Parts DEF PlaceInv
<1>3. PICK ok \in BOOLEAN :
         /\ reap' = Append(reap, [slot |-> w, ok |-> ok])
         /\ \/ ok = FALSE /\ UNCHANGED <<seen, slot>>
            \/ /\ ok = TRUE /\ seen' = Performed(slot[w].op, slot[w].is_read)
               /\ slot' = [slot EXCEPT ![w] = [slot[w] EXCEPT !.answer = slot[w].op]]
  BY <1>2, Before, Parts DEF Complete
<1> HIDE DEF w
<1>4. /\ \A v \in Slots : /\ slot'[v].op = slot[v].op /\ slot'[v].is_read = slot[v].is_read
                          /\ slot'[v].inflight = slot[v].inflight /\ slot'[v].gen = slot[v].gen
      /\ \A v \in Slots : \/ slot'[v].answer = slot[v].answer
                          \/ ok /\ slot'[v].answer = slot[w].op
  <2>1. CASE UNCHANGED slot BY <2>1
  <2>2. CASE ok /\ slot' = [slot EXCEPT ![w] = [slot[w] EXCEPT !.answer = slot[w].op]]
    <3> DEFINE x == [slot[w] EXCEPT !.answer = slot[w].op]
    <3>1. slot[w] \in SlotType BY <1>2, VTypes
    <3>2. /\ x.op = slot[w].op /\ x.is_read = slot[w].is_read /\ x.inflight = slot[w].inflight
          /\ x.gen = slot[w].gen /\ x.answer = slot[w].op
      BY <3>1 DEF SlotType
    <3>3. slot' = [slot EXCEPT ![w] = x] BY <2>2
    <3> HIDE DEF x
    <3>4. slot'[w] = x /\ \A v \in Slots : v # w => slot'[v] = slot[v]
      BY <1>2, <3>3, Before, Parts
    <3> QED BY <2>2, <3>2, <3>4
  <2> QED BY <1>3, <2>1, <2>2
<1>5. /\ seen'.next = seen.next /\ seen'.retired = seen.retired
      /\ seen'.done = IF ok THEN seen.done \cup {slot[w].op} ELSE seen.done
  BY <1>3, Before, Parts DEF Performed, SeenType
<1>6. /\ Waiting' = Waiting \cup {w}
      /\ \A i \in DOMAIN reap' : \/ reap'[i].slot = w /\ reap'[i].ok = ok
                                 \/ i \in DOMAIN reap /\ reap'[i] = reap[i]
  <2> DEFINE x == [slot |-> w, ok |-> ok]
  <2>1. x \in Reaps /\ x.slot = w /\ x.ok = ok BY <1>2 DEF Reaps
  <2>2. reap' = Append(reap, x) BY <1>3
  <2> HIDE DEF x
  <2> QED BY <2>1, <2>2, ReapAppend, Before, Parts DEF Waiting
<1>7. Filled' = Filled /\ InFlight' = InFlight /\ Filled \subseteq Slots
  BY <1>1, <1>4, InHand DEF Filled, InFlight
<1>8. ModeInv' BY <1>1, <1>4, <1>5, <1>7, VParts DEF ModeInv
<1>9. DoneInv' BY <1>4, <1>5, VParts DEF DoneInv
<1>10. GroupInv' BY <1>1, <1>5, GroupKept
<1>11. FlightInv' BY <1>1, <1>4, <1>7, FlightKept
<1>12. TallyInv'
  <2>1. Out' = Out /\ Out \subseteq Slots BY <1>2, <1>6, VTypes DEF Out
  <2>2. OutWrites' = OutWrites BY <1>1, <1>4, <2>1 DEF OutWrites, Counts
  <2>3. OpIds' = OpIds /\ MyWrites' = MyWrites BY <1>1 DEF OpIds, MyWrites
  <2>4. \A v \in Elems(ep0') : v \in Elems(ep0) /\ slot'[v].op = slot[v].op
    BY <1>2, <1>4, Before, Parts
  <2>5. QueueOps' \subseteq QueueOps /\ slot[w].op \in QueueOps BY <1>2, <2>4 DEF QueueOps
  <2>6. Reached' \subseteq Reached BY <1>5, <2>3, <2>5 DEF Reached
  <2>7. ASSUME batch.depth > 0, ~ ok, Counts(w) PROVE slot[w].op \notin Reached'
    <3>1. slot[w].op \notin seen.done
      <4>1. \A o \in seen.done : o < slot[w].op BY <1>2, Parts DEF OrderInv
      <4>2. slot[w].op \in Int BY <1>2, VTypes
      <4> QED BY <4>1, <4>2
    <3>2. slot[w].op \notin OpIds
      <4>1. slot[w].op \in OutWrites BY <1>2, <2>7, VTypes DEF OutWrites
      <4> QED BY <4>1, <2>7, VParts DEF TallyInv
    <3>3. slot[w].op \notin QueueOps'
      <4> SUFFICES ASSUME NEW v \in Elems(ep0) \ {w} PROVE slot[v].op # slot[w].op
        BY <1>2, <2>4 DEF QueueOps
      <4>1. PICK j \in DOMAIN ep0 : v = ep0[j] BY DEF Elems
      <4>2. j > 1 BY <4>1, <1>2, Before, Parts, LenProperties
      <4>3. slot[w].op < slot[v].op BY <4>1, <4>2, <1>2, Parts DEF OrderInv
      <4>4. slot[w].op \in Int /\ slot[v].op \in Int BY <1>2, <4>1, VTypes, Numbers
      <4> QED BY <4>3, <4>4
    <3> QED BY <1>5, <2>3, <2>7, <3>1, <3>2, <3>3 DEF Reached
  <2>8. batch'.depth > 0 => FailedWrites' \cap Reached' = {}
    <3> SUFFICES ASSUME batch.depth > 0, NEW i \in Failed', slot'[reap'[i].slot].op \in Reached'
                 PROVE  FALSE
      BY <1>1 DEF FailedWrites
    <3>1. i \in DOMAIN reap' /\ ~ reap'[i].ok /\ Counts(reap[i].slot)' BY DEF Failed
    <3>2. CASE reap'[i].slot = w /\ reap'[i].ok = ok
      <4>1. Counts(w) BY <3>1, <3>2, <1>1, <1>2, <1>4 DEF Counts
      <4> QED BY <2>7, <3>1, <3>2, <4>1, <1>2, <1>4
    <3>3. CASE i \in DOMAIN reap /\ reap'[i] = reap[i]
      <4>1. reap[i].slot \in Slots BY <3>3, VTypes
      <4>2. Counts(reap[i].slot) BY <3>1, <3>3, <4>1, <1>1, <1>4 DEF Counts
      <4>3. i \in Failed BY <3>1, <3>3, <4>2 DEF Failed
      <4>4. slot[reap[i].slot].op \in FailedWrites BY <4>3 DEF FailedWrites
      <4>5. slot[reap[i].slot].op \in Reached BY <3>3, <4>1, <1>4, <2>6
      <4> QED BY <4>4, <4>5, VParts DEF TallyInv
    <3> QED BY <1>6, <3>1, <3>2, <3>3
  <2> QED BY <1>1, <1>5, <2>2, <2>3, <2>6, <2>8, TallyKept
<1> QED BY <1>8, <1>9, <1>10, <1>11, <1>12 DEF VerdictInv

\* A completion is counted: what failed is missed, and what did not is done.
LEMMA VCbEnter == ASSUME CtrlInv, VerdictInv, CbEnter PROVE VerdictInv'
<1> DEFINE w == Head(reap).slot
           good == Head(reap).ok
           bad == Counts(w) /\ ~ good
<1>1. /\ cb.pc = "Idle" /\ reap # <<>> /\ reap' = Tail(reap)
      /\ UNCHANGED <<ep0, batch, me, drain, sends, seen>>
      /\ slot' = [slot EXCEPT ![w].cb_busy = TRUE, ![w].ok = good]
      /\ pool' = [pool EXCEPT !.write_errors = IF bad THEN @ + 1 ELSE @]
  BY DEF CbEnter, Counts
<1>2. /\ w \in Waiting /\ w \in Slots /\ Waiting' = Waiting \ {w} /\ 1 \in DOMAIN reap
      /\ Head(reap) = reap[1]
      /\ \A i \in DOMAIN reap' : i + 1 \in DOMAIN reap /\ reap'[i] = reap[i + 1]
  BY <1>1, ReapTail, Before, Parts DEF PlaceInv, Waiting
<1>3. slot[w] \in SlotType /\ slot[w].op # 0
  <2>1. w \in InFlight BY <1>2, Parts DEF FlagInv
  <2> QED BY <1>2, <2>1, VTypes, Parts DEF FlagInv
<1>4. good => slot[w].op \in seen.done
  <2> SUFFICES ASSUME good PROVE slot[w].op \in seen.done OBVIOUS
  <2>1. slot[w].answer = slot[w].op BY <1>2, Parts DEF AnswerInv
  <2> QED BY <1>2, <1>3, <2>1, VParts DEF DoneInv
<1> HIDE DEF w, good
<1>5. \A v \in Slots : /\ slot'[v].op = slot[v].op /\ slot'[v].is_read = slot[v].is_read
                       /\ slot'[v].gen = slot[v].gen /\ slot'[v].answer = slot[v].answer
                       /\ slot'[v].inflight = slot[v].inflight
  <2> DEFINE x == [slot[w] EXCEPT !.cb_busy = TRUE, !.ok = good]
  <2>1. /\ x.op = slot[w].op /\ x.is_read = slot[w].is_read /\ x.gen = slot[w].gen
        /\ x.answer = slot[w].answer /\ x.inflight = slot[w].inflight
    BY <1>3 DEF SlotType
  <2>2. slot' = [slot EXCEPT ![w] = x] BY <1>1, <1>2, Before, Parts
  <2> HIDE DEF x
  <2>3. slot'[w] = x /\ \A v \in Slots : v # w => slot'[v] = slot[v]
    BY <1>2, <2>2, Before, Parts
  <2> QED BY <2>1, <2>3
<1>6. /\ pool'.write_errors = IF bad THEN pool.write_errors + 1 ELSE pool.write_errors
      /\ pool'.abandoned = pool.abandoned /\ pool'.generation = pool.generation
  BY <1>1, Before, Parts DEF PoolType
<1> HIDE DEF bad
<1>7. Filled' = Filled /\ InFlight' = InFlight /\ Filled \subseteq Slots
  <2>1. Filled' = Filled BY <1>1 DEF Filled
  <2>2. InFlight' = InFlight BY ONLY <1>5 DEF InFlight
  <2>3. Filled \subseteq Slots BY InHand DEF Filled
  <2> QED BY <2>1, <2>2, <2>3
<1>8. ModeInv' BY <1>1, <1>5, <1>6, <1>7, VParts DEF ModeInv
<1>9. DoneInv' BY <1>1, <1>5, DoneKept
<1>10. GroupInv' BY <1>1, GroupKept
<1>11. FlightInv' BY <1>1, <1>5, <1>6, <1>7, FlightKept
<1>12. TallyInv'
  <2>1. Out' = Out \ {w} /\ Out \subseteq Slots /\ w \in Out
    <3>1. w \notin Elems(ep0) BY <1>2, Parts DEF PlaceInv
    <3> QED BY <1>1, <1>2, <3>1, VTypes DEF Out
  <2>2. \A v \in Out' : Counts(v)' <=> Counts(v) BY <1>5, <1>6, <2>1 DEF Counts
  <2>3. OutWrites' \subseteq OutWrites BY <1>5, <2>1, <2>2 DEF OutWrites
  <2>4. OutWrites \subseteq OutWrites' \cup (IF Counts(w) THEN {slot[w].op} ELSE {})
    BY <1>5, <2>1, <2>2 DEF OutWrites
  <2>5. OpIds' = OpIds /\ MyWrites' = MyWrites BY <1>1 DEF OpIds, MyWrites
  <2>6. QueueOps' = QueueOps
    <3>1. ep0' = ep0 /\ \A v \in Elems(ep0) : v \in Slots BY <1>1, Before, Parts
    <3>2. \A v \in Elems(ep0) : slot'[v].op = slot[v].op BY <1>5, <3>1
    <3> QED BY <3>1, <3>2 DEF QueueOps
  <2>7. Reached' = Reached BY <1>1, <2>5, <2>6 DEF Reached
  <2>8. FailedWrites' \subseteq FailedWrites
    <3> SUFFICES ASSUME NEW i \in Failed' PROVE slot'[reap'[i].slot].op \in FailedWrites
      BY DEF FailedWrites
    <3>1. i \in DOMAIN reap' /\ ~ reap'[i].ok /\ Counts(reap[i].slot)' BY DEF Failed
    <3>2. i + 1 \in DOMAIN reap /\ reap'[i] = reap[i + 1] /\ reap[i + 1].slot \in Slots
      BY <1>2, <3>1, VTypes
    <3>3. Counts(reap[i + 1].slot) BY <1>5, <1>6, <3>1, <3>2 DEF Counts
    <3>4. i + 1 \in Failed BY <3>1, <3>2, <3>3 DEF Failed
    <3> QED BY <1>5, <3>2, <3>4 DEF FailedWrites
  <2>9. batch'.depth > 0 => FailedWrites' \cap Reached' = {}
    BY <1>1, <2>7, <2>8, VParts DEF TallyInv
  <2>10. CASE ~ bad
    <3>1. Counts(w) => slot[w].op \in seen.done BY <2>10, <1>4 DEF bad
    <3>2. seen.done \cup OutWrites \cup MyWrites \subseteq seen'.done \cup OutWrites' \cup MyWrites'
      BY <1>1, <2>4, <2>5, <3>1
    <3>3. pool'.write_errors = pool.write_errors BY <2>10, <1>6
    <3> QED BY <1>1, <1>6, <2>3, <2>5, <2>7, <2>9, <3>2, <3>3, TallyKept
  <2>11. CASE bad
    <3> SUFFICES ASSUME batch.depth > 0 PROVE TallyInv' BY <1>1 DEF TallyInv
    <3>1. pool'.write_errors > 0 BY <2>11, <1>6, VTypes
    <3>2. 1 \in Failed BY <1>2, <2>11 DEF Failed, bad, w, good
    <3>3. slot[w].op \in FailedWrites BY <1>2, <3>2 DEF FailedWrites, w
    <3>4. slot[w].op \in OutWrites BY <2>1, <2>11 DEF bad, OutWrites
    <3>5. slot[w].op \in batch.ops /\ slot[w].op \notin Reached
      BY <3>3, <3>4, VParts DEF TallyInv
    <3>6. \E o \in batch'.ops : o \in seen'.retired \/ o \notin Reached' BY <1>1, <2>7, <3>5
    <3>7. OutWrites' \cup MyWrites' \subseteq batch'.ops /\ OutWrites' \cap OpIds' = {}
      BY <1>1, <2>3, <2>5, VParts DEF TallyInv
    <3>8. pool'.write_errors # 0 BY <3>1
    <3> QED BY <1>1, <2>9, <3>1, <3>6, <3>7, <3>8 DEF TallyInv
  <2> QED BY <2>10, <2>11
<1> QED BY <1>8, <1>9, <1>10, <1>11, <1>12 DEF VerdictInv

\* The callback's flags, the free list and the memory of a slot are in no account.
LEMMA VFlags ==
    ASSUME CtrlInv, VerdictInv, UNCHANGED <<ep0, reap, batch, me, drain, seen>>,
           InFlight' \subseteq InFlight,
           pool'.abandoned = pool.abandoned, pool'.write_errors = pool.write_errors,
           pool'.generation = pool.generation,
           \A v \in Slots : /\ slot'[v].op = slot[v].op /\ slot'[v].is_read = slot[v].is_read
                            /\ slot'[v].gen = slot[v].gen /\ slot'[v].answer = slot[v].answer
    PROVE  VerdictInv'
<1>1. Filled' = Filled /\ Filled \subseteq Slots /\ Out \subseteq Slots
  BY InHand, VTypes DEF Filled
<1>2. ModeInv' BY <1>1, VParts DEF ModeInv
<1>3. DoneInv' BY DoneKept
<1>4. GroupInv' BY GroupKept
<1>5. FlightInv' BY <1>1, FlightKept
<1>6. TallyInv' BY <1>1, TallySame
<1> QED BY <1>2, <1>3, <1>4, <1>5, <1>6 DEF VerdictInv

\* The callback clears and sets the flags.
LEMMA VCbPublish == ASSUME CtrlInv, VerdictInv, CbPublish PROVE VerdictInv'
<1>1. /\ cb.pc = "Publish" /\ pool' = [pool EXCEPT !.inflight = @ - 1]
      /\ slot' = [slot EXCEPT ![cb.slot].inflight = FALSE, ![cb.slot].done = TRUE]
      /\ UNCHANGED <<ep0, reap, batch, me, drain, sends, seen>>
  BY DEF CbPublish
<1>2. cb.slot \in Slots /\ slot[cb.slot] \in SlotType
  <2>1. cb.slot \in Busy BY <1>1 DEF Busy
  <2> QED BY <2>1, InHand, VTypes
<1>3. /\ \A v \in Slots : /\ slot'[v].op = slot[v].op /\ slot'[v].is_read = slot[v].is_read
                          /\ slot'[v].gen = slot[v].gen /\ slot'[v].answer = slot[v].answer
      /\ \A v \in Slots : slot'[v].inflight => slot[v].inflight
  <2> DEFINE w == cb.slot
             x == [slot[w] EXCEPT !.inflight = FALSE, !.done = TRUE]
  <2>1. /\ x.op = slot[w].op /\ x.is_read = slot[w].is_read /\ x.gen = slot[w].gen
        /\ x.answer = slot[w].answer /\ x.inflight = FALSE
    BY <1>2 DEF SlotType
  <2>2. slot' = [slot EXCEPT ![w] = x] BY <1>1, <1>2, Before, Parts
  <2> HIDE DEF x
  <2>3. slot'[w] = x /\ \A v \in Slots : v # w => slot'[v] = slot[v]
    BY <1>2, <2>2, Before, Parts
  <2> QED BY <2>1, <2>3
<1>4. InFlight' \subseteq InFlight BY <1>3 DEF InFlight
<1>5. /\ pool'.abandoned = pool.abandoned /\ pool'.write_errors = pool.write_errors
      /\ pool'.generation = pool.generation
  BY <1>1, Before, Parts DEF PoolType
<1> QED BY <1>1, <1>3, <1>4, <1>5, VFlags

\* The callback gives the slot back.
LEMMA VCbRelease == ASSUME CtrlInv, VerdictInv, CbRelease PROVE VerdictInv'
<1>1. /\ cb.pc = "Release" /\ pool' = [pool EXCEPT !.free = Append(@, cb.slot)]
      /\ slot' = [slot EXCEPT ![cb.slot].cb_busy = FALSE]
      /\ UNCHANGED <<ep0, reap, batch, me, drain, sends, seen>>
  BY DEF CbRelease
<1>2. cb.slot \in Slots /\ slot[cb.slot] \in SlotType
  <2>1. cb.slot \in Busy BY <1>1 DEF Busy
  <2> QED BY <2>1, InHand, VTypes
<1>3. /\ \A v \in Slots : /\ slot'[v].op = slot[v].op /\ slot'[v].is_read = slot[v].is_read
                          /\ slot'[v].gen = slot[v].gen /\ slot'[v].answer = slot[v].answer
                          /\ slot'[v].inflight = slot[v].inflight
  <2> DEFINE w == cb.slot
             x == [slot[w] EXCEPT !.cb_busy = FALSE]
  <2>1. /\ x.op = slot[w].op /\ x.is_read = slot[w].is_read /\ x.gen = slot[w].gen
        /\ x.answer = slot[w].answer /\ x.inflight = slot[w].inflight
    BY <1>2 DEF SlotType
  <2>2. slot' = [slot EXCEPT ![w] = x] BY <1>1, <1>2, Before, Parts
  <2> HIDE DEF x
  <2>3. slot'[w] = x /\ \A v \in Slots : v # w => slot'[v] = slot[v]
    BY <1>2, <2>2, Before, Parts
  <2> QED BY <2>1, <2>3
<1>4. InFlight' \subseteq InFlight BY <1>3 DEF InFlight
<1>5. /\ pool'.abandoned = pool.abandoned /\ pool'.write_errors = pool.write_errors
      /\ pool'.generation = pool.generation
  BY <1>1, Before, Parts DEF PoolType
<1> QED BY <1>1, <1>3, <1>4, <1>5, VFlags

\* A slot is freed, or leaked.
LEMMA VFreeSlot == ASSUME CtrlInv, VerdictInv, NEW w \in Slots, FreeSlot(w) PROVE VerdictInv'
<1>1. UNCHANGED <<ep0, reap, cb, batch, me, drain, sends, seen>> BY DEF FreeSlot
<1>2. PICK m : slot' = [slot EXCEPT ![w].memory = m] BY DEF FreeSlot
<1>3. /\ \A v \in Slots : /\ slot'[v].op = slot[v].op /\ slot'[v].is_read = slot[v].is_read
                          /\ slot'[v].gen = slot[v].gen /\ slot'[v].answer = slot[v].answer
                          /\ slot'[v].inflight = slot[v].inflight
  <2> DEFINE x == [slot[w] EXCEPT !.memory = m]
  <2>1. /\ x.op = slot[w].op /\ x.is_read = slot[w].is_read /\ x.gen = slot[w].gen
        /\ x.answer = slot[w].answer /\ x.inflight = slot[w].inflight
    BY VTypes DEF SlotType
  <2>2. slot' = [slot EXCEPT ![w] = x] BY <1>2, Before, Parts
  <2> HIDE DEF x
  <2>3. slot'[w] = x /\ \A v \in Slots : v # w => slot'[v] = slot[v]
    BY <2>2, Before, Parts
  <2> QED BY <2>1, <2>3
<1>4. InFlight' \subseteq InFlight BY <1>3 DEF InFlight
<1>5. /\ pool'.abandoned = pool.abandoned /\ pool'.write_errors = pool.write_errors
      /\ pool'.generation = pool.generation
  <2>1. pool' = pool \/ pool' = [pool EXCEPT !.free = Without(@, w)] BY DEF FreeSlot
  <2> QED BY <2>1, Before, Parts DEF PoolType
<1> QED BY <1>1, <1>3, <1>4, <1>5, VFlags

\* Cancelling what endpoint 0 has makes it fail: what it held is missed.
LEMMA VCancelled ==
    ASSUME CtrlInv, VerdictInv, CancelAll, UNCHANGED <<pool, slot, batch, seen>>,
           me'.ops = me.ops
    PROVE  TallyInv'
<1>1. /\ ep0' = <<>> /\ Elems(ep0') = {}
      /\ reap' = reap \o [i \in DOMAIN ep0 |-> [slot |-> ep0[i], ok |-> FALSE]]
  <2>1. Elems(<<>>) = {} BY Before, Parts, EmptyElems
  <2> QED BY <2>1 DEF CancelAll
<1>2. /\ Waiting' = Waiting \cup Elems(ep0) /\ Apart(reap')
      /\ \A i \in DOMAIN reap' : ~ reap'[i].ok \/ (i \in DOMAIN reap /\ reap'[i] = reap[i])
  <2>1. Apart(reap) /\ Distinct(ep0) /\ SlotsOf(reap) \cap Elems(ep0) = {}
    BY Parts DEF PlaceInv, Waiting
  <2>2. reap \in Seq(Reaps) /\ ep0 \in Seq(Slots) BY Before, Parts
  <2>3. /\ SlotsOf(reap') = SlotsOf(reap) \cup Elems(ep0) /\ Apart(reap')
        /\ \A i \in DOMAIN reap' : ~ reap'[i].ok \/ (i \in DOMAIN reap /\ reap'[i] = reap[i])
    BY ONLY <1>1, <2>1, <2>2, ReapCancelled
  <2> QED BY <2>3 DEF Waiting
<1>3. Out' = Out BY <1>1, <1>2 DEF Out
<1>4. OutWrites' = OutWrites BY <1>3 DEF OutWrites, Counts
<1>5. OpIds' = OpIds /\ MyWrites' = MyWrites BY DEF OpIds, MyWrites
<1>6. QueueOps' = {} BY <1>1 DEF QueueOps
<1>7. Reached' = seen.done \cup OpIds /\ Reached' \subseteq Reached BY <1>5, <1>6 DEF Reached
<1>8. batch'.depth > 0 => FailedWrites' \cap Reached' = {}
  <2> SUFFICES ASSUME batch.depth > 0, NEW i \in Failed', slot[reap'[i].slot].op \in Reached'
               PROVE  FALSE
    BY DEF FailedWrites
  <2>1. /\ i \in DOMAIN reap' /\ ~ reap'[i].ok /\ Counts(reap'[i].slot) BY DEF Failed, Counts
  <2>2. reap'[i].slot \in Waiting' BY <2>1 DEF Waiting, SlotsOf
  <2>3. slot[reap'[i].slot].op \in OutWrites BY <1>2, <2>1, <2>2 DEF OutWrites, Out
  <2>4. CASE reap'[i].slot \in Elems(ep0)
    <3>1. PICK j \in DOMAIN ep0 : reap'[i].slot = ep0[j] BY <2>4 DEF Elems
    <3>2. slot[ep0[j]].op \in Int /\ \A o \in seen.done : o < slot[ep0[j]].op
      BY Numbers, Parts DEF OrderInv
    <3>3. slot[ep0[j]].op \notin seen.done BY <3>2
    <3>4. slot[ep0[j]].op \notin OpIds BY <2>3, <3>1, VParts DEF TallyInv
    <3> QED BY <1>7, <3>1, <3>3, <3>4
  <2>5. CASE reap'[i].slot \in Waiting
    <3>1. PICK j \in DOMAIN reap : reap[j].slot = reap'[i].slot BY <2>5 DEF Waiting, SlotsOf
    <3>2. ~ reap[j].ok
      <4>1. j \in DOMAIN reap' /\ reap'[j] = reap[j]
        <5> DEFINE c == [k \in DOMAIN ep0 |-> [slot |-> ep0[k], ok |-> FALSE]]
                   n == Len(ep0)
        <5>1. reap \in Seq(Reaps) /\ ep0 \in Seq(Slots) /\ Apart(reap) /\ Distinct(ep0)
              /\ SlotsOf(reap) \cap Elems(ep0) = {}
          BY Before, Parts DEF PlaceInv, Waiting
        <5>2. reap' \in Seq(Reaps) BY ONLY <1>1, <5>1, ReapCancelled
        <5>3. c \in Seq(Reaps)
          <6>1. n \in Nat /\ DOMAIN ep0 = 1 .. n /\ \A k \in 1 .. n : ep0[k] \in Slots
            BY <5>1, LenProperties, ElementOfSeq
          <6>2. c = [k \in 1 .. n |-> c[k]] /\ \A k \in 1 .. n : c[k] \in Reaps
            BY <6>1 DEF Reaps
          <6> HIDE DEF c, n
          <6> QED BY <6>1, <6>2, SeqDef
        <5>4. reap' = reap \o c BY <1>1
        <5> HIDE DEF c
        <5>5. /\ Len(reap') = Len(reap) + Len(c)
              /\ \A k \in 1 .. Len(reap) + Len(c) :
                    reap'[k] = IF k <= Len(reap) THEN reap[k] ELSE c[k - Len(reap)]
          BY ZenonT(60), <5>1, <5>3, <5>4, ConcatProperties
        <5>6. /\ Len(reap) \in Nat /\ Len(c) \in Nat /\ DOMAIN reap = 1 .. Len(reap)
              /\ DOMAIN reap' = 1 .. Len(reap')
          BY <5>1, <5>2, <5>3, LenProperties
        <5> QED BY <5>5, <5>6
      <4>2. j = i BY <2>1, <3>1, <4>1, <1>2 DEF Apart
      <4> QED BY <2>1, <4>1, <4>2
    <3>3. j \in Failed BY <2>1, <3>1, <3>2 DEF Failed
    <3>4. slot[reap'[i].slot].op \in FailedWrites BY <3>1, <3>3 DEF FailedWrites
    <3> QED BY <1>7, <3>4, VParts DEF TallyInv
  <2> QED BY <1>2, <2>2, <2>4, <2>5
<1> QED BY <1>4, <1>5, <1>7, <1>8, TallyKept

\* A drain that waited in vain cancels.
LEMMA VDrainTimeout ==
    ASSUME CtrlInv, VerdictInv, NEW t \in Threads, DrainTimeout(t) PROVE VerdictInv'
<1>1. /\ drain[t] = "Wait" /\ CancelAll
      /\ drain' = [drain EXCEPT ![t] = "Cancelled"]
      /\ UNCHANGED <<pool, slot, cb, batch, me, sends, seen>>
  BY DEF DrainTimeout
<1>2. drain \in [Threads -> {"No", "Enter", "Wait", "Cancelled"}] /\ {"caller", "sender"} = Threads
  BY Before, Parts DEF Threads
<1>3. /\ drain'["sender"] = "No" <=> drain["sender"] = "No"
      /\ drain'["caller"] = "No" <=> drain["caller"] = "No"
  BY <1>1, <1>2
<1>4. Filled' = Filled /\ InFlight' = InFlight /\ UsedSlots' = UsedSlots
  BY <1>1 DEF Filled, InFlight, UsedSlots
<1>5. ModeInv' BY <1>1, <1>3, <1>4, VParts DEF ModeInv
<1>6. DoneInv' BY <1>1, DoneKept
<1>7. GroupInv' BY <1>1, GroupKept
<1>8. FlightInv' BY <1>1, <1>3, <1>4, VParts DEF FlightInv
<1>9. TallyInv' BY <1>1, VCancelled
<1> QED BY <1>5, <1>6, <1>7, <1>8, <1>9 DEF VerdictInv

\* ~UsbTransport cancels what is left.
LEMMA VLastCancel == ASSUME CtrlInv, VerdictInv, LastCancel PROVE VerdictInv'
<1>1. /\ me.pc = "Destroy" /\ drain["caller"] = "No"
      /\ UNCHANGED <<pool, slot, cb, batch, drain, sends, seen>>
  BY DEF LastCancel, At
<1>2. CASE CancelAll /\ Goto("Reap")
  <2>1. me = [NoCall EXCEPT !.pc = "Destroy"] /\ me' = [NoCall EXCEPT !.pc = "Reap"]
    BY <1>1, <1>2, Rests DEF Resting
  <2>2. /\ me.ops = <<>> /\ me.used = <<>> /\ ~ me.group /\ Filled = {} BY <2>1, AtRest
  <2>3. /\ me'.pc = "Reap" /\ me'.ops = <<>> /\ me'.used = <<>> /\ me'.group = FALSE
    BY <2>1 DEF NoCall
  <2>4. Filled' = {} /\ InFlight' = InFlight BY <1>1, <2>3 DEF Filled, InFlight
  <2>5. ModeInv' BY <1>1, <2>2, <2>3, <2>4, VParts DEF ModeInv, Resting
  <2>6. DoneInv' BY <1>1, DoneKept
  <2>7. GroupInv' BY <2>3 DEF GroupInv
  <2>8. FlightInv'
    <3>1. me'.group = me.group BY <2>2, <2>3, VTypes
    <3> QED BY <1>1, <2>2, <2>3, <2>4, <3>1, FlightKept
  <2>9. TallyInv' BY <1>1, <1>2, <2>2, <2>3, VCancelled
  <2> QED BY <2>5, <2>6, <2>7, <2>8, <2>9 DEF VerdictInv
<1>3. CASE UNCHANGED <<ep0, reap>> /\ Goto("Free")
  <2>1. me' = [NoCall EXCEPT !.pc = "Free"] BY <1>1, <1>3, Rests DEF Resting
  <2>2. me.pc \in Resting /\ "Free" \in Resting BY <1>1 DEF Resting
  <2> QED BY <1>1, <1>3, <2>1, <2>2, VRests
<1> QED BY <1>2, <1>3 DEF LastCancel

\* A drain gives up: the writes in flight are counted as failed, and as retired.
LEMMA VGiveUp == ASSUME CtrlInv, VerdictInv, NEW t \in Threads, GiveUp(t) PROVE VerdictInv'
<1> DEFINE L == {w \in InFlight : ~ slot[w].is_read}
           R == {slot[w].op : w \in InFlight}
<1>1. /\ drain[t] = "Cancelled" /\ UNCHANGED <<slot, ep0, reap, cb, me, sends>>
      /\ pool' = [pool EXCEPT !.abandoned = TRUE, !.write_errors = @ + Cardinality(L)]
      /\ batch' = [batch EXCEPT !.pipelined = FALSE]
      /\ seen' = [seen EXCEPT !.retired = @ \cup R] /\ drain' = [drain EXCEPT ![t] = "No"]
  BY DEF GiveUp
<1>2. /\ Cardinality(L) \in Nat /\ (Cardinality(L) = 0 <=> L = {})
  <2>1. L \subseteq InFlight /\ IsFiniteSet(InFlight) BY Before, Parts
  <2> QED BY <2>1, FS_Subset, FS_CardinalityType, FS_EmptySet
<1>3. \A w \in L : slot[w].op \in R OBVIOUS
<1>4. /\ \A w \in Out : Counts(w) => w \in L BY VTypes DEF Counts
<1>5. \A w \in L : w \in InFlight /\ ~ slot[w].is_read OBVIOUS
<1> HIDE DEF L, R
<1>6. /\ pool'.abandoned = TRUE /\ pool'.write_errors = pool.write_errors + Cardinality(L)
      /\ pool'.generation = pool.generation
  BY <1>1, Before, Parts DEF PoolType
<1>7. /\ batch'.pipelined = FALSE /\ batch'.depth = batch.depth /\ batch'.ops = batch.ops
  BY <1>1, Before, Parts DEF BatchType
<1>8. /\ seen'.retired = seen.retired \cup R /\ seen'.done = seen.done /\ seen'.next = seen.next
  BY <1>1, Before, Parts DEF SeenType
<1>9. drain \in [Threads -> {"No", "Enter", "Wait", "Cancelled"}] /\ {"caller", "sender"} = Threads
  BY Before, Parts DEF Threads
<1>10. /\ drain'["sender"] \in {drain["sender"], "No"}
       /\ drain'["caller"] \in {drain["caller"], "No"}
       /\ drain'[t] = "No"
  BY <1>1, <1>9
<1>11. Filled' = Filled BY <1>1 DEF Filled
<1>12. batch.depth > 0 => t = "caller" /\ ~ pool.abandoned BY <1>1, <1>9, VParts DEF ModeInv
<1>13. ModeInv'
  <2>1. batch.depth > 0 => me.pc \notin {"Take", "Fill", "Submit"}
    BY <1>1, <1>12, VParts DEF ModeInv
  <2>2. batch.depth > 0 => drain'["caller"] = "No" BY <1>10, <1>12
  <2> QED BY <1>1, <1>6, <1>7, <1>8, <1>10, <1>11, <2>1, <2>2, VParts DEF ModeInv
<1>14. DoneInv' BY <1>1, <1>8, DoneKept
<1>15. GroupInv' BY <1>1, <1>8, GroupKept
<1>16. FlightInv' BY <1>6 DEF FlightInv
<1>17. TallyInv'
  <2> SUFFICES ASSUME batch.depth > 0 PROVE TallyInv' BY <1>7 DEF TallyInv
  <2>1. OutWrites' = OutWrites /\ QueueOps' = QueueOps /\ FailedWrites' = FailedWrites
    BY <1>1, <1>6, SameOut
  <2>2. OpIds' = OpIds /\ MyWrites' = MyWrites BY <1>1 DEF OpIds, MyWrites
  <2>3. Reached' = Reached BY <1>8, <2>1, <2>2 DEF Reached
  <2>4. /\ OutWrites \cup MyWrites \subseteq batch.ops /\ OutWrites \cap OpIds = {}
        /\ FailedWrites \cap Reached = {}
        /\ pool.write_errors > 0 => \E o \in batch.ops : o \in seen.retired \/ o \notin Reached
        /\ pool.write_errors = 0 => batch.ops \subseteq seen.done \cup OutWrites \cup MyWrites
    BY VParts DEF TallyInv
  <2>5. OutWrites # {} => L # {} BY <1>4 DEF OutWrites
  <2>6. OutWrites' # {} => pool'.write_errors > 0 BY <1>2, <1>6, <2>1, <2>5, VTypes
  <2>7. L # {} => \E o \in batch.ops : o \in seen'.retired
    <3> SUFFICES ASSUME NEW w \in L PROVE slot[w].op \in batch.ops /\ slot[w].op \in seen'.retired
      OBVIOUS
    <3>1. slot[w].op \in batch.ops BY <1>5, <1>12, VParts DEF FlightInv, ModeInv
    <3> QED BY <1>3, <1>8, <3>1
  <2>8. pool'.write_errors > 0 => \E o \in batch'.ops : o \in seen'.retired \/ o \notin Reached'
    <3>1. CASE L = {}
      <4>1. pool'.write_errors = pool.write_errors BY <3>1, <1>2, <1>6, VTypes
      <4> QED BY <4>1, <1>7, <1>8, <2>3, <2>4
    <3> QED BY <3>1, <2>7, <1>7
  <2>9. pool'.write_errors = 0 => pool.write_errors = 0 BY <1>2, <1>6, VTypes
  <2> QED BY <1>7, <1>8, <2>1, <2>2, <2>3, <2>4, <2>6, <2>8, <2>9 DEF TallyInv
<1> QED BY <1>13, <1>14, <1>15, <1>16, <1>17 DEF VerdictInv

\* The call moves on, and nothing is submitted or collected.
LEMMA VMoves ==
    ASSUME CtrlInv, VerdictInv, NEW p, me.pc \notin Resting \cup {"Submit"},
           p \notin Resting \cup {"Submit"},
           me'.pc = p, me'.ops = me.ops, me'.used = me.used, me'.i = me.i,
           me'.group = me.group, me'.first = me.first, me'.ok => me.ok,
           UNCHANGED <<pool, slot, ep0, reap, batch, seen>>,
           drain'["sender"] = drain["sender"],
           drain'["caller"] \in {"No", "Enter"},
           drain'["caller"] # "No" => p \in {"TakeDrained", "AwaitDrained"},
           p = "AwaitDrained" => drain'["caller"] # "No",
           p \in {"Take", "Fill"} => me.group \/ me.pc \in {"Take", "Fill"} \/ ~ pool.abandoned,
           me.group \/ me.pc # "Sync", p = "Sync" /\ me.group => me.used = <<>>
    PROVE  VerdictInv'
<1>1. Filled = {} /\ Filled' = {} /\ InFlight' = InFlight BY DEF Filled, InFlight
<1>2. ModeInv' BY <1>1, VParts DEF ModeInv, Resting
<1>3. DoneInv' BY DoneKept
<1>4. GroupInv' BY GroupKept
<1>5. FlightInv' BY <1>1, FlightKept DEF Resting
<1>6. TallyInv' BY TallySame
<1> QED BY <1>2, <1>3, <1>4, <1>5, <1>6 DEF VerdictInv

\* A slot leaves the free list.
LEMMA VTakeSlot ==
    ASSUME CtrlInv, VerdictInv, NEW p \in {"Acquire", "Fill"}, TakeSlot(p),
           me.pc = "Acquire" \/ (me.pc = "Take" /\ p = "Fill"),
           UNCHANGED <<ep0, reap, cb, batch, drain, sends, seen>>, drain["caller"] = "No"
    PROVE  VerdictInv'
<1> DEFINE w == pool.free[Len(pool.free)]
<1>1. /\ pool.free # <<>> /\ pool' = [pool EXCEPT !.free = SubSeq(@, 1, Len(@) - 1)]
      /\ slot' = [slot EXCEPT ![w].done = FALSE, ![w].inflight = FALSE, ![w].ok = FALSE]
      /\ me' = [me EXCEPT !.pc = p, !.taken = Append(@, w)]
  BY DEF TakeSlot
<1>2. w \in Slots BY <1>1, FrontElems, Before, Parts DEF PlaceInv
<1> HIDE DEF w
<1>3. /\ me'.pc = p /\ me'.i = me.i /\ me'.used = me.used /\ me'.ops = me.ops
      /\ me'.group = me.group /\ me'.first = me.first /\ me'.ok = me.ok
  BY <1>1, Before, Parts DEF MeType
<1>4. /\ pool'.abandoned = pool.abandoned /\ pool'.write_errors = pool.write_errors
      /\ pool'.generation = pool.generation
  BY <1>1, Before, Parts DEF PoolType
<1>5. /\ \A v \in Slots : /\ slot'[v].op = slot[v].op /\ slot'[v].is_read = slot[v].is_read
                          /\ slot'[v].gen = slot[v].gen /\ slot'[v].answer = slot[v].answer
      /\ \A v \in Slots : slot'[v].inflight => slot[v].inflight
  <2> DEFINE x == [slot[w] EXCEPT !.done = FALSE, !.inflight = FALSE, !.ok = FALSE]
  <2>1. slot[w] \in SlotType BY <1>2, VTypes
  <2>2. /\ x.op = slot[w].op /\ x.is_read = slot[w].is_read /\ x.gen = slot[w].gen
        /\ x.answer = slot[w].answer /\ x.inflight = FALSE
    BY <2>1 DEF SlotType
  <2>3. slot' = [slot EXCEPT ![w] = x] BY <1>1, <1>2, Before, Parts
  <2> HIDE DEF x
  <2>4. slot'[w] = x /\ \A v \in Slots : v # w => slot'[v] = slot[v]
    BY <1>2, <2>3, Before, Parts
  <2> QED BY <2>2, <2>4
<1>6. Filled = {} /\ Filled' = {} /\ InFlight' \subseteq InFlight /\ Out \subseteq Slots
  BY <1>3, <1>5, VTypes DEF Filled, InFlight
<1>7. me.pc = "Acquire" => me.group BY Parts DEF CallInv
<1>8. ModeInv' BY <1>3, <1>4, <1>5, <1>6, <1>7, VParts DEF ModeInv, Resting
<1>9. DoneInv' BY <1>5, DoneKept
<1>10. GroupInv' BY <1>3, GroupKept
<1>11. FlightInv' BY <1>3, <1>4, <1>5, <1>6, FlightKept
<1>12. TallyInv' BY <1>3, <1>4, <1>5, <1>6, TallySame
<1> QED BY <1>8, <1>9, <1>10, <1>11, <1>12 DEF VerdictInv

\* A group takes its slots.
LEMMA VAcquire == ASSUME CtrlInv, VerdictInv, Acquire PROVE VerdictInv'
<1>1. /\ me.pc = "Acquire" /\ drain["caller"] = "No"
      /\ UNCHANGED <<ep0, reap, cb, batch, drain, sends, seen>>
  BY DEF Acquire, At
<1>2. me.group BY <1>1, Parts DEF CallInv
<1>3. CASE TakeSlot("Acquire") BY <1>1, <1>3, VTakeSlot
<1>4. ASSUME NEW p \in {"Sync", "Take", "Fill"}, Goto(p), UNCHANGED <<pool, slot>>
      PROVE  VerdictInv'
  <2>1. /\ me'.pc = p /\ me'.i = me.i /\ me'.used = me.used /\ me'.ops = me.ops
        /\ me'.group = me.group /\ me'.first = me.first /\ me'.ok = me.ok
    BY <1>4, Before, Parts DEF MeType, Goto
  <2>2. me.pc \notin Resting \cup {"Submit"} /\ p \notin Resting \cup {"Submit"}
    BY <1>1 DEF Resting
  <2>3. me.used = <<>> BY <1>1, Parts DEF CallInv
  <2> QED BY <1>1, <1>2, <1>4, <2>1, <2>2, <2>3, VMoves
<1>5. \/ TakeSlot("Acquire")
      \/ \E p \in {"Sync", "Take", "Fill"} : Goto(p) /\ UNCHANGED <<pool, slot>>
  BY DEF Acquire
<1> QED BY <1>3, <1>4, <1>5

\* async_take_slot takes a slot, or drains.
LEMMA VTake == ASSUME CtrlInv, VerdictInv, Take PROVE VerdictInv'
<1>1. /\ me.pc = "Take" /\ drain["caller"] = "No"
      /\ UNCHANGED <<ep0, reap, cb, batch, sends, seen>>
  BY DEF Take, At
<1>2. CASE TakeSlot("Fill") /\ UNCHANGED drain BY <1>1, <1>2, VTakeSlot
<1>3. CASE ThenDrain("TakeDrained") /\ UNCHANGED <<pool, slot>>
  <2>1. /\ me'.pc = "TakeDrained" /\ me'.i = me.i /\ me'.used = me.used /\ me'.ops = me.ops
        /\ me'.group = me.group /\ me'.first = me.first /\ me'.ok = me.ok
    BY <1>3, Before, Parts DEF MeType, Goto, ThenDrain
  <2>2. drain'["caller"] = "Enter" /\ drain'["sender"] = drain["sender"]
    BY <1>3, Before, Parts DEF Threads, ThenDrain
  <2>3. me.pc \notin Resting \cup {"Submit"} /\ "TakeDrained" \notin Resting \cup {"Submit"}
    BY <1>1 DEF Resting
  <2> QED BY <1>1, <1>3, <2>1, <2>2, <2>3, VMoves
<1> QED BY <1>2, <1>3 DEF Take

\* After the drain it takes a slot again, or goes on synchronously.
LEMMA VTakeDrained == ASSUME CtrlInv, VerdictInv, TakeDrained PROVE VerdictInv'
<1>1. /\ me.pc = "TakeDrained" /\ drain["caller"] = "No"
      /\ UNCHANGED <<pool, slot, ep0, reap, cb, batch, drain, sends, seen>>
  BY DEF TakeDrained, At
<1>2. me.pc \notin Resting \cup {"Submit"} /\ "Take" \notin Resting \cup {"Submit"}
      /\ "Sync" \notin Resting \cup {"Submit"}
  BY <1>1 DEF Resting
<1>3. CASE ~ pool.abandoned /\ me' = [me EXCEPT !.pc = "Take"]
  <2>1. /\ me'.pc = "Take" /\ me'.i = me.i /\ me'.used = me.used /\ me'.ops = me.ops
        /\ me'.group = me.group /\ me'.first = me.first /\ me'.ok = me.ok
    BY <1>3, Before, Parts DEF MeType
  <2> QED BY <1>1, <1>2, <1>3, <2>1, VMoves
<1>4. CASE me' = [me EXCEPT !.pc = "Sync", !.ok = FALSE]
  <2>1. /\ me'.pc = "Sync" /\ me'.i = me.i /\ me'.used = me.used /\ me'.ops = me.ops
        /\ me'.group = me.group /\ me'.first = me.first /\ me'.ok = FALSE
    BY <1>4, Before, Parts DEF MeType
  <2>2. me.used = <<>> BY <1>1, Parts DEF CallInv
  <2> QED BY <1>1, <1>2, <2>1, <2>2, VMoves
<1> QED BY <1>3, <1>4 DEF TakeDrained

\* What failed is out.
LEMMA FailedOut == ASSUME CtrlInv PROVE FailedWrites \subseteq OutWrites
<1> SUFFICES ASSUME NEW i \in Failed PROVE slot[reap[i].slot].op \in OutWrites
  BY DEF FailedWrites
<1>1. reap[i].slot \in Out /\ Counts(reap[i].slot) BY VTypes DEF Failed
<1> QED BY <1>1 DEF OutWrites

\* A register access begins, and a write of the batch is in its accounts at once.
LEMMA VRegister == ASSUME CtrlInv, VerdictInv, Register PROVE VerdictInv'
<1>1. /\ me.pc = "Idle" /\ drain["caller"] = "No" /\ seen.next <= MaxOps
      /\ seen' = [seen EXCEPT !.next = @ + 1]
      /\ UNCHANGED <<pool, slot, ep0, reap, cb, drain, sends>>
  BY DEF Register, At
<1>2. PICK reads \in SUBSET {1} :
         /\ me' = [NoCall EXCEPT !.pc = IF batch.pipelined THEN "Take" ELSE "Sync",
                                 !.ops = Fresh(1, reads)]
         /\ batch' = [batch EXCEPT !.ops = IF reads = {} /\ batch.depth > 0
                                           THEN @ \cup {seen.next} ELSE @]
  BY DEF Register
<1>3. /\ seen'.next = seen.next + 1 /\ seen'.done = seen.done /\ seen'.retired = seen.retired
  BY <1>1, Before, Parts DEF SeenType
<1>4. /\ me'.pc = (IF batch.pipelined THEN "Take" ELSE "Sync") /\ me'.ops = Fresh(1, reads)
      /\ me'.group = FALSE /\ me'.used = <<>>
  BY <1>2 DEF NoCall
<1>5. /\ batch'.ops = (IF reads = {} /\ batch.depth > 0 THEN batch.ops \cup {seen.next} ELSE batch.ops)
      /\ batch'.depth = batch.depth /\ batch'.pipelined = batch.pipelined
  BY <1>2, Before, Parts DEF BatchType
<1>6. /\ ~ me.group /\ Filled = {} /\ DOMAIN me.ops = {}
  <2>1. me = [NoCall EXCEPT !.pc = "Idle"] BY <1>1, Parts DEF CallInv
  <2> QED BY <2>1, AtRest
<1>7. DOMAIN me'.ops = {1} /\ me'.ops[1].id = seen.next /\ (me'.ops[1].read <=> 1 \in reads)
  <2>1. Fresh(1, reads) = [k \in 1 .. 1 |-> [id |-> seen.next + k - 1, read |-> k \in reads]]
    BY DEF Fresh
  <2>2. 1 .. 1 = {1} /\ seen.next + 1 - 1 = seen.next BY VTypes
  <2>3. Fresh(1, reads)[1] = [id |-> seen.next, read |-> 1 \in reads] BY <2>1, <2>2
  <2>4. DOMAIN Fresh(1, reads) = {1} BY <2>1, <2>2
  <2>5. Fresh(1, reads)[1].id = seen.next /\ (Fresh(1, reads)[1].read <=> 1 \in reads)
    <3> DEFINE r == 1 \in reads
    <3>1. Fresh(1, reads)[1] = [id |-> seen.next, read |-> r] BY <2>3
    <3> HIDE DEF r
    <3>2. Fresh(1, reads)[1].id = seen.next /\ Fresh(1, reads)[1].read = r BY <3>1
    <3> QED BY <3>2 DEF r
  <2> QED BY <1>4, <2>4, <2>5
<1>8. Filled' = {} /\ InFlight' = InFlight BY <1>1, <1>4 DEF Filled, InFlight
<1>9. ModeInv'
  <2>1. \A o \in batch'.ops : o < seen'.next BY <1>3, <1>5, VTypes, VParts DEF ModeInv
  <2>2. me'.pc = "Take" => batch.pipelined BY <1>4
  <2> QED BY <1>1, <1>4, <1>5, <1>6, <1>8, <2>1, <2>2, VParts DEF ModeInv, Resting
<1>10. DoneInv' BY <1>1, <1>3, DoneKept
<1>11. GroupInv' BY <1>4 DEF GroupInv
<1>12. FlightInv'
  <2>1. batch.ops \subseteq batch'.ops BY <1>5
  <2>2. me'.pc \notin {"AwaitDrained", "End"} BY <1>4
  <2> QED BY <1>1, <1>5, <1>6, <1>8, <2>1, <2>2, VParts DEF FlightInv
<1>13. TallyInv'
  <2> SUFFICES ASSUME batch.depth > 0 PROVE TallyInv' BY <1>5 DEF TallyInv
  <2>1. OutWrites' = OutWrites /\ QueueOps' = QueueOps /\ FailedWrites' = FailedWrites
    BY <1>1, SameOut
  <2>2. OpIds = {} /\ MyWrites = {} BY <1>6 DEF OpIds, MyWrites
  <2>3. OpIds' = {seen.next} BY <1>7 DEF OpIds
  <2>4. MyWrites' = IF 1 \in reads THEN {} ELSE {seen.next} BY <1>7 DEF MyWrites
  <2>5. reads = {} <=> 1 \notin reads OBVIOUS
  <2>6. seen.next \notin batch.ops BY VTypes, VParts DEF ModeInv
  <2>7. Reached' = Reached \cup {seen.next} BY <1>3, <2>1, <2>2, <2>3 DEF Reached
  <2>8. /\ OutWrites \cup MyWrites \subseteq batch.ops /\ OutWrites \cap OpIds = {}
        /\ pool.abandoned /\ OutWrites # {} => pool.write_errors > 0
        /\ FailedWrites \cap Reached = {}
        /\ pool.write_errors > 0 => \E o \in batch.ops : o \in seen.retired \/ o \notin Reached
        /\ pool.write_errors = 0 => batch.ops \subseteq seen.done \cup OutWrites \cup MyWrites
    BY VParts DEF TallyInv
  <2>9. batch'.ops = batch.ops \cup MyWrites' BY <1>5, <2>4, <2>5
  <2>10. OutWrites' \cup MyWrites' \subseteq batch'.ops /\ OutWrites' \cap OpIds' = {}
    BY <2>1, <2>3, <2>6, <2>8, <2>9
  <2>11. FailedWrites' \cap Reached' = {} BY <2>1, <2>6, <2>7, <2>8, FailedOut
  <2>12. pool'.write_errors > 0 => \E o \in batch'.ops : o \in seen'.retired \/ o \notin Reached'
    BY <1>1, <1>3, <2>6, <2>7, <2>8, <2>9
  <2>13. pool'.write_errors = 0 => batch'.ops \subseteq seen'.done \cup OutWrites' \cup MyWrites'
    BY <1>1, <1>3, <2>1, <2>2, <2>8, <2>9
  <2> QED BY <1>1, <2>1, <2>8, <2>10, <2>11, <2>12, <2>13 DEF TallyInv
<1> QED BY <1>9, <1>10, <1>11, <1>12, <1>13 DEF VerdictInv

\* A group begins: it has gone past nothing.
LEMMA VCtrlBatch == ASSUME CtrlInv, VerdictInv, CtrlBatch PROVE VerdictInv'
<1>1. /\ me.pc = "Idle" /\ drain["caller"] = "No" /\ batch.depth = 0
      /\ UNCHANGED <<pool, slot, ep0, reap, cb, batch, drain, sends>>
  BY DEF CtrlBatch, At
<1>2. PICK n \in 1 .. MaxGroup : \E reads \in SUBSET (1 .. n) :
         /\ me' = [NoCall EXCEPT !.pc = IF pool.abandoned \/ ~ pool.built THEN "Sync" ELSE "Acquire",
                                 !.group = TRUE, !.ops = Fresh(n, reads),
                                 !.first = seen.next]
         /\ seen' = [seen EXCEPT !.next = @ + n]
  BY DEF CtrlBatch
<1>3. n \in Nat \ {0} BY CtrlAssumption DEF CtrlAssumption
<1>4. PICK reads \in SUBSET (1 .. n), p \in {"Sync", "Acquire"} :
         me' = [NoCall EXCEPT !.pc = p, !.group = TRUE, !.ops = Fresh(n, reads),
                              !.first = seen.next]
  BY <1>2
<1>5. /\ seen'.next = seen.next + n /\ seen'.done = seen.done
  BY <1>2, Before, Parts DEF SeenType
<1>6. /\ me'.pc = p /\ me'.ops = Fresh(n, reads) /\ me'.first = seen.next /\ me'.i = 1
  BY <1>4 DEF NoCall
<1>7. ~ me.group /\ Filled = {}
  <2>1. me = [NoCall EXCEPT !.pc = "Idle"] BY <1>1, Parts DEF CallInv
  <2> QED BY <2>1, AtRest
<1>8. me'.ops[1].id = seen.next
  <2>1. Fresh(n, reads) = [k \in 1 .. n |-> [id |-> seen.next + k - 1, read |-> k \in reads]]
    BY DEF Fresh
  <2>2. 1 \in 1 .. n /\ seen.next + 1 - 1 = seen.next BY <1>3, VTypes
  <2>3. Fresh(n, reads)[1].id = seen.next BY <2>1, <2>2
  <2> QED BY <1>6, <2>3
<1>9. Filled' = {} /\ InFlight' = InFlight BY <1>1, <1>6 DEF Filled, InFlight
<1>10. ModeInv'
  <2>1. \A o \in batch'.ops : o < seen'.next
    <3>1. \A o \in batch.ops : o \in Int /\ o < seen.next BY VTypes, VParts DEF ModeInv
    <3> QED BY <1>1, <1>3, <1>5, <3>1, VTypes
  <2>2. ~ (batch'.depth > 0) /\ me'.pc \in {"Sync", "Acquire"} BY <1>1, <1>6
  <2>3. (p = "Acquire" => me'.group) /\ me'.used = <<>> BY <1>4 DEF NoCall
  <2> QED BY <1>1, <1>6, <1>9, <2>1, <2>2, <2>3, VParts DEF ModeInv
<1>11. DoneInv' BY <1>1, <1>5, DoneKept
<1>12. GroupInv'
  <2>1. me'.first .. me'.ops[1].id - 1 = {} /\ 1 .. me'.i - 1 = {} BY <1>6, <1>8, VTypes
  <2> QED BY <2>1 DEF GroupInv
<1>13. FlightInv'
  <2>1. me'.pc \notin {"AwaitDrained", "End"} BY <1>6
  <2> QED BY <1>1, <1>7, <1>9, <2>1, VParts DEF FlightInv
<1>14. TallyInv' BY <1>1 DEF TallyInv
<1> QED BY <1>10, <1>11, <1>12, <1>13, <1>14 DEF VerdictInv

\* async_submit fills the slot in, in the generation of the batch.
LEMMA VFill == ASSUME CtrlInv, VerdictInv, Fill PROVE VerdictInv'
<1> DEFINE w == me.taken[me.i]
           a == me.ops[me.i]
<1>1. /\ me.pc = "Fill" /\ me' = [me EXCEPT !.pc = "Submit"] /\ drain["caller"] = "No"
      /\ slot' = [slot EXCEPT ![w] = [@ EXCEPT !.op = a.id, !.is_read = a.read,
                                      !.gen = pool.generation, !.inflight = TRUE, !.answer = 0]]
      /\ pool' = [pool EXCEPT !.inflight = @ + 1]
      /\ UNCHANGED <<ep0, reap, cb, batch, drain, sends, seen>>
  BY DEF Fill, At, Goto
<1>2. /\ w \in Hand /\ w \in Slots /\ a \in OpType /\ me.i \in DOMAIN me.ops BY <1>1, InTurn
<1>3. /\ me'.pc = "Submit" /\ me'.taken = me.taken /\ me'.i = me.i /\ me'.ok = me.ok
      /\ me'.used = me.used /\ me'.ops = me.ops /\ me'.group = me.group /\ me'.first = me.first
  BY <1>1, Before, Parts DEF MeType
<1>4. Filled' = {w} /\ Filled = {} /\ UsedSlots' = UsedSlots
  BY <1>1, <1>3 DEF Filled, UsedSlots
<1>5. w \notin Out BY <1>2, InHand, Parts DEF PlaceInv, Out
<1>6. a.read = FALSE => a.id \in MyWrites BY <1>2 DEF MyWrites
<1>7. /\ pool'.abandoned = pool.abandoned /\ pool'.write_errors = pool.write_errors
      /\ pool'.generation = pool.generation
  BY <1>1, Before, Parts DEF PoolType
<1>8. a.read \in BOOLEAN BY <1>2 DEF OpType
<1> HIDE DEF w, a
<1>9. /\ \A v \in Slots : v # w => slot'[v] = slot[v]
      /\ slot'[w].op = a.id /\ slot'[w].is_read = a.read /\ slot'[w].gen = pool.generation
      /\ slot'[w].answer = 0
  <2> DEFINE x == [slot[w] EXCEPT !.op = a.id, !.is_read = a.read, !.gen = pool.generation,
                                  !.inflight = TRUE, !.answer = 0]
  <2>1. slot[w] \in SlotType BY <1>2, VTypes
  <2>2. /\ x.op = a.id /\ x.is_read = a.read /\ x.gen = pool.generation /\ x.answer = 0
    BY <2>1 DEF SlotType
  <2>3. slot' = [slot EXCEPT ![w] = x] BY <1>1, <1>2, Before, Parts
  <2> HIDE DEF x
  <2>4. slot'[w] = x /\ \A v \in Slots : v # w => slot'[v] = slot[v]
    BY <1>2, <2>3, Before, Parts
  <2> QED BY <2>2, <2>4
<1>10. InFlight' \subseteq InFlight \cup {w} BY <1>9 DEF InFlight
<1>11. batch.depth > 0 \/ me.group BY <1>1, VTypes, VParts DEF ModeInv, Resting
<1>12. ModeInv'
  <2>1. \A v \in Slots : slot'[v].gen <= pool'.generation
    BY <1>2, <1>7, <1>9, VTypes, VParts DEF ModeInv
  <2> QED BY <1>1, <1>3, <1>4, <1>7, <1>9, <2>1, VParts DEF ModeInv, Resting
<1>13. DoneInv' BY <1>1, <1>9, VParts DEF DoneInv
<1>14. GroupInv' BY <1>1, <1>3, GroupKept
<1>15. FlightInv'
  <2> SUFFICES ASSUME ~ pool.abandoned, NEW v \in InFlight', ~ slot'[v].is_read
               PROVE  \/ batch.depth > 0 /\ slot'[v].op \in batch.ops
                      \/ me.group /\ v \in Filled' \cup UsedSlots
    BY <1>1, <1>3, <1>4, <1>7 DEF FlightInv
  <2>1. CASE v = w
    <3>1. a.id \in MyWrites BY <2>1, <1>6, <1>8, <1>9
    <3>2. batch.depth > 0 => a.id \in batch.ops BY <3>1, VParts DEF TallyInv
    <3> QED BY <2>1, <1>4, <1>9, <1>11, <3>2
  <2>2. CASE v # w
    <3>1. v \in InFlight /\ v \in Slots BY <2>2, <1>10, VTypes
    <3> QED BY <2>2, <3>1, <1>4, <1>9, VParts DEF FlightInv
  <2> QED BY <2>1, <2>2
<1>16. TallyInv'
  <2>1. \A v \in Out : slot'[v] = slot[v] BY <1>5, <1>9, VTypes
  <2> QED BY <1>1, <1>3, <1>7, <2>1, TallySame
<1> QED BY <1>12, <1>13, <1>14, <1>15, <1>16 DEF VerdictInv

\* Endpoint 0 has the slot: the write is out, or the group will collect it.
LEMMA VSubmitted ==
    ASSUME CtrlInv, VerdictInv, me.pc = "Submit", ep0' = Append(ep0, me.taken[me.i]),
           UNCHANGED <<pool, slot, reap, cb, batch, drain, sends, seen>>,
           me' = IF me.group \/ me.ops[me.i].read
                 THEN [me EXCEPT !.pc = IF me.i < Len(me.taken) THEN "Fill" ELSE "Await",
                                 !.i = @ + 1,
                                 !.used = Append(@, [op |-> me.ops[me.i], slot |-> me.taken[me.i]])]
                 ELSE NoCall
    PROVE  VerdictInv'
<1> DEFINE w == me.taken[me.i]
           a == me.ops[me.i]
           u == [op |-> a, slot |-> w]
           p == IF me.i < Len(me.taken) THEN "Fill" ELSE "Await"
<1>1. /\ w \in Hand /\ w \in Slots /\ a \in OpType /\ Filled = {w} /\ me.i \in DOMAIN me.ops
      /\ slot[w].op = a.id /\ slot[w].is_read = a.read /\ slot[w].gen = pool.generation
  <2>1. Filled = {w} BY DEF Filled
  <2> QED BY <2>1, InTurn, Parts, VParts DEF OrderInv, ModeInv
<1>2. /\ \A k \in DOMAIN me.used : k \in DOMAIN Append(me.used, u)
                                   /\ Append(me.used, u)[k] = me.used[k]
      /\ \E k \in DOMAIN Append(me.used, u) : Append(me.used, u)[k] = u
  <2>1. u \in [op : OpType, slot : Slots] BY <1>1
  <2> HIDE DEF u
  <2>2. /\ Append(me.used, u) \in Seq([op : OpType, slot : Slots])
        /\ Len(Append(me.used, u)) = Len(me.used) + 1 /\ Len(me.used) \in Nat
        /\ \A k \in 1 .. Len(me.used) : Append(me.used, u)[k] = me.used[k]
        /\ Append(me.used, u)[Len(me.used) + 1] = u
    <3>1. me.used \in Seq([op : OpType, slot : Slots]) BY Before, Parts
    <3> QED BY ONLY <2>1, <3>1, AppendProperties, LenProperties
  <2>3. DOMAIN me.used = 1 .. Len(me.used)
        /\ DOMAIN Append(me.used, u) = 1 .. Len(me.used) + 1
    <3>1. me.used \in Seq([op : OpType, slot : Slots]) BY Before, Parts
    <3> QED BY ONLY <2>2, <3>1, LenProperties
  <2>4. Len(me.used) + 1 \in DOMAIN Append(me.used, u) BY <2>2, <2>3
  <2> QED BY <2>2, <2>3, <2>4
<1>3. \/ /\ me'.pc = p /\ me'.i = me.i + 1 /\ me'.used = Append(me.used, u)
         /\ me'.ops = me.ops /\ me'.group = me.group /\ me'.ok = me.ok /\ me'.first = me.first
         /\ me.group \/ a.read
      \/ me' = NoCall /\ ~ me.group /\ ~ a.read
  <2>1. CASE me.group \/ a.read
    <3>1. me' = [me EXCEPT !.pc = p, !.i = @ + 1, !.used = Append(@, u)] BY <2>1
    <3> HIDE DEF u, p, a
    <3>2. /\ me'.pc = p /\ me'.i = me.i + 1 /\ me'.used = Append(me.used, u)
          /\ me'.ops = me.ops /\ me'.group = me.group /\ me'.ok = me.ok /\ me'.first = me.first
      BY <3>1, Before, Parts DEF MeType
    <3> QED BY <2>1, <3>2
  <2>2. CASE ~ (me.group \/ a.read) BY <2>2
  <2> QED BY <2>1, <2>2
<1>4. u.slot = w /\ u.op = a OBVIOUS
<1>5. p \in {"Fill", "Await"} OBVIOUS
<1>6. a.read \in BOOLEAN BY <1>1 DEF OpType
<1>7. ~ me.group => DOMAIN me.ops = {me.i}
  <2>1. ~ me.group => Len(me.ops) <= 1 BY Parts DEF CallInv
  <2> QED BY <1>1, <2>1, Before, Parts
<1>8. a.id \in OpIds /\ (a.read = FALSE => a.id \in MyWrites) BY <1>1 DEF OpIds, MyWrites
<1>9. ~ me.group => OpIds = {a.id} BY <1>7 DEF OpIds
<1> HIDE DEF w, a, u, p
<1>10. /\ me' = NoCall => /\ me'.pc = "Idle" /\ me'.group = FALSE /\ me'.used = <<>>
                         /\ DOMAIN me'.ops = {}
  BY Returned
<1>11. me'.pc \in {"Fill", "Await", "Idle"} /\ (me'.pc = "Idle" <=> me' = NoCall)
  BY <1>3, <1>5, <1>10
<1>12. Filled' = {} /\ InFlight' = InFlight BY <1>11 DEF Filled, InFlight
<1>13. Elems(ep0') = Elems(ep0) \cup {w} BY <1>1, AppendElems, Before, Parts DEF w
<1>14. drain["caller"] = "No" BY Before, Parts, VParts DEF ModeInv, Threads
<1>15. me.group \/ batch.depth > 0 BY VTypes, VParts DEF ModeInv, Resting
<1>16. ModeInv'
  <2>1. me'.group => me.group BY <1>3, <1>10
  <2>2. batch.depth = 0 /\ ~ me'.group => me'.pc \in Resting
    <3>1. batch.depth = 0 => me.group BY <1>15
    <3> QED BY <3>1, <1>3, <1>10, <1>11 DEF Resting
  <2> QED BY <1>11, <1>12, <1>14, <2>1, <2>2, VParts DEF ModeInv
<1>17. DoneInv' BY DoneKept
<1>18. GroupInv'
  <2> SUFFICES ASSUME me'.group, me'.ok PROVE GroupInv' BY DEF GroupInv
  <2>1. /\ me'.i = me.i + 1 /\ me'.used = Append(me.used, u)
        /\ me'.ops = me.ops /\ me.group /\ me.ok /\ me'.first = me.first
    BY <1>3, <1>10
  <2>2. \A k \in 1 .. me'.i - 1 : \/ me.ops[k].id \in seen.done
                                  \/ \E j \in DOMAIN me'.used : me'.used[j].op.id = me.ops[k].id
    <3> SUFFICES ASSUME NEW k \in 1 .. me'.i - 1, me.ops[k].id \notin seen.done
                 PROVE  \E j \in DOMAIN me'.used : me'.used[j].op.id = me.ops[k].id
      OBVIOUS
    <3>1. CASE k = me.i
      <4>1. PICK j \in DOMAIN me'.used : me'.used[j] = u BY <1>2, <2>1
      <4> QED BY <1>4, <3>1, <4>1 DEF a
    <3>2. CASE k # me.i
      <4>1. k \in 1 .. me.i - 1 BY <2>1, <3>2, Before, Parts
      <4>2. PICK j \in DOMAIN me.used : me.used[j].op.id = me.ops[k].id
        BY <2>1, <4>1, VParts DEF GroupInv
      <4> QED BY <1>2, <2>1, <4>2
    <3> QED BY <3>1, <3>2
  <2> QED BY <2>1, <2>2, VParts DEF GroupInv
<1>19. FlightInv'
  <2> SUFFICES ASSUME ~ pool.abandoned, NEW v \in InFlight, ~ slot[v].is_read
               PROVE  \/ batch.depth > 0 /\ slot[v].op \in batch.ops
                      \/ me'.group /\ v \in UsedSlots'
    BY <1>11, <1>12 DEF FlightInv
  <2>1. \/ batch.depth > 0 /\ slot[v].op \in batch.ops
        \/ me.group /\ v \in Filled \cup UsedSlots
    BY VParts DEF FlightInv
  <2>2. ASSUME me.group PROVE me'.group /\ Filled \cup UsedSlots \subseteq UsedSlots'
    <3>1. me'.used = Append(me.used, u) /\ me'.group BY <1>3, <2>2
    <3>2. w \in UsedSlots' BY <1>2, <1>4, <3>1 DEF UsedSlots
    <3>3. UsedSlots \subseteq UsedSlots' BY <1>2, <3>1 DEF UsedSlots
    <3> QED BY <1>1, <3>1, <3>2, <3>3
  <2> QED BY <2>1, <2>2
<1>20. TallyInv'
  <2> SUFFICES ASSUME batch.depth > 0 PROVE TallyInv' BY DEF TallyInv
  <2>1. ~ me.group /\ ~ pool.abandoned /\ OpIds = {a.id}
    BY <1>9, VTypes, VParts DEF ModeInv
  <2>2. Out' = Out \cup {w} BY <1>13 DEF Out, Waiting
  <2>3. Counts(w) <=> ~ a.read BY <1>1 DEF Counts
  <2>4. OutWrites' = OutWrites \cup (IF a.read THEN {} ELSE {a.id})
    BY <1>1, <2>2, <2>3 DEF OutWrites, Counts
  <2>5. QueueOps' = QueueOps \cup {a.id} BY <1>1, <1>13 DEF QueueOps
  <2>6. FailedWrites' = FailedWrites BY DEF FailedWrites, Failed, Counts
  <2>7. OpIds' \subseteq OpIds BY <1>3, <1>10 DEF OpIds
  <2>8. Reached' \subseteq Reached BY <1>8, <2>5, <2>7 DEF Reached
  <2>9. /\ OutWrites \cup MyWrites \subseteq batch.ops /\ OutWrites \cap OpIds = {}
        /\ FailedWrites \cap Reached = {}
        /\ pool.write_errors > 0 => \E o \in batch.ops : o \in seen.retired \/ o \notin Reached
        /\ pool.write_errors = 0 => batch.ops \subseteq seen.done \cup OutWrites \cup MyWrites
    BY VParts DEF TallyInv
  <2>10. CASE a.read
    <3>1. OutWrites' = OutWrites BY <2>4, <2>10
    <3>2. me'.ops = me.ops BY <1>3, <2>10
    <3>3. MyWrites' = MyWrites BY <3>2 DEF MyWrites
    <3> QED BY <2>1, <2>6, <2>7, <2>8, <2>9, <3>1, <3>3 DEF TallyInv
  <2>11. CASE ~ a.read
    <3>1. me' = NoCall BY <1>3, <2>1, <2>11
    <3>2. OpIds' = {} /\ MyWrites' = {} BY <1>10, <3>1 DEF OpIds, MyWrites
    <3>3. MyWrites \subseteq {a.id} BY <2>1 DEF MyWrites, OpIds
    <3>4. OutWrites' = OutWrites \cup {a.id} /\ a.id \in MyWrites
      BY <1>6, <1>8, <2>4, <2>11
    <3> QED BY <2>1, <2>6, <2>8, <2>9, <3>2, <3>3, <3>4 DEF TallyInv
  <2> QED BY <2>10, <2>11
<1> QED BY <1>16, <1>17, <1>18, <1>19, <1>20 DEF VerdictInv

\* A refused submission: the call has failed, or goes on synchronously.
LEMMA VRefused ==
    ASSUME CtrlInv, VerdictInv, me.pc = "Submit",
           slot' = [slot EXCEPT ![me.taken[me.i]].inflight = FALSE],
           pool' = [pool EXCEPT !.inflight = @ - 1, !.free = Append(@, me.taken[me.i])],
           me' = [me EXCEPT !.pc = IF me.group THEN IF me.i < Len(me.taken) THEN "Fill" ELSE "Await"
                                   ELSE "Sync",
                            !.i = @ + 1, !.ok = FALSE],
           UNCHANGED <<ep0, reap, cb, batch, drain, sends, seen>>
    PROVE  VerdictInv'
<1> DEFINE w == me.taken[me.i]
<1>1. w \in Slots /\ Filled = {w} BY InTurn DEF Filled
<1>2. PICK p \in {"Fill", "Await", "Sync"} :
         /\ me' = [me EXCEPT !.pc = p, !.i = @ + 1, !.ok = FALSE]
         /\ p = "Sync" <=> ~ me.group
  OBVIOUS
<1>3. /\ me'.pc = p /\ me'.used = me.used /\ me'.ops = me.ops /\ me'.group = me.group
      /\ me'.ok = FALSE
  BY <1>2, Before, Parts DEF MeType
<1>4. /\ pool'.abandoned = pool.abandoned /\ pool'.write_errors = pool.write_errors
      /\ pool'.generation = pool.generation
  BY Before, Parts DEF PoolType
<1> HIDE DEF w
<1>5. /\ \A v \in Slots : /\ slot'[v].op = slot[v].op /\ slot'[v].is_read = slot[v].is_read
                          /\ slot'[v].gen = slot[v].gen /\ slot'[v].answer = slot[v].answer
      /\ \A v \in Slots : slot'[v].inflight => slot[v].inflight /\ v # w
  <2> DEFINE x == [slot[w] EXCEPT !.inflight = FALSE]
  <2>1. slot[w] \in SlotType BY <1>1, VTypes
  <2>2. /\ x.op = slot[w].op /\ x.is_read = slot[w].is_read /\ x.gen = slot[w].gen
        /\ x.answer = slot[w].answer /\ x.inflight = FALSE
    BY <2>1 DEF SlotType
  <2>3. slot' = [slot EXCEPT ![w] = x] BY <1>1, Before, Parts DEF w
  <2> HIDE DEF x
  <2>4. slot'[w] = x /\ \A v \in Slots : v # w => slot'[v] = slot[v]
    BY <1>1, <2>3, Before, Parts
  <2> QED BY <2>2, <2>4
<1>6. InFlight' \subseteq InFlight \ {w} BY <1>5 DEF InFlight
<1>7. Filled' = {} /\ UsedSlots' = UsedSlots BY <1>3 DEF Filled, UsedSlots
<1>8. drain["caller"] = "No" BY Before, Parts, VParts DEF ModeInv, Threads
<1>9. ModeInv' BY <1>2, <1>3, <1>4, <1>5, <1>7, <1>8, VParts DEF ModeInv, Resting
<1>10. DoneInv' BY <1>5, DoneKept
<1>11. GroupInv' BY <1>3 DEF GroupInv
<1>12. FlightInv'
  <2> SUFFICES ASSUME ~ pool.abandoned, NEW v \in InFlight', ~ slot'[v].is_read
               PROVE  \/ batch.depth > 0 /\ slot'[v].op \in batch.ops
                      \/ me.group /\ v \in UsedSlots
    BY <1>3, <1>4, <1>7 DEF FlightInv
  <2>1. v \in InFlight /\ v \in Slots /\ v # w BY <1>6, VTypes
  <2> QED BY <1>1, <1>5, <2>1, VParts DEF FlightInv
<1>13. TallyInv' BY <1>3, <1>4, <1>5, VTypes, TallySame
<1> QED BY <1>9, <1>10, <1>11, <1>12, <1>13 DEF VerdictInv

\* async_submit.
LEMMA VSubmit == ASSUME CtrlInv, VerdictInv, Submit PROVE VerdictInv'
<1>1. me.pc = "Submit" /\ UNCHANGED <<reap, cb, batch, drain, sends, seen>> BY DEF Submit, At
<1>2. CASE /\ ep0' = Append(ep0, me.taken[me.i])
           /\ me' = IF me.group \/ me.ops[me.i].read
                    THEN [me EXCEPT !.pc = IF me.i < Len(me.taken) THEN "Fill" ELSE "Await",
                                    !.i = @ + 1,
                                    !.used = Append(@, [op |-> me.ops[me.i], slot |-> me.taken[me.i]])]
                    ELSE NoCall
           /\ UNCHANGED <<pool, slot>>
  BY ONLY CtrlInv, VerdictInv, <1>1, <1>2, VSubmitted
<1>3. CASE /\ slot' = [slot EXCEPT ![me.taken[me.i]].inflight = FALSE]
           /\ pool' = [pool EXCEPT !.inflight = @ - 1, !.free = Append(@, me.taken[me.i])]
           /\ me' = [me EXCEPT !.pc = IF me.group
                                      THEN IF me.i < Len(me.taken) THEN "Fill" ELSE "Await"
                                      ELSE "Sync",
                               !.i = @ + 1, !.ok = FALSE]
           /\ ep0' = ep0
  BY ONLY CtrlInv, VerdictInv, <1>1, <1>3, VRefused
<1> QED BY <1>2, <1>3 DEF Submit

\* An answer is collected, which the device gave, or the access has failed.
LEMMA VCollect ==
    ASSUME CtrlInv, VerdictInv, Collect, me.pc \in {"Await", "AwaitDrained"}, me.used # <<>>,
           drain["caller"] = "No", me.pc = "Await" => slot[Head(me.used).slot].done,
           UNCHANGED <<pool, slot, ep0, reap, cb, batch, drain, sends, seen>>
    PROVE  VerdictInv'
<1> DEFINE u == Head(me.used)
           w == u.slot
           good == slot[w].done /\ slot[w].ok
<1>1. Hand = {} /\ Filled = {} /\ InFlight' = InFlight BY EmptyHand DEF Filled, InFlight
<1>2. 1 \in DOMAIN me.used /\ u = me.used[1] BY TailIndex, Before, Parts
<1>3. w \in Slots /\ u.op.id \in Ops /\ slot[w].op = u.op.id
  <2>1. me.used[1] \in [op : OpType, slot : Slots]
    BY <1>2, Before, Parts, LenProperties, ElementOfSeq
  <2>2. u.op \in OpType /\ w \in Slots BY <1>2, <2>1
  <2>3. u.op.id \in Ops BY <2>2 DEF OpType
  <2> QED BY <1>2, <2>2, <2>3, Parts DEF AnswerInv
<1>4. good => u.op.id \in seen.done
  <2> SUFFICES ASSUME good PROVE u.op.id \in seen.done OBVIOUS
  <2>1. slot[w].answer = u.op.id BY <1>3, Parts DEF AnswerInv
  <2>2. u.op.id # 0 BY <1>3, CtrlAssumption DEF Ops, CtrlAssumption
  <2> QED BY <1>3, <2>1, <2>2, VParts DEF DoneInv
<1>5. ~ pool.abandoned => w \notin InFlight
  <2>1. CASE slot[w].done BY <1>1, <2>1, Parts DEF FlagInv, AnswerInv
  <2>2. CASE me.pc = "AwaitDrained" BY <2>2, VParts DEF FlightInv
  <2> QED BY <2>1, <2>2
<1>6. me.group \/ batch.depth > 0 BY VTypes, VParts DEF ModeInv, Resting
<1>7. DoneInv' BY DoneKept
<1>8. CASE me.group
  <2>1. PICK b \in BOOLEAN : /\ me' = [me EXCEPT !.pc = "Await", !.used = Tail(@), !.ok = b]
                             /\ b => me.ok /\ good
    <3>1. me' = [me EXCEPT !.pc = "Await", !.used = Tail(@), !.ok = @ /\ good]
      BY <1>8 DEF Collect
    <3>2. (me.ok /\ good) \in BOOLEAN OBVIOUS
    <3> QED BY <3>1, <3>2
  <2>2. /\ me'.pc = "Await" /\ me'.i = me.i /\ me'.first = me.first /\ me'.ok = b
        /\ me'.used = Tail(me.used) /\ me'.ops = me.ops /\ me'.group = me.group
    BY <2>1, Before, Parts DEF MeType
  <2> HIDE DEF good, w, u
  <2>3. \A k \in DOMAIN me.used :
           me.used[k] = u \/ \E j \in DOMAIN Tail(me.used) : Tail(me.used)[j] = me.used[k]
    <3> SUFFICES ASSUME NEW k \in DOMAIN me.used, k # 1
                 PROVE  \E j \in DOMAIN Tail(me.used) : Tail(me.used)[j] = me.used[k]
      BY <1>2
    <3>1. /\ Tail(me.used) \in Seq([op : OpType, slot : Slots])
          /\ Len(Tail(me.used)) = Len(me.used) - 1
          /\ \A i \in 1 .. Len(Tail(me.used)) : Tail(me.used)[i] = me.used[i + 1]
      BY HeadTailProperties, Before, Parts
    <3>2. DOMAIN me.used = 1 .. Len(me.used) /\ Len(me.used) \in Nat
          /\ DOMAIN Tail(me.used) = 1 .. Len(me.used) - 1
      BY <3>1, LenProperties, Before, Parts
    <3>3. k - 1 \in DOMAIN Tail(me.used) /\ Tail(me.used)[k - 1] = me.used[k]
      BY <3>1, <3>2
    <3> QED BY <3>3
  <2>4. Filled' = {} BY <2>2 DEF Filled
  <2>5. ModeInv' BY <1>8, <2>2, <2>4, VParts DEF ModeInv
  <2>6. GroupInv'
    <3> SUFFICES ASSUME b, me.ok, good PROVE GroupInv' BY <2>1, <2>2 DEF GroupInv
    <3>1. \A k \in 1 .. me.i - 1 :
             \/ me.ops[k].id \in seen.done
             \/ \E j \in DOMAIN me'.used : me'.used[j].op.id = me.ops[k].id
      <4> SUFFICES ASSUME NEW k \in 1 .. me.i - 1, me.ops[k].id \notin seen.done
                   PROVE  \E j \in DOMAIN me'.used : me'.used[j].op.id = me.ops[k].id
        OBVIOUS
      <4>1. PICK j \in DOMAIN me.used : me.used[j].op.id = me.ops[k].id
        BY <1>8, VParts DEF GroupInv
      <4>2. me.used[j] # u BY <1>4, <4>1
      <4> QED BY <2>2, <2>3, <4>1, <4>2
    <3> QED BY <1>8, <2>2, <3>1, VParts DEF GroupInv
  <2>7. FlightInv'
    <3> SUFFICES ASSUME ~ pool.abandoned, NEW v \in InFlight, ~ slot[v].is_read
                 PROVE  \/ batch.depth > 0 /\ slot[v].op \in batch.ops
                        \/ me'.group /\ v \in UsedSlots'
      BY <1>1, <2>2 DEF FlightInv
    <3>1. \/ batch.depth > 0 /\ slot[v].op \in batch.ops
          \/ v \in UsedSlots
      BY <1>1, VParts DEF FlightInv
    <3>2. v \in UsedSlots => v \in UsedSlots'
      <4> SUFFICES ASSUME NEW k \in DOMAIN me.used, v = me.used[k].slot PROVE v \in UsedSlots'
        BY DEF UsedSlots
      <4>1. me.used[k] # u BY <1>5 DEF w
      <4> QED BY <2>2, <2>3, <4>1 DEF UsedSlots
    <3> QED BY <1>8, <2>2, <3>1, <3>2
  <2>8. TallyInv' BY <2>2, TallySame
  <2> QED BY <1>7, <2>5, <2>6, <2>7, <2>8 DEF VerdictInv
<1>9. CASE ~ me.group /\ me' = NoCall
  <2>1. /\ me'.pc = "Idle" /\ me'.group = FALSE /\ DOMAIN me'.ops = {} /\ Filled' = {}
    BY <1>9, Returned DEF Filled
  <2>2. DOMAIN me.ops \subseteq {1} /\ me.ops[1].read
    <3>1. Len(me.ops) <= 1 /\ me.ops[1].read BY <1>9, Parts DEF CallInv
    <3> QED BY <3>1, Before, Parts
  <2>3. MyWrites = {} BY <2>2 DEF MyWrites
  <2>4. OpIds' = {} /\ MyWrites' = {} BY <2>1 DEF OpIds, MyWrites
  <2>5. OutWrites' = OutWrites /\ QueueOps' = QueueOps /\ FailedWrites' = FailedWrites
    BY SameOut
  <2>6. ModeInv' BY <2>1, VParts DEF ModeInv, Resting
  <2>7. GroupInv' BY <2>1 DEF GroupInv
  <2>8. FlightInv' BY <1>1, <1>9, <2>1, VParts DEF FlightInv
  <2>9. TallyInv'
    <3>1. Reached' \subseteq Reached BY <2>4, <2>5 DEF Reached
    <3>2. batch'.depth > 0 => FailedWrites' \cap Reached' = {}
      BY <2>5, <3>1, VParts DEF TallyInv
    <3> QED BY <2>3, <2>4, <2>5, <3>1, <3>2, TallyKept
  <2> QED BY <1>7, <2>6, <2>7, <2>8, <2>9 DEF VerdictInv
<1>10. CASE ~ me.group /\ me' = [me EXCEPT !.pc = "Sync"]
  <2>1. /\ me'.pc = "Sync" /\ me'.i = me.i /\ me'.used = me.used /\ me'.ops = me.ops
        /\ me'.group = me.group /\ me'.first = me.first /\ me'.ok = me.ok
    BY <1>10, Before, Parts DEF MeType
  <2>2. me.pc \notin Resting \cup {"Submit"} /\ "Sync" \notin Resting \cup {"Submit"}
    BY DEF Resting
  <2> QED BY <1>10, <2>1, <2>2, VMoves
<1> QED BY <1>8, <1>9, <1>10 DEF Collect

\* The call waits for the first slot it has not collected, or drains.
LEMMA VAwait == ASSUME CtrlInv, VerdictInv, Await PROVE VerdictInv'
<1>1. /\ me.pc = "Await" /\ drain["caller"] = "No" /\ me.used # <<>>
      /\ UNCHANGED <<pool, slot, ep0, reap, cb, batch, sends, seen>>
  BY DEF Await, At
<1>2. CASE slot[Head(me.used).slot].done /\ Collect /\ UNCHANGED drain BY <1>1, <1>2, VCollect
<1>3. CASE ThenDrain("AwaitDrained")
  <2>1. /\ me'.pc = "AwaitDrained" /\ me'.i = me.i /\ me'.used = me.used /\ me'.ops = me.ops
        /\ me'.group = me.group /\ me'.first = me.first /\ me'.ok = me.ok
    BY <1>3, Before, Parts DEF MeType, Goto, ThenDrain
  <2>2. drain'["caller"] = "Enter" /\ drain'["sender"] = drain["sender"]
    BY <1>3, Before, Parts DEF Threads, ThenDrain
  <2>3. me.pc \notin Resting \cup {"Submit"} /\ "AwaitDrained" \notin Resting \cup {"Submit"}
    BY <1>1 DEF Resting
  <2> QED BY <1>1, <2>1, <2>2, <2>3, VMoves
<1> QED BY <1>2, <1>3 DEF Await

\* After the drain it takes what there is.
LEMMA VAwaitDrained == ASSUME CtrlInv, VerdictInv, AwaitDrained PROVE VerdictInv'
<1>1. /\ me.pc = "AwaitDrained" /\ drain["caller"] = "No" /\ Collect
      /\ UNCHANGED <<pool, slot, ep0, reap, cb, batch, drain, sends, seen>>
  BY DEF AwaitDrained, At
<1>2. me.used # <<>> BY <1>1, Parts DEF CallInv
<1> QED BY <1>1, <1>2, VCollect

\* The fields of a call that goes on.
LEMMA WentOn ==
    ASSUME CtrlInv, NEW p \in {"Acquire", "Sync"}, NEW q \in Seq(OpType), NEW b \in BOOLEAN,
           GoesOn(p, q, b), me.used = <<>>
    PROVE  \/ me' = NoCall /\ q = <<>>
           \/ /\ me'.pc = p /\ me'.ops = q /\ me'.i = 1 /\ me'.used = <<>> /\ me'.ok = b
              /\ me'.group = me.group /\ me'.first = me.first /\ 1 \in DOMAIN q
<1>1. CASE q = <<>> BY <1>1 DEF GoesOn
<1>2. CASE q # <<>>
  <2>1. me' = [me EXCEPT !.pc = p, !.ops = q, !.taken = <<>>, !.i = 1, !.ok = b]
    BY <1>2 DEF GoesOn
  <2>2. 1 \in DOMAIN q BY <1>2, TailIndex
  <2> QED BY <2>1, <2>2, Before, Parts DEF MeType
<1> QED BY <1>1, <1>2

\* A group that has collected all its slots and goes on, or returns: nothing of
\* it is in flight, and a batch is not under way.
LEMMA VGoesOn ==
    ASSUME CtrlInv, VerdictInv, me.group, me.pc \in {"Await", "Sync"}, me.used = <<>>,
           NEW p \in {"Acquire", "Sync"}, NEW q \in Seq(OpType), NEW b \in BOOLEAN,
           GoesOn(p, q, b), UNCHANGED <<slot, ep0, reap, batch, drain>>,
           pool'.abandoned = pool.abandoned, pool'.generation = pool.generation,
           seen'.next = seen.next, seen.done \subseteq seen'.done,
           b /\ q # <<>> => /\ me.ok
                            /\ me.ops[1].id .. q[1].id - 1 \subseteq seen'.done
                            /\ q[1].id \in Int /\ me.ops[1].id \in Int
    PROVE  VerdictInv'
<1>1. \/ me' = NoCall
      \/ /\ me'.pc = p /\ me'.ops = q /\ me'.i = 1 /\ me'.used = <<>> /\ me'.ok = b
         /\ me'.group = me.group /\ me'.first = me.first /\ 1 \in DOMAIN q
  BY WentOn
<1>2. me' = NoCall => me'.pc = "Idle" /\ me'.group = FALSE BY Returned
<1>3. batch.depth = 0 /\ ~ (batch.depth > 0) BY VParts DEF ModeInv
<1>4. Filled = {} /\ Filled' = {} /\ InFlight' = InFlight
  BY <1>1, <1>2 DEF Filled, InFlight
<1>5. drain["caller"] = "No" BY Before, Parts, VParts DEF ModeInv
<1>6. ModeInv' BY <1>1, <1>2, <1>3, <1>4, <1>5, VParts DEF ModeInv, Resting
<1>7. DoneInv' BY DoneKept
<1>8. GroupInv'
  <2> SUFFICES ASSUME me'.group, me'.ok PROVE GroupInv' BY DEF GroupInv
  <2>1. /\ me'.ops = q /\ me'.i = 1 /\ b /\ me'.first = me.first /\ q # <<>>
    <3>1. DOMAIN <<>> = {} OBVIOUS
    <3> QED BY <1>1, <1>2, <3>1
  <2>2. \A o \in me.first .. me.ops[1].id - 1 : o \in seen.done
    BY <2>1, VParts DEF GroupInv
  <2>3. \A o \in me.first .. q[1].id - 1 : o \in seen'.done
    <3> SUFFICES ASSUME NEW o \in me.first .. q[1].id - 1 PROVE o \in seen'.done OBVIOUS
    <3>1. me.first \in Int /\ q[1].id \in Int /\ me.ops[1].id \in Int BY <2>1, VTypes
    <3>2. o \in me.first .. me.ops[1].id - 1 \/ o \in me.ops[1].id .. q[1].id - 1 BY <3>1
    <3> QED BY <2>1, <2>2, <3>2
  <2>4. 1 .. me'.i - 1 = {} BY <2>1
  <2> QED BY <2>1, <2>3, <2>4 DEF GroupInv
<1>9. FlightInv'
  <2>1. UsedSlots = {}
    <3>1. DOMAIN <<>> = {} OBVIOUS
    <3> QED BY <3>1 DEF UsedSlots
  <2>2. me'.pc \notin {"AwaitDrained", "End"} BY <1>1, <1>2
  <2> QED BY <1>3, <1>4, <2>1, <2>2, VParts DEF FlightInv
<1>10. TallyInv' BY <1>3 DEF TallyInv
<1> QED BY <1>6, <1>7, <1>8, <1>9, <1>10 DEF VerdictInv

\* The next slots' worth of a group: all the accesses before it are performed,
\* or the group has failed.
LEMMA VNextChunk == ASSUME CtrlInv, VerdictInv, NextChunk PROVE VerdictInv'
<1> DEFINE n == Len(me.taken)
           q == SubSeq(me.ops, n + 1, Len(me.ops))
<1>1. /\ me.pc = "Await" /\ me.used = <<>> /\ GoesOn("Acquire", q, me.ok)
      /\ UNCHANGED <<pool, slot, ep0, reap, cb, batch, drain, sends, seen>>
  BY DEF NextChunk, At
<1>2. me.group BY <1>1, Parts DEF CallInv
<1>3. me.i = n + 1 /\ n <= Len(me.ops) /\ me.ok \in BOOLEAN /\ n \in Nat
  BY <1>1, EmptyHand, Before, Parts DEF CallInv, MeType
<1> HIDE DEF n
<1>4. /\ q \in Seq(OpType)
      /\ \A k \in DOMAIN q : k + n \in DOMAIN me.ops /\ q[k] = me.ops[k + n]
  <2>1. me.ops \in Seq(OpType) BY Before, Parts
  <2>2. /\ q \in Seq(OpType) /\ Len(q) = Len(me.ops) - n
        /\ \A k \in DOMAIN q : /\ k + n \in DOMAIN me.ops /\ k + n \in n + 1 .. Len(me.ops)
                               /\ q[k] = me.ops[k + n]
    BY ONLY <1>3, <2>1, DropElems
  <2> QED BY <2>2
<1> HIDE DEF q
<1>5. ASSUME me.ok, q # <<>>
      PROVE  /\ me.ops[1].id .. q[1].id - 1 \subseteq seen'.done
             /\ q[1].id \in Int /\ me.ops[1].id \in Int
  <2>1. 1 \in DOMAIN q BY <1>4, <1>5, TailIndex
  <2>2. 1 + n \in DOMAIN me.ops /\ q[1] = me.ops[1 + n] BY <1>4, <2>1
  <2>3. 1 \in DOMAIN me.ops /\ 1 + n <= Len(me.ops) BY <1>3, <2>2, Before, Parts
  <2>4. q[1].id \in Int /\ me.ops[1].id \in Int BY <2>2, <2>3, Numbers
  <2>5. \A k \in DOMAIN me.ops : me.ops[k].id = me.ops[1].id + k - 1 BY Parts DEF CallInv
  <2>6. q[1].id = me.ops[1].id + n BY <1>3, <2>2, <2>4, <2>5
  <2>7. ASSUME NEW o \in me.ops[1].id .. q[1].id - 1 PROVE o \in seen.done
    <3> DEFINE k == o - me.ops[1].id + 1
    <3>1. o \in Int /\ o >= me.ops[1].id /\ o <= (me.ops[1].id + n) - 1
      BY <1>3, <2>4, <2>6, <2>7
    <3>2. k \in 1 .. n /\ o = me.ops[1].id + k - 1
      <4>1. \A x, y \in Int : y >= x /\ y <= (x + n) - 1
               => y - x + 1 \in 1 .. n /\ y = x + (y - x + 1) - 1
        BY ONLY <1>3
      <4> QED BY <2>4, <3>1, <4>1
    <3> HIDE DEF k
    <3>3. Len(me.ops) \in Nat BY Before, Parts
    <3>4. k \in 1 .. me.i - 1 /\ k \in 1 .. Len(me.ops) BY ONLY <1>3, <3>2, <3>3
    <3>5. me.ops[k].id = o BY <2>5, <3>2, <3>4, Before, Parts
    <3>6. DOMAIN me.used = {}
      <4>1. DOMAIN <<>> = {} OBVIOUS
      <4> QED BY <1>1, <4>1
    <3> QED BY <1>2, <1>5, <3>4, <3>5, <3>6, VParts DEF GroupInv
  <2> QED BY <1>1, <2>4, <2>7
<1> QED BY <1>1, <1>2, <1>3, <1>4, <1>5, VGoesOn

\* A synchronous access is performed, or it fails: a group remembers that, and a
\* batch counts a write that was missed.
LEMMA VSync == ASSUME CtrlInv, VerdictInv, Sync PROVE VerdictInv'
<1> DEFINE a == Head(me.ops)
<1>1. me.pc = "Sync" /\ UNCHANGED <<slot, ep0, reap, cb, batch, drain, sends>> BY DEF Sync, At
<1>2. me.ops # <<>> BY <1>1, Parts DEF CallInv
<1>3. /\ 1 \in DOMAIN me.ops /\ a = me.ops[1] /\ Tail(me.ops) \in Seq(OpType)
      /\ \A k \in DOMAIN Tail(me.ops) : /\ k + 1 \in DOMAIN me.ops
                                        /\ Tail(me.ops)[k] = me.ops[k + 1]
  BY <1>2, TailElems, TailIndex, Before, Parts
<1>4. a.id \in Int /\ a.read \in BOOLEAN
  <2>1. a \in OpType BY <1>3, Before, Parts
  <2>2. a.read \in BOOLEAN BY <2>1 DEF OpType
  <2> QED BY <1>3, <2>2, Numbers
<1>5. /\ \A o \in seen.done : o < a.id \/ (o = a.id /\ a.read)
      /\ \A i \in DOMAIN ep0 : slot[ep0[i]].op < a.id \/ (slot[ep0[i]].op = a.id /\ a.read)
  BY <1>1, <1>3, Parts DEF OrderInv
<1>6. \/ /\ pool' = pool /\ seen' = Performed(a.id, a.read) /\ GoesOn("Sync", Tail(me.ops), me.ok)
      \/ /\ seen' = seen
         /\ pool' = [pool EXCEPT !.write_errors = IF ~ a.read /\ batch.depth > 0 THEN @ + 1 ELSE @]
         /\ \E q \in {<<>>, Tail(me.ops)} : GoesOn("Sync", q, FALSE)
  BY DEF Sync
<1> HIDE DEF a
<1>7. \/ /\ pool' = pool /\ seen'.done = seen.done \cup {a.id} /\ seen'.next = seen.next
         /\ seen'.retired = seen.retired /\ GoesOn("Sync", Tail(me.ops), me.ok)
      \/ /\ seen' = seen /\ pool'.abandoned = pool.abandoned /\ pool'.generation = pool.generation
         /\ pool'.write_errors = IF ~ a.read /\ batch.depth > 0 THEN pool.write_errors + 1
                                 ELSE pool.write_errors
         /\ \E q \in {<<>>, Tail(me.ops)} : GoesOn("Sync", q, FALSE)
  <2>1. CASE seen' = seen
    <3>1. CASE pool' = pool BY <1>6, <2>1, <3>1, Before, Parts DEF PoolType, Performed, SeenType
    <3> QED BY <1>6, <2>1, <3>1, Before, Parts DEF PoolType
  <2>2. CASE seen' = Performed(a.id, a.read) /\ pool' = pool
             /\ GoesOn("Sync", Tail(me.ops), me.ok)
    <3> DEFINE c == seen.broken \/ \E o \in seen.done : o > a.id \/ (o = a.id /\ ~ a.read)
    <3>1. seen' = [seen EXCEPT !.done = @ \cup {a.id}, !.broken = c] BY <2>2 DEF Performed
    <3> HIDE DEF c
    <3> QED BY <2>2, <3>1, Before, Parts DEF SeenType
  <2> QED BY <1>6, <2>1, <2>2
<1>8. CASE me.group
  <2>1. me.used = <<>> BY <1>1, <1>8, VParts DEF ModeInv
  <2>2. ASSUME Tail(me.ops) # <<>>
        PROVE  Tail(me.ops)[1].id = a.id + 1
    <3>1. 1 \in DOMAIN Tail(me.ops) BY <1>3, <2>2, TailIndex
    <3>2. 2 \in DOMAIN me.ops /\ Tail(me.ops)[1] = me.ops[2] BY <1>3, <3>1
    <3>3. me.ops[2].id = me.ops[1].id + 2 - 1 BY <3>2, Parts DEF CallInv
    <3> QED BY <1>3, <1>4, <3>2, <3>3
  <2>3. CASE /\ pool' = pool /\ seen'.done = seen.done \cup {a.id} /\ seen'.next = seen.next
             /\ GoesOn("Sync", Tail(me.ops), me.ok)
    <3>1. Tail(me.ops) # <<>> =>
             /\ me.ops[1].id .. Tail(me.ops)[1].id - 1 \subseteq seen'.done
             /\ Tail(me.ops)[1].id \in Int /\ me.ops[1].id \in Int
      <4>1. \A o \in a.id .. (a.id + 1) - 1 : o = a.id BY <1>4
      <4> QED BY <1>3, <1>4, <2>2, <2>3, <4>1
    <3> QED BY <1>1, <1>3, <1>8, <2>1, <2>3, <3>1, VTypes, VGoesOn
  <2>4. CASE /\ seen' = seen /\ pool'.abandoned = pool.abandoned
             /\ pool'.generation = pool.generation
             /\ \E q \in {<<>>, Tail(me.ops)} : GoesOn("Sync", q, FALSE)
    <3>1. PICK q \in {<<>>, Tail(me.ops)} : GoesOn("Sync", q, FALSE) BY <2>4
    <3>2. q \in Seq(OpType) BY <1>3, EmptySeq
    <3> QED BY <1>1, <1>8, <2>1, <2>4, <3>1, <3>2, VGoesOn
  <2> QED BY <1>7, <2>3, <2>4
<1>9. CASE ~ me.group
  <2>1. DOMAIN me.ops = {1} /\ Tail(me.ops) = <<>>
    <3>1. Len(me.ops) <= 1 BY <1>9, Parts DEF CallInv
    <3>2. DOMAIN me.ops = {1} BY <1>3, <3>1, Before, Parts
    <3>3. Tail(me.ops) # <<>> => 1 \in DOMAIN Tail(me.ops) BY <1>3, TailIndex
    <3> QED BY <1>3, <3>2, <3>3
  <2>2. me' = NoCall BY <1>7, <2>1 DEF GoesOn
  <2>3. /\ me'.pc = "Idle" /\ me'.group = FALSE /\ DOMAIN me'.ops = {} /\ Filled' = {}
        /\ Filled = {} /\ InFlight' = InFlight
    BY <1>1, <2>2, Returned DEF Filled, InFlight
  <2>4. OpIds = {a.id} /\ MyWrites \subseteq {a.id} /\ (a.read => MyWrites = {})
        /\ (~ a.read => MyWrites = {a.id})
    BY <1>3, <2>1 DEF OpIds, MyWrites
  <2>5. OpIds' = {} /\ MyWrites' = {} BY <2>3 DEF OpIds, MyWrites
  <2>6. /\ pool'.abandoned = pool.abandoned /\ pool'.generation = pool.generation
        /\ seen'.next = seen.next /\ seen.done \subseteq seen'.done
        /\ seen'.retired = seen.retired
    BY <1>7
  <2>7. OutWrites' = OutWrites /\ QueueOps' = QueueOps /\ FailedWrites' = FailedWrites
    BY <1>1, <2>6, SameOut
  <2>8. ModeInv' BY <1>1, <2>3, <2>6, VParts DEF ModeInv, Resting
  <2>9. DoneInv' BY <1>1, <2>6, DoneKept
  <2>10. GroupInv' BY <2>3 DEF GroupInv
  <2>11. FlightInv' BY <1>1, <1>9, <2>3, <2>6, VParts DEF FlightInv
  <2>12. TallyInv'
    <3> SUFFICES ASSUME batch.depth > 0 PROVE TallyInv' BY <1>1 DEF TallyInv
    <3>1. seen'.done \subseteq seen.done \cup {a.id} BY <1>7
    <3>2. Reached' \subseteq Reached BY <2>4, <2>5, <2>7, <3>1 DEF Reached
    <3>3. FailedWrites' \cap Reached' = {} BY <2>7, <3>2, VParts DEF TallyInv
    <3>4. CASE pool'.write_errors = pool.write_errors /\ MyWrites \subseteq seen'.done
      BY <1>1, <2>5, <2>6, <2>7, <3>2, <3>3, <3>4, TallyKept
    <3>5. CASE /\ seen' = seen /\ ~ a.read
               /\ pool'.write_errors = pool.write_errors + 1
      <4>1. a.id \in batch.ops BY <2>4, <3>5, VParts DEF TallyInv
      <4>2. a.id \notin Reached'
        <5>1. a.id \notin seen.done BY <1>4, <1>5, <3>5
        <5>2. a.id \notin QueueOps
          <6>1. \A i \in DOMAIN ep0 : slot[ep0[i]].op # a.id BY <1>4, <1>5, <3>5, Numbers
          <6> QED BY <6>1 DEF QueueOps, Elems
        <5> QED BY <2>5, <2>7, <3>5, <5>1, <5>2 DEF Reached
      <4>3. pool'.write_errors > 0 /\ pool'.write_errors # 0 BY <3>5, VTypes
      <4>4. OutWrites \subseteq batch.ops BY VParts DEF TallyInv
      <4> QED BY <1>1, <2>5, <2>7, <3>3, <4>1, <4>2, <4>3, <4>4 DEF TallyInv
    <3>6. \/ pool'.write_errors = pool.write_errors /\ MyWrites \subseteq seen'.done
          \/ seen' = seen /\ ~ a.read /\ pool'.write_errors = pool.write_errors + 1
      BY <1>4, <1>7, <2>4
    <3> QED BY <3>4, <3>5, <3>6
  <2> QED BY <2>8, <2>9, <2>10, <2>11, <2>12 DEF VerdictInv
<1> QED BY <1>8, <1>9

\* The accounts start empty.
LEMMA VInit == ASSUME Init PROVE VerdictInv
<1>1. /\ slot = [w \in Slots |-> NewSlot]
      /\ batch = [pipelined |-> FALSE, depth |-> 0, ops |-> {}]
      /\ me = NoCall /\ drain = [t \in Threads |-> "No"]
  BY DEF Init
<1>2. pool.generation = 0 BY DEF Init
<1>3. me.pc = "Idle" /\ me.group = FALSE /\ batch.depth = 0 /\ ~ (0 > 0)
  BY <1>1 DEF NoCall
<1>4. batch.pipelined = FALSE /\ batch.ops = {} BY <1>1
<1>5. drain["caller"] = "No" /\ drain["sender"] = "No" BY <1>1 DEF Threads
<1>6. \A w \in Slots : slot[w].gen = 0 /\ slot[w].answer = 0 /\ slot[w].inflight = FALSE
  BY <1>1 DEF NewSlot
<1>7. InFlight = {} /\ Filled = {} BY <1>3, <1>6 DEF InFlight, Filled
<1>8. ModeInv BY <1>2, <1>3, <1>4, <1>5, <1>6, <1>7 DEF ModeInv, Resting
<1>9. DoneInv BY <1>6 DEF DoneInv
<1>10. GroupInv BY <1>3 DEF GroupInv
<1>11. FlightInv BY <1>7 DEF FlightInv
<1>12. TallyInv BY <1>3 DEF TallyInv
<1> QED BY <1>8, <1>9, <1>10, <1>11, <1>12 DEF VerdictInv

\* Every step keeps the accounts.
LEMMA VNext == ASSUME CtrlInv, VerdictInv, [Next]_vars PROVE VerdictInv'
<1>1. CASE UNCHANGED vars
  <2>1. UNCHANGED <<pool, slot, ep0, reap, cb, batch, me, drain, sends, seen>> BY <1>1 DEF vars
  <2>2. Filled' = Filled /\ InFlight' = InFlight BY <2>1 DEF Filled, InFlight
  <2>3. ModeInv' BY <2>1, <2>2, VParts DEF ModeInv
  <2>4. DoneInv' BY <2>1, DoneKept
  <2>5. GroupInv' BY <2>1, GroupKept
  <2>6. FlightInv' BY <2>1, <2>2, FlightKept
  <2>7. TallyInv' BY <2>1, TallySame
  <2> QED BY <2>3, <2>4, <2>5, <2>6, <2>7 DEF VerdictInv
<1>2. CASE Complete BY <1>2, VComplete
<1>3. CASE Callback BY <1>3, VCbEnter, VCbPublish, VCbRelease DEF Callback
<1>4. CASE Calls BY <1>4, VBegin, VEnd, VRegister, VCtrlBatch, VDestroy DEF Calls
<1>5. ASSUME NEW t \in Threads, Flush(t) PROVE VerdictInv'
  BY <1>5, VDrained, VDrainTimeout, VGiveUp DEF Flush
<1>6. CASE Caller
  <2>1. CASE EndDrained \/ Acquire \/ Take \/ TakeDrained \/ Fill \/ Submit
    BY <2>1, VEndDrained, VAcquire, VTake, VTakeDrained, VFill, VSubmit
  <2>2. CASE Await \/ AwaitDrained \/ NextChunk \/ Sync
    BY <2>2, VAwait, VAwaitDrained, VNextChunk, VSync
  <2>3. CASE LastCancel \/ LastReap \/ (\E w \in Slots : FreeSlot(w)) \/ AllFreed
    BY <2>3, VLastCancel, VLastReap, VFreeSlot, VAllFreed
  <2>4. CASE FlushEnter BY <2>4, VFlushEnter
  <2>5. CASE Flush("caller") BY <2>5, <1>5 DEF Threads
  <2> QED BY <1>6, <2>1, <2>2, <2>3, <2>4, <2>5 DEF Caller
<1>7. CASE Sender
  <2>1. CASE Send BY <2>1, VSend
  <2>2. CASE Flush("sender") BY <2>2, <1>5 DEF Threads
  <2> QED BY <1>7, <2>1, <2>2 DEF Sender
<1> QED BY <1>1, <1>2, <1>3, <1>4, <1>6, <1>7 DEF Next

\* A batch at its end has nothing in hand, and what it has in flight is what its
\* drain gave up on and counted.
LEMMA BatchVerdict ==
    ASSUME CtrlInv, VerdictInv, At("End")
    PROVE  /\ pool.write_errors = 0 => batch.ops \subseteq seen.done
           /\ pool.write_errors > 0
                => \E o \in batch.ops : o \notin seen.done \/ o \in seen.retired
<1>1. me.pc = "End" /\ drain["caller"] = "No" BY DEF At
<1>2. DOMAIN me.ops = {}
  <2>1. me = [NoCall EXCEPT !.pc = "End"] BY <1>1, Parts DEF CallInv
  <2> QED BY <2>1, AtRest
<1>3. MyWrites = {} BY <1>2 DEF MyWrites
<1>4. batch.depth > 0 BY <1>1, VParts DEF ModeInv
<1>5. /\ pool.abandoned /\ OutWrites # {} => pool.write_errors > 0
      /\ pool.write_errors > 0 => \E o \in batch.ops : o \in seen.retired \/ o \notin Reached
      /\ pool.write_errors = 0 => batch.ops \subseteq seen.done \cup OutWrites \cup MyWrites
  BY <1>4, VParts DEF TallyInv
<1>6. pool.write_errors = 0 => OutWrites = {}
  <2> SUFFICES ASSUME pool.write_errors = 0, ~ pool.abandoned PROVE OutWrites = {}
    BY <1>5
  <2>1. InFlight = {} BY <1>1, VParts DEF FlightInv
  <2>2. Out = {} BY <2>1, VTypes
  <2> QED BY <2>2 DEF OutWrites
<1>7. seen.done \subseteq Reached BY DEF Reached
<1> QED BY <1>3, <1>5, <1>6, <1>7

\* A group that is good has all that it went past performed.
LEMMA GroupVerdict ==
    ASSUME CtrlInv, VerdictInv, me.group, me.ok,
           me.pc \in {"Acquire", "Take", "Sync", "Await"}, me.used = <<>>
    PROVE  Past \subseteq seen.done
<1>1. me.ops # <<>> BY Parts DEF CallInv
<1>2. 1 \in DOMAIN me.ops /\ Head(me.ops) = me.ops[1] BY <1>1, TailIndex, Before, Parts
<1>3. me.ops[1].id \in Int /\ me.first \in Int BY <1>2, Numbers, VTypes
<1>4. \A o \in me.first .. me.ops[1].id - 1 : o \in seen.done BY VParts DEF GroupInv
<1>5. CASE me.pc # "Await"
  <2>1. Past = me.first .. me.ops[1].id + 0 - 1 BY <1>1, <1>2, <1>5 DEF Past
  <2>2. me.ops[1].id + 0 - 1 = me.ops[1].id - 1 BY <1>3
  <2> QED BY <1>4, <2>1, <2>2
<1>6. CASE me.pc = "Await"
  <2>1. Past = me.first .. me.ops[1].id + Len(me.taken) - 1 BY <1>1, <1>2, <1>6 DEF Past
  <2>2. /\ me.i = Len(me.taken) + 1 /\ Len(me.taken) <= Len(me.ops)
        /\ Len(me.taken) \in Nat /\ DOMAIN me.ops = 1 .. Len(me.ops) /\ Len(me.ops) \in Nat
    BY <1>6, Before, Parts DEF CallInv
  <2>3. \A k \in DOMAIN me.ops : me.ops[k].id = me.ops[1].id + k - 1 BY Parts DEF CallInv
  <2>4. DOMAIN me.used = {}
    <3>1. DOMAIN <<>> = {} OBVIOUS
    <3> QED BY <3>1
  <2>5. \A k \in 1 .. me.i - 1 : me.ops[k].id \in seen.done BY <2>4, VParts DEF GroupInv
  <2> SUFFICES ASSUME NEW o \in me.first .. me.ops[1].id + Len(me.taken) - 1
               PROVE  o \in seen.done
    BY <2>1
  <2> DEFINE x == me.ops[1].id
             l == Len(me.taken)
  <2>6. o \in Int /\ o <= x + l - 1 /\ x \in Int /\ l \in Nat BY <1>3, <2>2
  <2>7. CASE o < me.ops[1].id BY <1>3, <1>4, <2>2, <2>7
  <2>8. CASE ~ (o < me.ops[1].id)
    <3> DEFINE k == o - me.ops[1].id + 1
    <3> HIDE DEF x, l
    <3>1. k \in 1 .. l /\ o = x + k - 1
      <4>1. k = o - x + 1 /\ ~ (o < x) BY <2>8 DEF x
      <4> HIDE DEF k
      <4> QED BY ONLY <2>6, <4>1
    <3> HIDE DEF k
    <3>2. k \in 1 .. me.i - 1 /\ k \in DOMAIN me.ops BY <2>2, <3>1 DEF l
    <3> QED BY <2>3, <2>5, <3>1, <3>2 DEF x
  <2> QED BY <2>7, <2>8
<1> QED BY <1>5, <1>6

\* write_batch_end reports success only when the device has performed every
\* write of the batch and a failure only when it missed one or a drain gave up
\* on it; ctrl_batch reports success only when every access of the group was
\* performed.  For every pool, every number of accesses and every schedule of
\* completions, cancellations and drains.
THEOREM CtrlVerdictIsTrue == Spec => []VerdictIsTrue
<1>1. Init => CtrlInv /\ VerdictInv BY InitInv, VInit
<1>2. CtrlInv /\ VerdictInv /\ [Next]_vars => CtrlInv' /\ VerdictInv' BY NextInv, VNext
<1>3. ASSUME CtrlInv, VerdictInv PROVE VerdictIsTrue
  BY <1>3, BatchVerdict, GroupVerdict DEF VerdictIsTrue
<1>4. CtrlInv /\ VerdictInv => VerdictIsTrue BY <1>3
<1> QED BY <1>1, <1>2, <1>4, PTL DEF Spec

==============================================================================
