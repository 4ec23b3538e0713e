----------------------------- MODULE UsbRx_proofs ----------------------------
(***************************************************************************)
(* Theorems about the receive ring for every number of transfers and spare *)
(* buffers, every mode and policy, with and without a second pump.         *)
(***************************************************************************)
EXTENDS UsbRx, FiniteSetTheorems, SequenceTheorems, TLAPS

------------------------------------------------------------------------------
(* Sequences without repetition: the parked list and the consumer's queue. *)

Elems(s) == {s[i] : i \in DOMAIN s}
Distinct(s) == \A i, j \in DOMAIN s : s[i] = s[j] => i = j

\* A sequence has elements if it is not empty.
LEMMA EmptyElems ==
    ASSUME NEW S, NEW s \in Seq(S)
    PROVE  /\ Elems(s) \subseteq S
           /\ s = <<>> <=> Elems(s) = {}
           /\ Elems(<<>>) = {} /\ Distinct(<<>>)
<1>1. DOMAIN s = 1 .. Len(s) /\ Len(s) \in Nat /\ \A i \in 1 .. Len(s) : s[i] \in S
  BY LenProperties, ElementOfSeq
<1>2. s # <<>> => Len(s) >= 1 BY EmptySeq
<1>3. DOMAIN <<>> = {} OBVIOUS
<1>4. Elems(<<>>) = {} /\ Distinct(<<>>) BY <1>3 DEF Elems, Distinct
<1>5. s # <<>> => Elems(s) # {}
  <2> SUFFICES ASSUME s # <<>> PROVE s[1] \in Elems(s) OBVIOUS
  <2> QED BY <1>1, <1>2 DEF Elems
<1>6. Elems(s) \subseteq S BY <1>1 DEF Elems
<1> QED BY <1>4, <1>5, <1>6

\* push_back of something new.
LEMMA AppendElems ==
    ASSUME NEW S, NEW s \in Seq(S), NEW x \in S
    PROVE  /\ Append(s, x) \in Seq(S)
           /\ Elems(Append(s, x)) = Elems(s) \cup {x}
           /\ Distinct(s) /\ x \notin Elems(s) => Distinct(Append(s, x))
<1> DEFINE t == Append(s, x)
<1>1. /\ t \in Seq(S) /\ Len(t) = Len(s) + 1 /\ Len(s) \in Nat
      /\ \A i \in 1 .. Len(s) : t[i] = s[i]
      /\ t[Len(s) + 1] = x
  BY AppendProperties, LenProperties
<1>2. DOMAIN s = 1 .. Len(s) /\ DOMAIN t = 1 .. Len(s) + 1 BY <1>1, LenProperties
<1> HIDE DEF t
<1>3. Elems(t) = Elems(s) \cup {x}
  <2>1. \A i \in DOMAIN t : t[i] \in Elems(s) \cup {x}
    <3> SUFFICES ASSUME NEW i \in DOMAIN t PROVE t[i] \in Elems(s) \cup {x} OBVIOUS
    <3>1. CASE i = Len(s) + 1 BY <3>1, <1>1
    <3>2. CASE i \in 1 .. Len(s) BY <3>2, <1>1, <1>2 DEF Elems
    <3> QED BY <3>1, <3>2, <1>1, <1>2
  <2>2. \A i \in DOMAIN s : s[i] \in Elems(t)
    <3> SUFFICES ASSUME NEW i \in DOMAIN s PROVE s[i] \in Elems(t) OBVIOUS
    <3>1. i \in DOMAIN t /\ t[i] = s[i] BY <1>1, <1>2
    <3> QED BY <3>1 DEF Elems
  <2>3. x \in Elems(t)
    <3>1. Len(s) + 1 \in DOMAIN t BY <1>1, <1>2
    <3> QED BY <3>1, <1>1 DEF Elems
  <2> QED BY <2>1, <2>2, <2>3 DEF Elems
<1>4. ASSUME Distinct(s), x \notin Elems(s) PROVE Distinct(t)
  <2> SUFFICES ASSUME NEW i \in DOMAIN t, NEW j \in DOMAIN t, t[i] = t[j] PROVE i = j
    BY DEF Distinct
  <2>1. \A k \in 1 .. Len(s) : s[k] # x BY <1>4, <1>2 DEF Elems
  <2> QED BY <2>1, <1>1, <1>2, <1>4 DEF Distinct
<1> QED BY <1>1, <1>3, <1>4 DEF t

\* Taking the first element.
LEMMA TailElems ==
    ASSUME NEW S, NEW s \in Seq(S), s # <<>>
    PROVE  /\ Tail(s) \in Seq(S) /\ Head(s) \in S /\ Head(s) \in Elems(s)
           /\ Elems(Tail(s)) \subseteq Elems(s)
           /\ Distinct(s) => Distinct(Tail(s)) /\ Head(s) \notin Elems(Tail(s))
<1>1. /\ Head(s) \in S /\ Tail(s) \in Seq(S) /\ Len(Tail(s)) = Len(s) - 1
      /\ \A i \in 1 .. Len(Tail(s)) : Tail(s)[i] = s[i + 1]
  BY HeadTailProperties
<1>2. /\ Len(s) \in Nat \ {0} /\ DOMAIN s = 1 .. Len(s)
      /\ DOMAIN Tail(s) = 1 .. Len(s) - 1
  BY <1>1, EmptySeq, LenProperties
<1>3. Head(s) = s[1] OBVIOUS
<1> QED BY <1>1, <1>2, <1>3 DEF Elems, Distinct

\* Taking the last element.
LEMMA FrontElems ==
    ASSUME NEW S, NEW s \in Seq(S), s # <<>>
    PROVE  LET f == SubSeq(s, 1, Len(s) - 1)
               x == s[Len(s)]
           IN  /\ f \in Seq(S) /\ x \in S /\ x \in Elems(s)
               /\ Distinct(s) => Distinct(f) /\ Elems(f) = Elems(s) \ {x}
<1> DEFINE f == SubSeq(s, 1, Len(s) - 1)
           x == s[Len(s)]
<1>1. Len(s) \in Nat \ {0} /\ DOMAIN s = 1 .. Len(s) /\ \A i \in 1 .. Len(s) : s[i] \in S
  BY EmptySeq, LenProperties, ElementOfSeq
<1>2. /\ f \in Seq(S) /\ Len(f) = Len(s) - 1
      /\ \A i \in 1 .. Len(s) - 1 : f[i] = s[i]
  <2>1. 1 \in Int /\ Len(s) - 1 \in Int /\ \A i \in 1 .. Len(s) - 1 : s[i] \in S BY <1>1
  <2> QED BY <2>1, <1>1, SubSeqProperties
<1>3. DOMAIN f = 1 .. Len(s) - 1 BY <1>2, LenProperties
<1> HIDE DEF f
<1>4. x \in S /\ x \in Elems(s) BY <1>1 DEF Elems
<1>5. ASSUME Distinct(s) PROVE Distinct(f) /\ Elems(f) = Elems(s) \ {x}
  <2>1. Distinct(f) BY <1>1, <1>2, <1>3, <1>5 DEF Distinct
  <2>2. \A i \in DOMAIN f : f[i] \in Elems(s) \ {x}
    BY <1>1, <1>2, <1>3, <1>5 DEF Distinct, Elems
  <2>3. \A i \in DOMAIN s : s[i] # x => s[i] \in Elems(f)
    <3> SUFFICES ASSUME NEW i \in DOMAIN s, s[i] # x PROVE s[i] \in Elems(f) OBVIOUS
    <3>1. i \in DOMAIN f /\ f[i] = s[i] BY <1>1, <1>2, <1>3
    <3> QED BY <3>1 DEF Elems
  <2> QED BY <2>1, <2>2, <2>3 DEF Elems
<1> QED BY <1>2, <1>4, <1>5 DEF f

\* A list without repetition is as long as the set of its elements is large.
LEMMA DistinctLength ==
    ASSUME NEW S, NEW s \in Seq(S), Distinct(s)
    PROVE  IsFiniteSet(Elems(s)) /\ Cardinality(Elems(s)) = Len(s)
<1>1. Len(s) \in Nat /\ s \in [1 .. Len(s) -> S] /\ DOMAIN s = 1 .. Len(s) BY LenProperties
<1>2. s \in Bijection(1 .. Len(s), Elems(s))
  BY <1>1 DEF Bijection, Injection, Surjection, Distinct, Elems, IsInjective
<1>3. ExistsBijection(1 .. Len(s), Elems(s)) BY <1>2 DEF ExistsBijection
<1> QED BY <1>1, <1>3, FS_NatBijection, FS_CountingElements

------------------------------------------------------------------------------
(* The inductive invariant. *)

\* The transfers libusb has, the one a callback has not given back, and the
\* parked ones: what active counts.
Held == {u \in Urbs : urb[u].st # "Out"}
Mine == IF cb.pc \in {"Take", "SubmitFresh", "Consume", "Resubmit", "Exhausted", "Park"}
        THEN {cb.urb} ELSE {}
Counted == Held \cup Mine \cup Elems(sh.parked)

\* The types without the bound on active, which needs the count.
SharedType == [active : Int, dead : BOOLEAN, free : SUBSET Bufs, queue : Seq(Bufs),
               parked : Seq(Urbs), closed : BOOLEAN, consumer_stop : BOOLEAN]
Types ==
    /\ cfg \in CfgType /\ urb \in [Urbs -> UrbType] /\ sh \in SharedType
    /\ cb \in CbType /\ con \in ConType
    /\ pc \in {"Loop", "Close", "Cancel", "Drain", "Join", "Done"}
    /\ stop \in BOOLEAN /\ plugged \in BOOLEAN

\* A transfer is in one place, and active counts those that are not retired.
RingInv ==
    /\ sh.active = Cardinality(Counted)
    /\ Mine \cap Held = {} /\ Mine \cap Elems(sh.parked) = {}
    /\ Held \cap Elems(sh.parked) = {}
    /\ Distinct(sh.parked)
    /\ cb.pc \in {"ConsumeReceived", "Return", "Enqueue"} => cb.urb \in Held

\* Only back-pressure parks, only SpscFat queues.
ModeInv ==
    /\ sh.parked # <<>> \/ cb.pc = "Park" => bp
    /\ ~ spsc => /\ sh.queue = <<>> /\ con.pc = "Stopped"
                 /\ cb.pc \notin {"Exhausted", "Enqueue", "Park"}

\* What rx_loop has done so far.
PhaseInv ==
    /\ sh.closed <=> pc \in {"Cancel", "Drain", "Join", "Done"}
    /\ sh.closed => sh.parked = <<>>
    /\ sh.consumer_stop => pc \in {"Join", "Done"}
    /\ pc \in {"Join", "Done"} => Counted = {}
    /\ con.pc = "Stopped" => sh.queue = <<>> /\ (spsc => sh.consumer_stop)
    /\ pc = "Done" => con.pc = "Stopped"

\* A buffer is in one place: with libusb, in the pool, in the queue, with the
\* consumer, or with the callback.
BufHeld == \A u \in Held : /\ urb[u].buf \in Bufs \ {con.buf, cb.buf, cb.fresh}
                           /\ urb[u].buf \notin sh.free /\ urb[u].buf \notin Elems(sh.queue)
BufOnce == \A u, v \in Held : urb[u].buf = urb[v].buf => u = v
BufFree == \A b \in sh.free : b \notin Elems(sh.queue) /\ b \notin {con.buf, cb.buf, cb.fresh}
BufQueue == Distinct(sh.queue) /\ \A b \in Elems(sh.queue) : b \notin {con.buf, cb.buf, cb.fresh}
BufHand ==
    /\ con.buf # NoBuf => con.buf \notin {cb.buf, cb.fresh}
    /\ cb.buf # NoBuf => cb.buf # cb.fresh
    /\ con.buf # NoBuf <=> con.pc \in {"Consume", "Return"}
    /\ cb.buf # NoBuf <=> cb.pc \notin {"Idle", "Park"}
    /\ cb.fresh # NoBuf <=> cb.pc = "SubmitFresh"
BufInv == BufHeld /\ BufOnce /\ BufFree /\ BufQueue /\ BufHand

\* While nothing fails, and the last transfer of the ring is parked or about
\* to be, the consumer still has a buffer to return.
Others == cfg.ring \ Mine
BusyInv ==
    /\ Counted \subseteq cfg.ring
    /\ /\ Cardinality(cfg.ring) >= 2 /\ ~ cfg.faulty /\ plugged /\ pc = "Loop"
       /\ (Mine # {} => cb.pc = "Park")
       /\ Others \subseteq Elems(sh.parked)
       => sh.queue # <<>> \/ con.pc \in {"Consume", "Return"}

RxInv == Types /\ RingInv /\ ModeInv /\ PhaseInv /\ BufInv /\ BusyInv

\* The counted transfers are among the ring's.
LEMMA CountType ==
    ASSUME Types
    PROVE  /\ IsFiniteSet(Counted) /\ Counted \subseteq Urbs
           /\ Cardinality(Counted) \in 0 .. Cardinality(Urbs)
<1>1. Elems(sh.parked) \subseteq Urbs
  <2>1. sh.parked \in Seq(Urbs) BY DEF Types, SharedType
  <2> QED BY <2>1, EmptyElems
<1>2. Counted \subseteq Urbs BY <1>1 DEF Counted, Held, Mine, Types, CbType
<1>3. IsFiniteSet(Counted) /\ Cardinality(Counted) <= Cardinality(Urbs)
  BY <1>2, RxAssumption, FS_Subset DEF RxAssumption
<1>4. Cardinality(Counted) \in Nat /\ Cardinality(Urbs) \in Nat
  BY <1>3, RxAssumption, FS_CardinalityType DEF RxAssumption
<1> QED BY <1>2, <1>3, <1>4

\* A transfer is submitted with buffer b.
LEMMA Arm ==
    ASSUME urb \in [Urbs -> UrbType], NEW u \in Urbs, NEW b \in Bufs, Submitted(u, b)
    PROVE  /\ urb' \in [Urbs -> UrbType] /\ Held' = Held \cup {u}
           /\ urb'[u].buf = b /\ \A v \in Urbs : v # u => urb'[v] = urb[v]
<1>1. urb' = [urb EXCEPT ![u] = [st |-> "Armed", buf |-> b]] BY DEF Submitted
<1>2. urb'[u] = [st |-> "Armed", buf |-> b] /\ \A v \in Urbs : v # u => urb'[v] = urb[v]
  BY <1>1
<1>3. [st |-> "Armed", buf |-> b] \in UrbType BY DEF UrbType
<1>4. urb' \in [Urbs -> UrbType] BY <1>1, <1>3
<1>5. Held' = Held \cup {u}
  <2>1. \A v \in Urbs : urb'[v].st # "Out" <=> v = u \/ urb[v].st # "Out" BY <1>2
  <2> QED BY <2>1 DEF Held
<1> QED BY <1>2, <1>4, <1>5

\* A transfer that libusb has ends.
LEMMA End ==
    ASSUME urb \in [Urbs -> UrbType], NEW u \in Urbs, urb[u].st # "Out",
           NEW st \in Completions, urb' = [urb EXCEPT ![u].st = st]
    PROVE  /\ urb' \in [Urbs -> UrbType] /\ Held' = Held
           /\ \A v \in Urbs : urb'[v].buf = urb[v].buf
<1>1. urb[u] \in UrbType /\ urb'[u] = [urb[u] EXCEPT !.st = st]
      /\ \A v \in Urbs : v # u => urb'[v] = urb[v]
  OBVIOUS
<1>2. urb'[u] \in UrbType /\ urb'[u].buf = urb[u].buf /\ urb'[u].st = st BY <1>1 DEF UrbType
<1>3. urb' \in [Urbs -> UrbType] BY <1>1, <1>2
<1>4. st # "Out" BY DEF Completions
<1>5. \A v \in Urbs : urb'[v].st # "Out" <=> urb[v].st # "Out" BY <1>1, <1>2, <1>4
<1>6. \A v \in Urbs : urb'[v].buf = urb[v].buf BY <1>1, <1>2
<1> QED BY <1>3, <1>5, <1>6 DEF Held

\* libusb hands a transfer to its callback.
LEMMA HandOver ==
    ASSUME urb \in [Urbs -> UrbType], NEW u \in Urbs, urb' = [urb EXCEPT ![u].st = "Out"]
    PROVE  /\ urb' \in [Urbs -> UrbType] /\ Held' = Held \ {u}
           /\ \A v \in Urbs : urb'[v].buf = urb[v].buf
<1>1. urb[u] \in UrbType /\ urb'[u] = [urb[u] EXCEPT !.st = "Out"]
      /\ \A v \in Urbs : v # u => urb'[v] = urb[v]
  OBVIOUS
<1>2. urb'[u] \in UrbType /\ urb'[u].buf = urb[u].buf /\ urb'[u].st = "Out" BY <1>1 DEF UrbType
<1>3. urb' \in [Urbs -> UrbType] BY <1>1, <1>2
<1>4. \A v \in Urbs : urb'[v].st # "Out" <=> v # u /\ urb[v].st # "Out" BY <1>1, <1>2
<1>5. \A v \in Urbs : urb'[v].buf = urb[v].buf BY <1>1, <1>2
<1> QED BY <1>3, <1>4, <1>5 DEF Held

\* The buffer of a transfer that libusb does not have is taken away.
LEMMA Blank ==
    ASSUME urb \in [Urbs -> UrbType], NEW u \in Urbs, urb' = [urb EXCEPT ![u].buf = NoBuf],
           u \notin Held
    PROVE  /\ urb' \in [Urbs -> UrbType] /\ Held' = Held
           /\ \A v \in Urbs : v # u => urb'[v] = urb[v]
<1>1. urb[u] \in UrbType /\ urb'[u] = [urb[u] EXCEPT !.buf = NoBuf]
      /\ \A v \in Urbs : v # u => urb'[v] = urb[v]
  OBVIOUS
<1>2. urb'[u] \in UrbType /\ urb'[u].st = urb[u].st BY <1>1 DEF UrbType
<1>3. urb' \in [Urbs -> UrbType] BY <1>1, <1>2
<1>4. \A v \in Urbs : urb'[v].st # "Out" <=> urb[v].st # "Out" BY <1>1, <1>2
<1> QED BY <1>1, <1>3, <1>4 DEF Held

\* rx_loop cancels every transfer.
LEMMA CancelAll ==
    ASSUME urb \in [Urbs -> UrbType], Cancel
    PROVE  /\ urb' \in [Urbs -> UrbType] /\ Held' = Held
           /\ \A v \in Urbs : urb'[v].buf = urb[v].buf
<1>1. \A u \in Urbs : urb'[u] \in UrbType /\ urb'[u].buf = urb[u].buf
                      /\ (urb'[u].st # "Out" <=> urb[u].st # "Out")
  <2> SUFFICES ASSUME NEW u \in Urbs
               PROVE  urb'[u] \in UrbType /\ urb'[u].buf = urb[u].buf
                      /\ (urb'[u].st # "Out" <=> urb[u].st # "Out")
    OBVIOUS
  <2>1. urb[u] \in UrbType OBVIOUS
  <2>2. CASE urb[u].st = "Armed"
    <3>1. urb'[u] = [urb[u] EXCEPT !.st = "Cancelled"] BY <2>2 DEF Cancel
    <3> QED BY <2>1, <2>2, <3>1 DEF UrbType, Completions
  <2>3. CASE urb[u].st # "Armed"
    <3>1. urb'[u] = urb[u] BY <2>3 DEF Cancel
    <3> QED BY <2>1, <3>1
  <2> QED BY <2>2, <2>3
<1>2. urb' \in [Urbs -> UrbType]
  <2>1. DOMAIN urb' = Urbs /\ urb' = [u \in Urbs |-> urb'[u]] BY DEF Cancel
  <2> QED BY <1>1, <2>1
<1> QED BY <1>1, <1>2 DEF Held

\* What the invariant says of the state before a step, and what NoCb is.
LEMMA Before ==
    ASSUME RxInv
    PROVE  /\ cfg \in CfgType /\ urb \in [Urbs -> UrbType] /\ sh \in SharedType
           /\ cb \in CbType /\ con \in ConType
           /\ sh.queue \in Seq(Bufs) /\ sh.parked \in Seq(Urbs) /\ sh.free \subseteq Bufs
           /\ sh.active \in Int
           /\ Elems(sh.queue) \subseteq Bufs /\ Elems(sh.parked) \subseteq Urbs
           /\ NoBuf \notin Bufs /\ cb.urb \in Urbs /\ Held \subseteq Urbs
           /\ cb.pc \notin {"Idle", "Park"} => cb.buf \in Bufs
           /\ cb.pc = "SubmitFresh" => cb.fresh \in Bufs
           /\ con.pc \in {"Consume", "Return"} => con.buf \in Bufs
           /\ NoCb \in CbType /\ NoCb.pc = "Idle" /\ NoCb.buf = NoBuf /\ NoCb.fresh = NoBuf
<1>1. /\ cfg \in CfgType /\ urb \in [Urbs -> UrbType] /\ sh \in SharedType
      /\ cb \in CbType /\ con \in ConType
  BY DEF RxInv, Types
<1>2. sh.queue \in Seq(Bufs) /\ sh.parked \in Seq(Urbs) /\ sh.free \subseteq Bufs
      /\ sh.active \in Int
  BY <1>1 DEF SharedType
<1>3. Elems(sh.queue) \subseteq Bufs /\ Elems(sh.parked) \subseteq Urbs BY <1>2, EmptyElems
<1>4. NoBuf \notin Bufs BY RxAssumption DEF RxAssumption, Bufs
<1>5. cb.urb \in Urbs /\ cb.buf \in Bufs \cup {NoBuf} /\ cb.fresh \in Bufs \cup {NoBuf}
      /\ con.buf \in Bufs \cup {NoBuf}
  BY <1>1 DEF CbType, ConType
<1>6. (CHOOSE u \in Urbs : TRUE) \in Urbs BY RxAssumption DEF RxAssumption
<1>7. NoCb \in CbType /\ NoCb.pc = "Idle" /\ NoCb.buf = NoBuf /\ NoCb.fresh = NoBuf
  BY <1>6 DEF NoCb, CbType
<1> QED BY <1>1, <1>2, <1>3, <1>4, <1>5, <1>7 DEF RxInv, BufInv, BufHand, Held

\* The parts of the invariant, for a step to cite.
LEMMA Parts ==
    ASSUME RxInv
    PROVE  Types /\ RingInv /\ ModeInv /\ PhaseInv /\ BusyInv
           /\ BufHeld /\ BufOnce /\ BufFree /\ BufQueue /\ BufHand
BY DEF RxInv, BufInv

\* A transfer is retired.
LEMMA Retire ==
    ASSUME RxInv, NEW u \in Counted, Counted' = Counted \ {u}
    PROVE  Cardinality(Counted') = sh.active - 1
<1>1. IsFiniteSet(Counted) /\ Cardinality(Counted) \in Nat
  BY CountType, Parts, FS_CardinalityType
<1>2. Cardinality(Counted \ {u}) = Cardinality(Counted) - 1 BY <1>1, FS_RemoveElement
<1> QED BY <1>2, Parts DEF RingInv

\* The parked transfers are retired.
LEMMA RetireParked ==
    ASSUME RxInv, Counted' = Counted \ Elems(sh.parked)
    PROVE  Cardinality(Counted') = sh.active - Len(sh.parked)
<1> DEFINE E == Elems(sh.parked)
<1>1. IsFiniteSet(Counted) /\ E \subseteq Counted BY CountType, Parts DEF Counted
<1>2. IsFiniteSet(E) /\ Cardinality(E) = Len(sh.parked)
  <2>1. Distinct(sh.parked) /\ sh.parked \in Seq(Urbs) BY Parts, Before DEF RingInv
  <2> QED BY <2>1, DistinctLength
<1>3. Counted \cap E = E BY <1>1
<1>4. Cardinality(Counted \ E) = Cardinality(Counted) - Cardinality(Counted \cap E)
  BY <1>1, <1>2, FS_Difference
<1> QED BY <1>2, <1>3, <1>4, Parts DEF RingInv

\* A ring of two or more is more than one transfer.
LEMMA SomeOther ==
    ASSUME RxInv, Cardinality(cfg.ring) >= 2
    PROVE  Others # {}
<1> SUFFICES ASSUME Others = {} PROVE FALSE OBVIOUS
<1>1. cfg.ring \subseteq {cb.urb} BY DEF Others, Mine
<1>2. Cardinality({cb.urb}) = 1 /\ IsFiniteSet({cb.urb}) BY FS_Singleton
<1>3. Cardinality(cfg.ring) <= 1 /\ IsFiniteSet(cfg.ring) BY <1>1, <1>2, FS_Subset
<1>4. Cardinality(cfg.ring) \in Nat BY <1>3, FS_CardinalityType
<1> QED BY <1>3, <1>4

\* A step of the device or of the caller.
LEMMA Quiet ==
    ASSUME RxInv, UNCHANGED <<cfg, sh, cb, con, pc>>, stop' \in BOOLEAN, plugged' \in BOOLEAN,
           plugged' => plugged, urb' \in [Urbs -> UrbType], Held' = Held,
           \A v \in Urbs : urb'[v].buf = urb[v].buf
    PROVE  RxInv'
<1>1. Mine' = Mine BY DEF Mine
<1>2. Counted' = Counted BY <1>1 DEF Counted
<1>3. Types' BY Parts DEF Types
<1>4. RingInv' BY <1>1, <1>2, Parts DEF RingInv
<1>5. ModeInv' BY Parts DEF ModeInv, spsc, bp
<1>6. PhaseInv' BY <1>2, Parts DEF PhaseInv, spsc
<1>7. BufHeld' BY Before, Parts DEF BufHeld
<1>8. BufOnce' BY Before, Parts DEF BufOnce
<1>9. BufFree' /\ BufQueue' /\ BufHand' BY Parts DEF BufFree, BufQueue, BufHand
<1>10. BusyInv' BY <1>1, <1>2, Parts DEF BusyInv, Others
<1> QED BY <1>3, <1>4, <1>5, <1>6, <1>7, <1>8, <1>9, <1>10 DEF RxInv, BufInv

\* A callback has the transfer libusb had, and its buffer.
LEMMA CbEnterInv == ASSUME RxInv, NEW u \in Urbs, NEW thread \in {"rx", "tx"}, CbEnter(u, thread) PROVE RxInv'
<1>1. /\ UNCHANGED <<cfg, con, pc, stop, plugged>> /\ cb.pc = "Idle" /\ u \in Held
      /\ sh'.active = sh.active /\ sh'.queue = sh.queue /\ sh'.parked = sh.parked
      /\ sh'.closed = sh.closed /\ sh'.consumer_stop = sh.consumer_stop
      /\ sh'.free = sh.free /\ sh' \in SharedType
      /\ cb' \in CbType /\ cb'.urb = u /\ cb'.buf = urb[u].buf /\ cb'.fresh = NoBuf
      /\ cb'.pc \in {"Consume", "Take"}
      /\ urb' \in [Urbs -> UrbType] /\ Held' = Held \ {u}
      /\ \A v \in Urbs : urb'[v].buf = urb[v].buf
  <2>1. urb' = [urb EXCEPT ![u].st = "Out"] /\ u \in Held
    BY DEF CbEnter, Completions, Held
  <2>2. urb[u].buf \in Bufs \cup {NoBuf} BY Before DEF UrbType
  <2>3. (sh.dead \/ urb[u].st = "Gone") \in BOOLEAN OBVIOUS
  <2>4. sh' = [sh EXCEPT !.dead = sh.dead \/ urb[u].st = "Gone"] BY DEF CbEnter
  <2>5. (~ stop /\ urb[u].st \in {"Data", "Empty"}) \in BOOLEAN /\ (urb[u].st = "Data") \in BOOLEAN
    OBVIOUS
  <2>6. cb' \in CbType /\ cb'.urb = u /\ cb'.buf = urb[u].buf /\ cb'.fresh = NoBuf
        /\ cb'.pc \in {"Consume", "Take"}
    <3>1. PICK r \in BOOLEAN, f \in BOOLEAN, p \in {"Consume", "Take"} :
             cb' = [pc |-> p, on |-> thread, urb |-> u, resubmit |-> r, full |-> f,
                    buf |-> urb[u].buf, fresh |-> NoBuf]
      BY <2>5 DEF CbEnter
    <3> QED BY <2>2, <3>1 DEF CbType
  <2>7. /\ sh'.active = sh.active /\ sh'.queue = sh.queue /\ sh'.parked = sh.parked
        /\ sh'.closed = sh.closed /\ sh'.consumer_stop = sh.consumer_stop
        /\ sh'.free = sh.free /\ sh' \in SharedType
    <3>1. PICK d \in BOOLEAN : sh' = [sh EXCEPT !.dead = d] BY <2>3, <2>4
    <3> QED BY <3>1, Before DEF SharedType
  <2> QED BY <2>1, <2>6, <2>7, HandOver, Before DEF CbEnter, Running
<1>2. Mine = {} /\ Mine' = {u} BY <1>1 DEF Mine
<1>3. Counted' = Counted BY <1>1, <1>2 DEF Counted
<1>4. Types' BY <1>1, Parts DEF Types
<1>5. RingInv' BY <1>1, <1>2, <1>3, Parts DEF RingInv
<1>6. ModeInv' BY <1>1, Parts DEF ModeInv, spsc, bp
<1>7. PhaseInv' BY <1>1, <1>3, Parts DEF PhaseInv, spsc
<1>8. BufHeld' BY <1>1, Parts, Before DEF BufHeld, BufOnce, BufHand
<1>9. BufOnce' BY <1>1, Parts, Before DEF BufOnce
<1>10. BufFree' BY <1>1, Parts, Before DEF BufFree, BufHeld
<1>11. BufQueue' BY <1>1, Parts, Before DEF BufQueue, BufHeld
<1>12. BufHand' BY <1>1, Parts, Before DEF BufHand, BufHeld
<1>13. BusyInv' BY <1>1, <1>2, <1>3, Parts DEF BusyInv, Others
<1> QED BY <1>4, <1>5, <1>6, <1>7, <1>8, <1>9, <1>10, <1>11, <1>12, <1>13 DEF RxInv, BufInv

\* A fresh buffer leaves the pool.
LEMMA CbTakeInv == ASSUME RxInv, CbTake PROVE RxInv'
<1>1. /\ UNCHANGED <<cfg, urb, con, pc, stop, plugged>> /\ Held' = Held
      /\ sh'.active = sh.active /\ sh'.queue = sh.queue /\ sh'.parked = sh.parked
      /\ sh'.closed = sh.closed /\ sh'.consumer_stop = sh.consumer_stop
      /\ cb'.urb = cb.urb /\ cb'.buf = cb.buf
      /\ sh' \in SharedType /\ cb' \in CbType /\ cb.pc = "Take" /\ cb.fresh = NoBuf
      /\ \/ /\ cb'.pc = "SubmitFresh"
            /\ cb'.fresh \in sh.free /\ sh'.free = sh.free \ {cb'.fresh}
         \/ /\ cb'.pc \in {"Exhausted", "Consume"} /\ (cb'.pc = "Exhausted" => spsc)
            /\ cb'.fresh = cb.fresh /\ sh'.free = sh.free
  BY ZenonT(60), Before, Parts DEF CbTake, Running, Held, SharedType, CbType, Goto, Degraded, BufHand
<1>3. Types' BY <1>1, Parts DEF Types
<1>4. Mine' = Mine BY <1>1 DEF Mine
<1>5. Counted' = Counted BY <1>1, <1>4 DEF Counted
<1>6. RingInv' BY <1>1, <1>4, <1>5, Parts DEF RingInv
<1>7. ModeInv' BY <1>1, Parts DEF ModeInv, spsc, bp
<1>8. PhaseInv' BY <1>1, <1>5, Parts DEF PhaseInv, spsc
<1>9. BufHeld' BY <1>1, Parts, Before DEF BufHeld
<1>10. BufOnce' BY <1>1, Parts DEF BufOnce
<1>11. BufFree' BY <1>1, Parts DEF BufFree
<1>12. BufQueue' BY <1>1, Parts, Before DEF BufQueue, BufFree
<1>13. BufHand' BY <1>1, Parts, Before DEF BufHand, BufFree
<1>14. BusyInv' BY <1>1, <1>4, <1>5, Parts DEF BusyInv, Others, Mine
<1> QED BY <1>3, <1>6, <1>7, <1>8, <1>9, <1>10, <1>11, <1>12, <1>13, <1>14 DEF RxInv, BufInv

\* The fresh buffer is with libusb, or back in the pool.
LEMMA CbSubmitFreshInv == ASSUME RxInv, CbSubmitFresh PROVE RxInv'
<1>1. /\ UNCHANGED <<cfg, con, pc, stop, plugged>> /\ cb.pc = "SubmitFresh"
      /\ sh'.active = sh.active /\ sh'.queue = sh.queue /\ sh'.parked = sh.parked
      /\ sh'.closed = sh.closed /\ sh'.consumer_stop = sh.consumer_stop
      /\ sh' \in SharedType /\ cb' \in CbType /\ urb' \in [Urbs -> UrbType]
      /\ cb'.urb = cb.urb /\ cb'.buf = cb.buf /\ cb'.fresh = NoBuf
      /\ \/ /\ Held' = Held \cup {cb.urb} /\ urb'[cb.urb].buf = cb.fresh
            /\ \A v \in Urbs : v # cb.urb => urb'[v] = urb[v]
            /\ sh'.free = sh.free
            /\ cb'.pc \in {"Enqueue", "ConsumeReceived"} /\ (cb'.pc = "Enqueue" => spsc)
         \/ /\ urb' = urb /\ Held' = Held /\ sh'.free = sh.free \cup {cb.fresh}
            /\ cb'.pc \in {"Exhausted", "Consume"} /\ (cb'.pc = "Exhausted" => spsc)
  <2>1. cb.pc = "SubmitFresh" /\ UNCHANGED <<cfg, con, pc, stop, plugged>> /\ cb.fresh \in Bufs
    BY Before DEF CbSubmitFresh, Running
  <2>2. CASE /\ Submitted(cb.urb, cb.fresh) /\ sh' = sh
             /\ cb' = [cb EXCEPT !.pc = IF spsc THEN "Enqueue" ELSE "ConsumeReceived",
                                 !.fresh = NoBuf]
    <3>1. cb' \in CbType /\ cb'.urb = cb.urb /\ cb'.buf = cb.buf /\ cb'.fresh = NoBuf
          /\ cb'.pc \in {"Enqueue", "ConsumeReceived"} /\ (cb'.pc = "Enqueue" => spsc)
      BY <2>2, Before DEF CbType
    <3> QED BY <2>1, <2>2, <3>1, Arm, Before
  <2>3. CASE /\ urb' = urb /\ sh' = [sh EXCEPT !.free = @ \cup {cb.fresh}]
             /\ cb' = [cb EXCEPT !.pc = Degraded, !.fresh = NoBuf]
    <3>1. cb' \in CbType /\ cb'.urb = cb.urb /\ cb'.buf = cb.buf /\ cb'.fresh = NoBuf
          /\ cb'.pc \in {"Exhausted", "Consume"} /\ (cb'.pc = "Exhausted" => spsc)
      BY <2>3, Before DEF CbType, Degraded
    <3>2. /\ sh'.active = sh.active /\ sh'.queue = sh.queue /\ sh'.parked = sh.parked
          /\ sh'.closed = sh.closed /\ sh'.consumer_stop = sh.consumer_stop
          /\ sh' \in SharedType /\ sh'.free = sh.free \cup {cb.fresh}
      BY <2>1, <2>3, Before DEF SharedType
    <3>3. Held' = Held BY <2>3 DEF Held
    <3> QED BY <2>1, <2>3, <3>1, <3>2, <3>3, Before
  <2> QED BY <2>1, <2>2, <2>3 DEF CbSubmitFresh
<1>2. Mine = {cb.urb} /\ (Held' = Held => Mine' = Mine) /\ (Held' # Held => Mine' = {}) BY <1>1, Parts DEF RingInv, Mine
<1>3. Counted' = Counted BY <1>1, <1>2 DEF Counted
<1>4. Types' BY <1>1, Parts DEF Types
<1>5. RingInv' BY <1>1, <1>2, <1>3, Parts DEF RingInv
<1>6. ModeInv' BY <1>1, Parts DEF ModeInv, spsc, bp
<1>7. PhaseInv' BY <1>1, <1>3, Parts DEF PhaseInv, spsc
<1>8. BufHeld' BY <1>1, Parts, Before DEF BufHeld, BufHand, BufFree, BufQueue
<1>9. BufOnce' BY <1>1, Parts, Before DEF BufOnce, BufHeld
<1>10. BufFree' BY <1>1, Parts, Before DEF BufFree, BufHand, BufQueue
<1>11. BufQueue' BY <1>1, Parts, Before DEF BufQueue
<1>12. BufHand' BY <1>1, Parts, Before DEF BufHand
<1>13. BusyInv'
  <2>1. cb.urb \in cfg.ring /\ cb.urb \notin Elems(sh.parked)
    BY <1>2, Parts DEF BusyInv, RingInv, Counted
  <2> QED BY <1>1, <1>2, <1>3, <2>1, Parts DEF BusyInv, Others, Mine
<1> QED BY <1>4, <1>5, <1>6, <1>7, <1>8, <1>9, <1>10, <1>11, <1>12, <1>13 DEF RxInv, BufInv

\* on_data ran: the buffer is still the callback's.
LEMMA CbConsumeInv == ASSUME RxInv, CbConsume PROVE RxInv'
<1>1. /\ UNCHANGED <<cfg, urb, sh, con, pc, stop, plugged>> /\ Held' = Held
      /\ cb' \in CbType /\ cb'.urb = cb.urb /\ cb'.buf = cb.buf /\ cb'.fresh = cb.fresh
      /\ \/ cb.pc = "Consume" /\ cb'.pc = "Resubmit"
         \/ cb.pc = "ConsumeReceived" /\ cb'.pc = "Return"
  BY Before DEF CbConsume, Running, Goto, CbType, Held
<1>2. Mine' = Mine BY <1>1 DEF Mine
<1>3. Counted' = Counted BY <1>1, <1>2 DEF Counted
<1>4. Types' BY <1>1, Parts DEF Types
<1>5. RingInv' BY <1>1, <1>2, <1>3, Parts DEF RingInv
<1>6. ModeInv' BY <1>1, Parts DEF ModeInv, spsc, bp
<1>7. PhaseInv' BY <1>1, <1>3, Parts DEF PhaseInv, spsc
<1>8. BufHeld' BY <1>1, Parts, Before DEF BufHeld
<1>9. BufOnce' BY <1>1, Parts DEF BufOnce
<1>10. BufFree' BY <1>1, Parts, Before DEF BufFree
<1>11. BufQueue' BY <1>1, Parts, Before DEF BufQueue
<1>12. BufHand' BY <1>1, Parts, Before DEF BufHand
<1>13. BusyInv' BY <1>1, <1>2, <1>3, Parts DEF BusyInv, Others, Mine
<1> QED BY <1>4, <1>5, <1>6, <1>7, <1>8, <1>9, <1>10, <1>11, <1>12, <1>13 DEF RxInv, BufInv

\* The callback's buffer goes to the pool.
LEMMA CbReturnInv == ASSUME RxInv, CbReturn PROVE RxInv'
<1>1. /\ UNCHANGED <<cfg, urb, con, pc, stop, plugged>> /\ Held' = Held
      /\ sh'.active = sh.active /\ sh'.queue = sh.queue /\ sh'.parked = sh.parked
      /\ sh'.closed = sh.closed /\ sh'.consumer_stop = sh.consumer_stop
      /\ sh' \in SharedType /\ sh'.free = sh.free \cup {cb.buf} /\ cb.pc = "Return"
      /\ cb' \in CbType /\ cb'.pc = "Idle" /\ cb'.buf = NoBuf /\ cb'.fresh = NoBuf
  BY Before DEF CbReturn, Running, Ends, SharedType, Held
<1>2. Mine' = Mine /\ Mine = {} BY <1>1 DEF Mine
<1>3. Counted' = Counted BY <1>1, <1>2 DEF Counted
<1>4. Types' BY <1>1, Parts DEF Types
<1>5. RingInv' BY <1>1, <1>2, <1>3, Parts DEF RingInv
<1>6. ModeInv' BY <1>1, Parts DEF ModeInv, spsc, bp
<1>7. PhaseInv' BY <1>1, <1>3, Parts DEF PhaseInv, spsc
<1>8. BufHeld' BY <1>1, Parts, Before DEF BufHeld, BufHand
<1>9. BufOnce' BY <1>1, Parts DEF BufOnce
<1>10. BufFree' BY <1>1, Parts, Before DEF BufFree, BufHand, BufQueue
<1>11. BufQueue' BY <1>1, Parts, Before DEF BufQueue
<1>12. BufHand' BY <1>1, Parts, Before DEF BufHand
<1>13. BusyInv' BY <1>1, <1>2, <1>3, Parts DEF BusyInv, Others
<1> QED BY <1>4, <1>5, <1>6, <1>7, <1>8, <1>9, <1>10, <1>11, <1>12, <1>13 DEF RxInv, BufInv

\* The transfer is with libusb again, with the buffer it had, or retired.
LEMMA AgainOrRetireInv ==
    ASSUME RxInv, AgainOrRetire, Ends, cb.pc \in {"Resubmit", "Exhausted"},
           UNCHANGED <<cfg, con, pc, stop, plugged>>
    PROVE  RxInv'
<1>1. /\ UNCHANGED <<cfg, con, pc, stop, plugged>>
      /\ sh'.queue = sh.queue /\ sh'.parked = sh.parked /\ sh'.free = sh.free
      /\ sh'.closed = sh.closed /\ sh'.consumer_stop = sh.consumer_stop
      /\ sh' \in SharedType /\ urb' \in [Urbs -> UrbType]
      /\ cb' \in CbType /\ cb'.pc = "Idle" /\ cb'.buf = NoBuf /\ cb'.fresh = NoBuf
      /\ \/ /\ Held' = Held \cup {cb.urb} /\ urb'[cb.urb].buf = cb.buf
            /\ \A v \in Urbs : v # cb.urb => urb'[v] = urb[v]
            /\ sh'.active = sh.active
         \/ urb' = urb /\ Held' = Held /\ sh'.active = sh.active - 1
  <2>1. cb.buf \in Bufs /\ cb' = NoCb BY Before DEF Ends
  <2>2. CASE Submitted(cb.urb, cb.buf) /\ sh' = sh BY <2>1, <2>2, Arm, Before
  <2>3. CASE urb' = urb /\ sh' = [sh EXCEPT !.active = @ - 1]
    <3>1. /\ sh'.queue = sh.queue /\ sh'.parked = sh.parked /\ sh'.free = sh.free
          /\ sh'.closed = sh.closed /\ sh'.consumer_stop = sh.consumer_stop
          /\ sh' \in SharedType /\ sh'.active = sh.active - 1
      BY <2>3, Before DEF SharedType
    <3>2. Held' = Held BY <2>3 DEF Held
    <3> QED BY <2>1, <2>3, <3>1, <3>2, Before
  <2> QED BY <2>2, <2>3 DEF AgainOrRetire
<1>2. Mine = {cb.urb} /\ Mine' = {} BY <1>1 DEF Mine
<1>3. cb.urb \in Counted BY <1>2 DEF Counted
<1>4. \/ Counted' = Counted /\ sh'.active = sh.active
      \/ Counted' = Counted \ {cb.urb} /\ sh'.active = sh.active - 1
  BY <1>1, <1>2, Parts DEF Counted, RingInv
<1>5. sh'.active = Cardinality(Counted') BY <1>3, <1>4, Retire, Parts DEF RingInv
<1>6. Types' BY <1>1, Parts DEF Types
<1>7. RingInv' BY <1>1, <1>2, <1>5, Parts DEF RingInv
<1>8. ModeInv' BY <1>1, Parts DEF ModeInv, spsc, bp
<1>9. PhaseInv' BY <1>1, <1>4, Parts DEF PhaseInv, spsc
<1>10. BufHeld' BY <1>1, Parts, Before DEF BufHeld, BufHand, BufFree, BufQueue
<1>11. BufOnce' BY <1>1, Parts, Before DEF BufOnce, BufHeld
<1>12. BufFree' /\ BufQueue' BY <1>1, Parts, Before DEF BufFree, BufQueue
<1>13. BufHand' BY <1>1, Parts, Before DEF BufHand
<1>14. BusyInv' BY <1>1, <1>2, <1>3, <1>4, Parts DEF BusyInv, Others, RingInv
<1> QED BY <1>6, <1>7, <1>8, <1>9, <1>10, <1>11, <1>12, <1>13, <1>14 DEF RxInv, BufInv

\* The transfer goes back, or is retired.
LEMMA CbResubmitInv == ASSUME RxInv, CbResubmit PROVE RxInv'
BY AgainOrRetireInv DEF CbResubmit, Running

\* A received frame is queued, an empty one's buffer is pooled.
LEMMA CbEnqueueInv == ASSUME RxInv, CbEnqueue PROVE RxInv'
<1>1. /\ UNCHANGED <<cfg, urb, con, pc, stop, plugged>> /\ Held' = Held /\ cb.pc = "Enqueue"
      /\ sh'.active = sh.active /\ sh'.parked = sh.parked
      /\ sh'.closed = sh.closed /\ sh'.consumer_stop = sh.consumer_stop
      /\ sh' \in SharedType /\ sh'.queue \in Seq(Bufs)
      /\ \/ /\ sh'.queue = Append(sh.queue, cb.buf) /\ sh'.free = sh.free
         \/ sh'.queue = sh.queue /\ sh'.free = sh.free \cup {cb.buf}
      /\ cb' \in CbType /\ cb'.pc = "Idle" /\ cb'.buf = NoBuf /\ cb'.fresh = NoBuf
  <2>1. cb.buf \in Bufs /\ Append(sh.queue, cb.buf) \in Seq(Bufs)
    BY Before, AppendElems DEF CbEnqueue, Running
  <2>2. CASE cb.full BY <2>1, <2>2, Before DEF CbEnqueue, Running, Ends, SharedType, Held
  <2>3. CASE ~ cb.full BY <2>1, <2>3, Before DEF CbEnqueue, Running, Ends, SharedType, Held
  <2> QED BY <2>2, <2>3
<1>a. \/ /\ Elems(sh'.queue) = Elems(sh.queue) \cup {cb.buf} /\ sh'.free = sh.free
         /\ Distinct(sh'.queue) /\ sh'.queue # <<>>
      \/ sh'.queue = sh.queue /\ sh'.free = sh.free \cup {cb.buf}
  <2>1. cb.buf \in Bufs /\ cb.buf \notin Elems(sh.queue) /\ Distinct(sh.queue)
    BY <1>1, Before, Parts DEF BufQueue
  <2>2. /\ Append(sh.queue, cb.buf) \in Seq(Bufs) /\ Distinct(Append(sh.queue, cb.buf))
        /\ Elems(Append(sh.queue, cb.buf)) = Elems(sh.queue) \cup {cb.buf}
    BY <2>1, Before, AppendElems
  <2>3. Append(sh.queue, cb.buf) # <<>> BY <2>2, EmptyElems
  <2> QED BY <1>1, <2>2, <2>3
<1>2. Mine' = Mine /\ Mine = {} BY <1>1 DEF Mine
<1>3. Counted' = Counted BY <1>1, <1>2 DEF Counted
<1>4. Types' BY <1>1, Parts DEF Types
<1>5. RingInv' BY <1>1, <1>2, <1>3, Parts DEF RingInv
<1>6. ModeInv' BY <1>1, Parts DEF ModeInv, spsc, bp
<1>7. PhaseInv' BY <1>1, <1>a, <1>3, Parts DEF PhaseInv, spsc, ModeInv, RingInv, Counted
<1>8. BufHeld' BY <1>1, <1>a, Parts, Before DEF BufHeld, BufHand
<1>9. BufOnce' BY <1>1, Parts DEF BufOnce
<1>10. BufFree' BY <1>1, <1>a, Parts, Before DEF BufFree, BufHand, BufQueue
<1>11. BufQueue' BY <1>1, <1>a, Parts, Before DEF BufQueue, BufHand
<1>12. BufHand' BY <1>1, Parts, Before DEF BufHand
<1>13. BusyInv' BY <1>1, <1>a, <1>2, <1>3, Parts DEF BusyInv, Others
<1> QED BY <1>4, <1>5, <1>6, <1>7, <1>8, <1>9, <1>10, <1>11, <1>12, <1>13 DEF RxInv, BufInv

\* The frame is queued and the transfer loses its buffer; or the frame is dropped.
LEMMA CbExhaustedInv == ASSUME RxInv, CbExhausted PROVE RxInv'
<1>q. CASE ~ (bp /\ cb.resubmit /\ cb.full) BY <1>q, AgainOrRetireInv DEF CbExhausted, Running
<1> SUFFICES ASSUME bp /\ cb.resubmit /\ cb.full PROVE RxInv' BY <1>q
<1>p. bp /\ cb.resubmit /\ cb.full OBVIOUS
<1>1. /\ UNCHANGED <<cfg, con, pc, stop, plugged>> /\ cb.pc = "Exhausted" /\ bp
      /\ sh'.active = sh.active /\ sh'.parked = sh.parked
      /\ sh'.closed = sh.closed /\ sh'.consumer_stop = sh.consumer_stop
      /\ sh' \in SharedType /\ sh'.free = sh.free
      /\ Elems(sh'.queue) = Elems(sh.queue) \cup {cb.buf} /\ Distinct(sh'.queue)
      /\ sh'.queue # <<>>
      /\ urb' \in [Urbs -> UrbType] /\ Held' = Held /\ cb.urb \notin Held
      /\ \A v \in Urbs : v # cb.urb => urb'[v] = urb[v]
      /\ cb' \in CbType /\ cb'.pc = "Park" /\ cb'.urb = cb.urb /\ cb'.buf = NoBuf
      /\ cb'.fresh = NoBuf
  <2>1. cb.pc = "Exhausted" /\ cb.buf \in Bufs /\ cb.fresh = NoBuf /\ cb.urb \notin Held
        /\ cb.buf \notin Elems(sh.queue) /\ Distinct(sh.queue)
    BY Before, Parts DEF CbExhausted, Running, BufHand, BufQueue, RingInv, Mine
  <2>2. /\ urb' = [urb EXCEPT ![cb.urb].buf = NoBuf]
        /\ sh' = [sh EXCEPT !.queue = Append(@, cb.buf)]
        /\ cb' = [cb EXCEPT !.pc = "Park", !.buf = NoBuf]
    BY <1>p DEF CbExhausted
  <2>3. /\ Append(sh.queue, cb.buf) \in Seq(Bufs) /\ Distinct(Append(sh.queue, cb.buf))
        /\ Elems(Append(sh.queue, cb.buf)) = Elems(sh.queue) \cup {cb.buf}
    BY <2>1, Before, AppendElems
  <2>4. Append(sh.queue, cb.buf) # <<>> BY <2>3, EmptyElems
  <2>5. /\ sh'.active = sh.active /\ sh'.parked = sh.parked
        /\ sh'.closed = sh.closed /\ sh'.consumer_stop = sh.consumer_stop
        /\ sh' \in SharedType /\ sh'.free = sh.free /\ sh'.queue = Append(sh.queue, cb.buf)
    BY <2>2, <2>3, Before DEF SharedType
  <2>6. cb' \in CbType /\ cb'.pc = "Park" /\ cb'.urb = cb.urb /\ cb'.buf = NoBuf
        /\ cb'.fresh = NoBuf
    BY <2>1, <2>2, Before DEF CbType
  <2>7. /\ urb' \in [Urbs -> UrbType] /\ Held' = Held
        /\ \A v \in Urbs : v # cb.urb => urb'[v] = urb[v]
    BY <2>1, <2>2, Before, Blank
  <2> QED BY <2>1, <2>3, <2>4, <2>5, <2>6, <2>7, <1>p DEF CbExhausted
<1>2. Mine' = Mine BY <1>1 DEF Mine
<1>3. Counted' = Counted BY <1>1, <1>2 DEF Counted
<1>4. Types' BY <1>1, Parts DEF Types
<1>5. RingInv' BY <1>1, <1>2, <1>3, Parts DEF RingInv
<1>6. ModeInv' BY <1>1, Parts DEF ModeInv, spsc, bp
<1>7. PhaseInv' BY <1>1, <1>2, <1>3, Parts DEF PhaseInv, spsc, ModeInv, Counted, Mine
<1>8. BufHeld' BY <1>1, Parts, Before DEF BufHeld, BufHand
<1>9. BufOnce' BY <1>1, Parts, Before DEF BufOnce
<1>10. BufFree' BY <1>1, Parts, Before DEF BufFree, BufHand, BufQueue
<1>11. BufQueue' BY <1>1, Parts, Before DEF BufQueue, BufHand
<1>12. BufHand' BY <1>1, Parts, Before DEF BufHand
<1>13. BusyInv' BY <1>1, <1>2, <1>3, Parts DEF BusyInv, Others
<1> QED BY <1>4, <1>5, <1>6, <1>7, <1>8, <1>9, <1>10, <1>11, <1>12, <1>13 DEF RxInv, BufInv

\* The transfer is parked, or retired once rx_loop has closed the list.
LEMMA CbParkInv == ASSUME RxInv, CbPark PROVE RxInv'
<1>1. /\ UNCHANGED <<cfg, urb, con, pc, stop, plugged>> /\ Held' = Held /\ cb.pc = "Park"
      /\ sh'.queue = sh.queue /\ sh'.free = sh.free
      /\ sh'.closed = sh.closed /\ sh'.consumer_stop = sh.consumer_stop
      /\ sh' \in SharedType
      /\ \/ sh.closed /\ sh'.active = sh.active - 1 /\ sh'.parked = sh.parked
         \/ /\ ~ sh.closed /\ sh'.active = sh.active
            /\ Elems(sh'.parked) = Elems(sh.parked) \cup {cb.urb} /\ Distinct(sh'.parked)
      /\ cb' \in CbType /\ cb'.pc = "Idle" /\ cb'.buf = NoBuf /\ cb'.fresh = NoBuf
  <2>1. cb.urb \notin Elems(sh.parked) /\ Distinct(sh.parked)
    BY Parts DEF CbPark, Running, RingInv, Mine
  <2>2. /\ Append(sh.parked, cb.urb) \in Seq(Urbs) /\ Distinct(Append(sh.parked, cb.urb))
        /\ Elems(Append(sh.parked, cb.urb)) = Elems(sh.parked) \cup {cb.urb}
    BY <2>1, Before, AppendElems
  <2>3. CASE sh.closed
    <3>1. sh' = [sh EXCEPT !.active = @ - 1] BY <2>3 DEF CbPark
    <3>2. sh' \in SharedType /\ sh'.parked = sh.parked /\ sh'.active = sh.active - 1
          /\ sh'.queue = sh.queue /\ sh'.free = sh.free
          /\ sh'.closed = sh.closed /\ sh'.consumer_stop = sh.consumer_stop
      BY <3>1, Before DEF SharedType
    <3> QED BY <2>3, <3>2, Before DEF CbPark, Running, Ends, Held
  <2>4. CASE ~ sh.closed
    <3>1. sh' = [sh EXCEPT !.parked = Append(@, cb.urb)] BY <2>4 DEF CbPark
    <3>2. sh' \in SharedType /\ sh'.parked = Append(sh.parked, cb.urb) /\ sh'.active = sh.active
          /\ sh'.queue = sh.queue /\ sh'.free = sh.free
          /\ sh'.closed = sh.closed /\ sh'.consumer_stop = sh.consumer_stop
      BY <2>2, <3>1, Before DEF SharedType
    <3> QED BY <2>2, <2>4, <3>2, Before DEF CbPark, Running, Ends, Held
  <2> QED BY <2>3, <2>4
<1>2. Mine = {cb.urb} /\ Mine' = {} BY <1>1 DEF Mine
<1>3. /\ cb.urb \in Counted
      /\ \/ sh.closed /\ Counted' = Counted \ {cb.urb} /\ sh'.active = sh.active - 1
         \/ Counted' = Counted /\ sh'.active = sh.active
  BY <1>1, <1>2, Parts DEF RingInv, Counted
<1>4. Types' BY <1>1, Parts DEF Types
<1>5. RingInv'
  <2>1. sh'.active = Cardinality(Counted') BY <1>3, Retire, Parts DEF RingInv
  <2> QED BY <1>1, <1>2, <2>1, Parts DEF RingInv
<1>6. ModeInv' BY <1>1, Parts DEF ModeInv, spsc, bp
<1>7. PhaseInv' BY <1>1, <1>3, Parts DEF PhaseInv, spsc
<1>8. BufHeld' BY <1>1, Parts, Before DEF BufHeld
<1>9. BufOnce' BY <1>1, Parts DEF BufOnce
<1>10. BufFree' BY <1>1, Parts, Before DEF BufFree
<1>11. BufQueue' BY <1>1, Parts, Before DEF BufQueue
<1>12. BufHand' BY <1>1, Parts, Before DEF BufHand
<1>13. BusyInv' BY <1>1, <1>2, <1>3, Parts DEF BusyInv, Others, PhaseInv
<1> QED BY <1>4, <1>5, <1>6, <1>7, <1>8, <1>9, <1>10, <1>11, <1>12, <1>13 DEF RxInv, BufInv

\* The consumer has the first buffer of the queue.
LEMMA ConTakeInv == ASSUME RxInv, ConTake PROVE RxInv'
<1>1. /\ UNCHANGED <<cfg, urb, cb, pc, stop, plugged>> /\ Held' = Held /\ con.pc = "Wait"
      /\ sh'.active = sh.active /\ sh'.parked = sh.parked /\ sh'.free = sh.free
      /\ sh'.closed = sh.closed /\ sh'.consumer_stop = sh.consumer_stop
      /\ sh' \in SharedType /\ con' \in ConType /\ con'.pc = "Consume"
      /\ con'.buf \in Elems(sh.queue) /\ con'.buf \notin Elems(sh'.queue)
      /\ Elems(sh'.queue) \subseteq Elems(sh.queue) /\ Distinct(sh'.queue)
  <2>1. /\ Tail(sh.queue) \in Seq(Bufs) /\ Head(sh.queue) \in Bufs
        /\ Head(sh.queue) \in Elems(sh.queue) /\ Head(sh.queue) \notin Elems(Tail(sh.queue))
        /\ Elems(Tail(sh.queue)) \subseteq Elems(sh.queue) /\ Distinct(Tail(sh.queue))
    BY Before, Parts, TailElems DEF ConTake, BufQueue
  <2>2. sh' = [sh EXCEPT !.queue = Tail(@)] /\ con' = [pc |-> "Consume", buf |-> Head(sh.queue)]
        /\ con.pc = "Wait" /\ UNCHANGED <<cfg, urb, cb, pc, stop, plugged>>
    BY DEF ConTake
  <2>3. /\ sh'.active = sh.active /\ sh'.parked = sh.parked /\ sh'.free = sh.free
        /\ sh'.closed = sh.closed /\ sh'.consumer_stop = sh.consumer_stop
        /\ sh' \in SharedType /\ sh'.queue = Tail(sh.queue)
    BY <2>1, <2>2, Before DEF SharedType
  <2>4. con' \in ConType /\ con'.pc = "Consume" /\ con'.buf = Head(sh.queue)
    BY <2>1, <2>2 DEF ConType
  <2> QED BY <2>1, <2>2, <2>3, <2>4 DEF Held
<1>2. Mine' = Mine BY <1>1 DEF Mine
<1>3. Counted' = Counted BY <1>1, <1>2 DEF Counted
<1>4. Types' BY <1>1, Parts DEF Types
<1>5. RingInv' BY <1>1, <1>2, <1>3, Parts DEF RingInv
<1>6. ModeInv'
  <2>1. spsc BY Parts, <1>1 DEF ModeInv
  <2> QED BY <1>1, <2>1, Parts DEF ModeInv, spsc, bp
<1>7. PhaseInv' BY <1>1, <1>3, Parts DEF PhaseInv, spsc
<1>8. BufHeld' BY <1>1, Parts, Before DEF BufHeld
<1>9. BufOnce' BY <1>1, Parts DEF BufOnce
<1>10. BufFree' BY <1>1, Parts, Before DEF BufFree
<1>11. BufQueue' BY <1>1, Parts, Before DEF BufQueue
<1>12. BufHand' BY <1>1, Parts, Before DEF BufHand, BufQueue
<1>13. BusyInv' BY <1>1, <1>2, <1>3, Parts DEF BusyInv, Others
<1> QED BY <1>4, <1>5, <1>6, <1>7, <1>8, <1>9, <1>10, <1>11, <1>12, <1>13 DEF RxInv, BufInv

\* on_data ran: the buffer is still the consumer's.
LEMMA ConConsumeInv == ASSUME RxInv, ConConsume PROVE RxInv'
<1>1. /\ UNCHANGED <<cfg, urb, sh, cb, pc, stop, plugged>> /\ Held' = Held
      /\ con.pc = "Consume" /\ con' \in ConType /\ con'.pc = "Return" /\ con'.buf = con.buf
  BY Before DEF ConConsume, ConType, Held
<1>2. Mine' = Mine BY <1>1 DEF Mine
<1>3. Counted' = Counted BY <1>1, <1>2 DEF Counted
<1>4. Types' BY <1>1, Parts DEF Types
<1>5. RingInv' BY <1>1, <1>2, <1>3, Parts DEF RingInv
<1>6. ModeInv' BY <1>1, Parts DEF ModeInv, spsc, bp
<1>7. PhaseInv' BY <1>1, <1>3, Parts DEF PhaseInv, spsc
<1>8. BufHeld' BY <1>1, Parts, Before DEF BufHeld
<1>9. BufOnce' BY <1>1, Parts DEF BufOnce
<1>10. BufFree' BY <1>1, Parts, Before DEF BufFree
<1>11. BufQueue' BY <1>1, Parts, Before DEF BufQueue
<1>12. BufHand' BY <1>1, Parts, Before DEF BufHand
<1>13. BusyInv' BY <1>1, <1>2, <1>3, Parts DEF BusyInv, Others
<1> QED BY <1>4, <1>5, <1>6, <1>7, <1>8, <1>9, <1>10, <1>11, <1>12, <1>13 DEF RxInv, BufInv

\* A parked transfer is with libusb, with the consumer's buffer; or that goes to the pool.
LEMMA ConReturnInv == ASSUME RxInv, ConReturn PROVE RxInv'
<1>1. /\ UNCHANGED <<cfg, cb, pc, stop, plugged>> /\ con.pc = "Return"
      /\ con' \in ConType /\ con'.pc = "Wait" /\ con'.buf = NoBuf
      /\ sh' \in SharedType /\ urb' \in [Urbs -> UrbType]
      /\ sh'.active = sh.active /\ sh'.queue = sh.queue
      /\ sh'.closed = sh.closed /\ sh'.consumer_stop = sh.consumer_stop
      /\ \/ \E t \in Elems(sh.parked) :
               /\ Rearming /\ Elems(sh'.parked) = Elems(sh.parked) \ {t}
               /\ Distinct(sh'.parked) /\ sh'.free = sh.free
               /\ Held' = Held \cup {t} /\ urb'[t].buf = con.buf
               /\ \A v \in Urbs : v # t => urb'[v] = urb[v]
         \/ /\ Rearming => SubmitFails
            /\ urb' = urb /\ Held' = Held /\ sh'.parked = sh.parked
            /\ sh'.free = sh.free \cup {con.buf}
  <2>1. con.pc = "Return" /\ con.buf \in Bufs /\ UNCHANGED <<cfg, cb, pc, stop, plugged>>
        /\ con' \in ConType /\ con'.pc = "Wait" /\ con'.buf = NoBuf
    BY Before DEF ConReturn, ConType
  <2> DEFINE t == sh.parked[Len(sh.parked)]
             f == SubSeq(sh.parked, 1, Len(sh.parked) - 1)
  <2>2. CASE Rearming /\ Submitted(t, con.buf) /\ sh' = [sh EXCEPT !.parked = f]
    <3>1. /\ f \in Seq(Urbs) /\ t \in Urbs /\ t \in Elems(sh.parked) /\ Distinct(f)
          /\ Elems(f) = Elems(sh.parked) \ {t}
      BY <2>2, Before, Parts, FrontElems DEF Rearming, RingInv
    <3>2. urb' \in [Urbs -> UrbType] /\ Held' = Held \cup {t} /\ urb'[t].buf = con.buf
          /\ \A v \in Urbs : v # t => urb'[v] = urb[v]
      BY <2>1, <2>2, <3>1, Arm, Before
    <3> HIDE DEF t, f
    <3>3. sh' \in SharedType /\ sh'.parked = f /\ sh'.active = sh.active
          /\ sh'.queue = sh.queue /\ sh'.free = sh.free
          /\ sh'.closed = sh.closed /\ sh'.consumer_stop = sh.consumer_stop
      BY <2>2, <3>1, Before DEF SharedType
    <3> QED BY <2>1, <2>2, <3>1, <3>2, <3>3
  <2>3. CASE /\ (Rearming => SubmitFails) /\ urb' = urb
             /\ sh' = [sh EXCEPT !.free = @ \cup {con.buf},
                                 !.dead = @ \/ (Rearming /\ ~ plugged)]
    <3>1. (sh.dead \/ (Rearming /\ ~ plugged)) \in BOOLEAN OBVIOUS
    <3>2. PICK d \in BOOLEAN : sh' = [sh EXCEPT !.free = @ \cup {con.buf}, !.dead = d]
      BY <2>3, <3>1
    <3>3. sh' \in SharedType /\ sh'.parked = sh.parked /\ sh'.active = sh.active
          /\ sh'.queue = sh.queue /\ sh'.free = sh.free \cup {con.buf}
          /\ sh'.closed = sh.closed /\ sh'.consumer_stop = sh.consumer_stop
      BY <2>1, <3>2, Before DEF SharedType
    <3>4. Held' = Held BY <2>3 DEF Held
    <3> QED BY <2>1, <2>3, <3>3, <3>4, Before
  <2> QED BY <2>2, <2>3 DEF ConReturn
<1>2. Mine' = Mine BY <1>1 DEF Mine
<1>3. Counted' = Counted BY <1>1, <1>2 DEF Counted
<1>4. Types' BY <1>1, Parts DEF Types
<1>5. RingInv' BY <1>1, <1>2, <1>3, Parts DEF RingInv
<1>6. ModeInv'
  <2>1. sh'.parked # <<>> => sh.parked # <<>>
    <3>1. sh.parked = <<>> => Elems(sh.parked) = {} BY Before, EmptyElems
    <3> QED BY <1>1, <3>1
  <2>2. spsc BY <1>1, Parts DEF ModeInv
  <2> QED BY <1>1, <2>1, <2>2, Parts DEF ModeInv, spsc, bp
<1>7. PhaseInv'
  <2>1. sh.closed => sh'.parked = sh.parked BY <1>1 DEF Rearming
  <2> QED BY <1>1, <1>3, <2>1, Parts DEF PhaseInv, spsc
<1>8. BufHeld' BY <1>1, Parts, Before DEF BufHeld, BufHand, BufFree, BufQueue
<1>9. BufOnce' BY <1>1, Parts, Before DEF BufOnce, BufHeld
<1>10. BufFree' BY <1>1, Parts, Before DEF BufFree, BufHand, BufQueue
<1>11. BufQueue' BY <1>1, Parts, Before DEF BufQueue
<1>12. BufHand' BY <1>1, Parts, Before DEF BufHand
<1>13. BusyInv'
  <2>1. (Counted \subseteq cfg.ring)' BY <1>1, <1>3, Parts DEF BusyInv
  <2> SUFFICES ASSUME Cardinality(cfg.ring) >= 2, ~ cfg.faulty, plugged, pc = "Loop",
                      Others \subseteq Elems(sh'.parked)
               PROVE  FALSE
    BY <1>1, <1>2, <2>1 DEF BusyInv, Others
  <2>2. Others # {} BY SomeOther
  <2>3. CASE \E t \in Elems(sh.parked) : Elems(sh'.parked) = Elems(sh.parked) \ {t}
    <3>1. PICK t \in Elems(sh.parked) : Elems(sh'.parked) = Elems(sh.parked) \ {t} BY <2>3
    <3>2. t \in Others BY Parts DEF BusyInv, Others, Counted, RingInv
    <3> QED BY <3>1, <3>2
  <2>4. CASE (Rearming => SubmitFails) /\ sh'.parked = sh.parked
    <3>1. sh.parked # <<>>
      <4>1. Elems(sh.parked) # {} BY <2>2, <2>4
      <4> QED BY <4>1, EmptyElems, Before
    <3>2. Rearming BY <3>1, Parts DEF Rearming, ModeInv, PhaseInv
    <3> QED BY <2>4, <3>2 DEF SubmitFails
  <2> QED BY <1>1, <2>3, <2>4
<1> QED BY <1>4, <1>5, <1>6, <1>7, <1>8, <1>9, <1>10, <1>11, <1>12, <1>13 DEF RxInv, BufInv

\* The consumer ends with nothing queued.
LEMMA ConStopInv == ASSUME RxInv, ConStop PROVE RxInv'
<1>1. /\ UNCHANGED <<cfg, urb, sh, cb, pc, stop, plugged>> /\ Held' = Held
      /\ con.pc = "Wait" /\ con' \in ConType /\ con'.pc = "Stopped" /\ con'.buf = con.buf
      /\ sh.queue = <<>> /\ sh.consumer_stop
  BY Before DEF ConStop, ConType, Held
<1>2. Mine' = Mine BY <1>1 DEF Mine
<1>3. Counted' = Counted BY <1>1, <1>2 DEF Counted
<1>4. Types' BY <1>1, Parts DEF Types
<1>5. RingInv' BY <1>1, <1>2, <1>3, Parts DEF RingInv
<1>6. ModeInv' BY <1>1, Parts DEF ModeInv, spsc, bp
<1>7. PhaseInv' BY <1>1, <1>3, Parts DEF PhaseInv, spsc
<1>8. BufHeld' BY <1>1, Parts, Before DEF BufHeld
<1>9. BufOnce' BY <1>1, Parts DEF BufOnce
<1>10. BufFree' BY <1>1, Parts, Before DEF BufFree
<1>11. BufQueue' BY <1>1, Parts, Before DEF BufQueue
<1>12. BufHand' BY <1>1, Parts, Before DEF BufHand
<1>13. BusyInv' BY <1>1, <1>2, <1>3, Parts DEF BusyInv, Others
<1> QED BY <1>4, <1>5, <1>6, <1>7, <1>8, <1>9, <1>10, <1>11, <1>12, <1>13 DEF RxInv, BufInv

\* Nothing moves when rx_loop leaves its loop.
LEMMA LoopEndsInv == ASSUME RxInv, LoopEnds PROVE RxInv'
<1>1. UNCHANGED <<cfg, urb, sh, cb, con, stop, plugged, Held>> /\ pc = "Loop" /\ pc' = "Close"
  BY DEF LoopEnds, At, Held
<1>2. Mine' = Mine BY <1>1 DEF Mine
<1>3. Counted' = Counted BY <1>1, <1>2 DEF Counted
<1>4. Types' BY <1>1, Parts DEF Types
<1>5. RingInv' BY <1>1, <1>2, <1>3, Parts DEF RingInv
<1>6. ModeInv' BY <1>1, Parts DEF ModeInv, spsc, bp
<1>7. PhaseInv' BY <1>1, <1>3, Parts DEF PhaseInv, spsc
<1>8. BufHeld' BY <1>1, Parts, Before DEF BufHeld
<1>9. BufOnce' BY <1>1, Parts DEF BufOnce
<1>10. BufFree' BY <1>1, Parts, Before DEF BufFree
<1>11. BufQueue' BY <1>1, Parts, Before DEF BufQueue
<1>12. BufHand' BY <1>1, Parts, Before DEF BufHand
<1>13. BusyInv' BY <1>1, <1>2, <1>3, Parts DEF BusyInv, Others
<1> QED BY <1>4, <1>5, <1>6, <1>7, <1>8, <1>9, <1>10, <1>11, <1>12, <1>13 DEF RxInv, BufInv

\* The parked transfers are retired.
LEMMA CloseInv == ASSUME RxInv, Close PROVE RxInv'
<1>1. /\ UNCHANGED <<cfg, urb, cb, con, stop, plugged>> /\ Held' = Held
      /\ pc = "Close" /\ pc' = "Cancel"
      /\ sh'.active = sh.active - Len(sh.parked) /\ sh'.queue = sh.queue /\ sh'.free = sh.free
      /\ sh'.parked = <<>> /\ Elems(sh'.parked) = {} /\ Distinct(sh'.parked)
      /\ sh'.closed = TRUE /\ sh'.consumer_stop = sh.consumer_stop /\ sh' \in SharedType
  <2>1. Len(sh.parked) \in Nat BY Before, LenProperties
  <2>2. <<>> \in Seq(Urbs) /\ Elems(<<>>) = {} /\ Distinct(<<>>) BY EmptyElems, EmptySeq, Before
  <2> DEFINE n == sh.active - Len(sh.parked)
  <2>3. n \in Int /\ sh' = [sh EXCEPT !.closed = TRUE, !.active = n, !.parked = <<>>]
    BY <2>1, Before DEF Close
  <2> HIDE DEF n
  <2>4. /\ sh'.active = n /\ sh'.queue = sh.queue /\ sh'.free = sh.free /\ sh'.parked = <<>>
        /\ sh'.closed = TRUE /\ sh'.consumer_stop = sh.consumer_stop /\ sh' \in SharedType
    <3>1. sh' = [active |-> n, dead |-> sh.dead, free |-> sh.free, queue |-> sh.queue,
                 parked |-> <<>>, closed |-> TRUE, consumer_stop |-> sh.consumer_stop]
      BY <2>3, Before DEF SharedType
    <3>2. sh.dead \in BOOLEAN /\ sh.consumer_stop \in BOOLEAN BY Before DEF SharedType
    <3> QED BY <2>2, <2>3, <3>1, <3>2, Before DEF SharedType
  <2> QED BY <2>2, <2>4 DEF Close, At, Held, n
<1>2. Mine' = Mine BY <1>1 DEF Mine
<1>3. Counted' = Counted \ Elems(sh.parked) BY <1>1, <1>2, Parts DEF RingInv, Counted
<1>4. Types' BY <1>1, Parts DEF Types
<1>5. RingInv'
  <2>1. sh'.active = Cardinality(Counted') BY <1>1, <1>3, RetireParked
  <2> QED BY <1>1, <1>2, <2>1, Parts DEF RingInv
<1>6. ModeInv' BY <1>1, Parts DEF ModeInv, spsc, bp
<1>7. PhaseInv' BY <1>1, <1>3, Parts DEF PhaseInv, spsc
<1>8. BufHeld' BY <1>1, Parts, Before DEF BufHeld
<1>9. BufOnce' BY <1>1, Parts DEF BufOnce
<1>10. BufFree' BY <1>1, Parts, Before DEF BufFree
<1>11. BufQueue' BY <1>1, Parts, Before DEF BufQueue
<1>12. BufHand' BY <1>1, Parts, Before DEF BufHand
<1>13. BusyInv' BY <1>1, <1>2, <1>3, Parts DEF BusyInv, Others
<1> QED BY <1>4, <1>5, <1>6, <1>7, <1>8, <1>9, <1>10, <1>11, <1>12, <1>13 DEF RxInv, BufInv

\* Cancelled transfers are still libusb's.
LEMMA CancelInv == ASSUME RxInv, Cancel PROVE RxInv'
<1>1. /\ UNCHANGED <<cfg, sh, cb, con, stop, plugged>> /\ pc = "Cancel" /\ pc' = "Drain"
      /\ urb' \in [Urbs -> UrbType] /\ Held' = Held
      /\ \A v \in Urbs : urb'[v].buf = urb[v].buf
  BY Before, CancelAll DEF Cancel, At
<1>2. Mine' = Mine BY <1>1 DEF Mine
<1>3. Counted' = Counted BY <1>1, <1>2 DEF Counted
<1>4. Types' BY <1>1, Parts DEF Types
<1>5. RingInv' BY <1>1, <1>2, <1>3, Parts DEF RingInv
<1>6. ModeInv' BY <1>1, Parts DEF ModeInv, spsc, bp
<1>7. PhaseInv' BY <1>1, <1>3, Parts DEF PhaseInv, spsc
<1>8. BufHeld' BY <1>1, Parts, Before DEF BufHeld
<1>9. BufOnce' BY <1>1, Parts, Before DEF BufOnce
<1>10. BufFree' BY <1>1, Parts, Before DEF BufFree
<1>11. BufQueue' BY <1>1, Parts, Before DEF BufQueue
<1>12. BufHand' BY <1>1, Parts, Before DEF BufHand
<1>13. BusyInv' BY <1>1, <1>2, <1>3, Parts DEF BusyInv, Others
<1> QED BY <1>4, <1>5, <1>6, <1>7, <1>8, <1>9, <1>10, <1>11, <1>12, <1>13 DEF RxInv, BufInv

\* No transfer is left when rx_loop frees them.
LEMMA DrainedInv == ASSUME RxInv, Drained PROVE RxInv'
<1>1. /\ UNCHANGED <<cfg, urb, cb, con, stop, plugged>> /\ Held' = Held
      /\ pc = "Drain" /\ pc' = "Join" /\ sh.active <= 0
      /\ sh'.active = sh.active /\ sh'.queue = sh.queue /\ sh'.free = sh.free
      /\ sh'.parked = sh.parked /\ sh'.closed = sh.closed /\ sh'.consumer_stop = TRUE
      /\ sh' \in SharedType
  BY Before DEF Drained, At, SharedType, Held
<1>2. Mine' = Mine BY <1>1 DEF Mine
<1>3. Counted' = Counted BY <1>1, <1>2 DEF Counted
<1>4. Types' BY <1>1, Parts DEF Types
<1>5. RingInv' BY <1>1, <1>2, <1>3, Parts DEF RingInv
<1>6. ModeInv' BY <1>1, Parts DEF ModeInv, spsc, bp
<1>7. PhaseInv'
  <2>1. IsFiniteSet(Counted) /\ Cardinality(Counted) \in Nat
    BY CountType, Parts, FS_CardinalityType
  <2>2. Cardinality(Counted) = 0 BY <1>1, <2>1, Parts DEF RingInv
  <2>3. Counted = {} BY <2>1, <2>2, FS_EmptySet
  <2> QED BY <1>1, <1>3, <2>3, Parts DEF PhaseInv, spsc
<1>8. BufHeld' BY <1>1, Parts, Before DEF BufHeld
<1>9. BufOnce' BY <1>1, Parts DEF BufOnce
<1>10. BufFree' BY <1>1, Parts, Before DEF BufFree
<1>11. BufQueue' BY <1>1, Parts, Before DEF BufQueue
<1>12. BufHand' BY <1>1, Parts, Before DEF BufHand
<1>13. BusyInv' BY <1>1, <1>2, <1>3, Parts DEF BusyInv, Others
<1> QED BY <1>4, <1>5, <1>6, <1>7, <1>8, <1>9, <1>10, <1>11, <1>12, <1>13 DEF RxInv, BufInv

\* The consumer is gone when rx_loop frees the buffers.
LEMMA JoinedInv == ASSUME RxInv, Joined PROVE RxInv'
<1>1. UNCHANGED <<cfg, urb, sh, cb, con, stop, plugged, Held>> /\ pc = "Join" /\ pc' = "Done"
      /\ con.pc = "Stopped"
  BY DEF Joined, At, Held
<1>2. Mine' = Mine BY <1>1 DEF Mine
<1>3. Counted' = Counted BY <1>1, <1>2 DEF Counted
<1>4. Types' BY <1>1, Parts DEF Types
<1>5. RingInv' BY <1>1, <1>2, <1>3, Parts DEF RingInv
<1>6. ModeInv' BY <1>1, Parts DEF ModeInv, spsc, bp
<1>7. PhaseInv' BY <1>1, <1>3, Parts DEF PhaseInv, spsc
<1>8. BufHeld' BY <1>1, Parts, Before DEF BufHeld
<1>9. BufOnce' BY <1>1, Parts DEF BufOnce
<1>10. BufFree' BY <1>1, Parts, Before DEF BufFree
<1>11. BufQueue' BY <1>1, Parts, Before DEF BufQueue
<1>12. BufHand' BY <1>1, Parts, Before DEF BufHand
<1>13. BusyInv' BY <1>1, <1>2, <1>3, Parts DEF BusyInv, Others
<1> QED BY <1>4, <1>5, <1>6, <1>7, <1>8, <1>9, <1>10, <1>11, <1>12, <1>13 DEF RxInv, BufInv

------------------------------------------------------------------------------
(* The theorems. *)

\* rx_loop posts the ring with the buffers of the transfers and pools the rest.
LEMMA InitInv == Init => RxInv
<1> SUFFICES ASSUME Init PROVE RxInv OBVIOUS
<1> DEFINE armed(u) == [st |-> "Armed", buf |-> u]
           out == [st |-> "Out", buf |-> NoBuf]
<1>1. cfg \in CfgType /\ cfg.ring \subseteq Urbs /\ cfg.mode \in Modes BY DEF Init, CfgType
<1>2. NoBuf \notin Bufs /\ Urbs \subseteq Bufs /\ Spares \subseteq Bufs /\ Urbs \cap Spares = {}
  BY RxAssumption DEF RxAssumption, Bufs
<1>3. /\ \A u \in Urbs : urb[u] = IF u \in cfg.ring THEN armed(u) ELSE out
      /\ urb \in [Urbs -> UrbType]
  <2>1. out \in UrbType /\ \A u \in Urbs : armed(u) \in UrbType BY <1>2 DEF UrbType
  <2>2. urb = [u \in Urbs |-> IF u \in cfg.ring THEN armed(u) ELSE out] BY DEF Init
  <2> QED BY <2>1, <2>2
<1>4. Held = cfg.ring /\ \A u \in Held : urb[u].buf = u BY <1>1, <1>3 DEF Held
<1>5. Elems(<<>>) = {} /\ Distinct(<<>>) /\ <<>> \in Seq(Urbs) /\ <<>> \in Seq(Bufs)
  BY EmptyElems, EmptySeq
<1>6. IsFiniteSet(cfg.ring) /\ Cardinality(cfg.ring) \in Nat
  BY <1>1, RxAssumption, FS_Subset, FS_CardinalityType DEF RxAssumption
<1>7. /\ sh \in SharedType /\ sh.active = Cardinality(cfg.ring) /\ sh.queue = <<>>
      /\ sh.parked = <<>> /\ sh.free \subseteq Spares /\ sh.closed = FALSE
      /\ sh.consumer_stop = FALSE
  BY <1>2, <1>5, <1>6 DEF Init, SharedType
<1>8. cb \in CbType /\ cb.pc = "Idle" /\ cb.buf = NoBuf /\ cb.fresh = NoBuf
  <2>1. (CHOOSE u \in Urbs : TRUE) \in Urbs BY RxAssumption DEF RxAssumption
  <2> QED BY <2>1 DEF Init, NoCb, CbType
<1>9. con \in ConType /\ con.buf = NoBuf /\ con.pc = IF spsc THEN "Wait" ELSE "Stopped"
  BY DEF Init, ConType
<1>10. pc = "Loop" /\ stop = FALSE /\ plugged = TRUE BY DEF Init
<1>11. Mine = {} /\ Counted = cfg.ring BY <1>4, <1>5, <1>7, <1>8 DEF Mine, Counted
<1>12. Types BY <1>1, <1>3, <1>7, <1>8, <1>9, <1>10 DEF Types
<1>13. RingInv BY <1>5, <1>7, <1>8, <1>11 DEF RingInv
<1>14. ModeInv BY <1>7, <1>8, <1>9 DEF ModeInv
<1>15. PhaseInv BY <1>7, <1>9, <1>10 DEF PhaseInv
<1>16. BufHeld BY <1>1, <1>2, <1>4, <1>5, <1>7, <1>8, <1>9 DEF BufHeld
<1>17. BufOnce BY <1>4 DEF BufOnce
<1>18. BufFree /\ BufQueue BY <1>2, <1>5, <1>7, <1>8, <1>9 DEF BufFree, BufQueue
<1>19. BufHand BY <1>8, <1>9 DEF BufHand
<1>20. BusyInv
  <2> SUFFICES ASSUME Cardinality(cfg.ring) >= 2, cfg.ring \subseteq {} PROVE FALSE
    BY <1>5, <1>7, <1>11 DEF BusyInv, Others
  <2>1. cfg.ring = {} OBVIOUS
  <2> QED BY <2>1, FS_EmptySet
<1> QED BY <1>12, <1>13, <1>14, <1>15, <1>16, <1>17, <1>18, <1>19, <1>20 DEF RxInv, BufInv

\* Every step keeps the invariant.
LEMMA NextInv == RxInv /\ [Next]_vars => RxInv'
<1> SUFFICES ASSUME RxInv, [Next]_vars PROVE RxInv' OBVIOUS
<1>a. stop \in BOOLEAN /\ plugged \in BOOLEAN BY Parts DEF Types
<1>1. ASSUME NEW u \in Urbs, Complete(u) PROVE RxInv'
  <2>1. urb[u].st # "Out" /\ UNCHANGED <<cfg, sh, cb, con, pc, stop, plugged>>
    BY <1>1 DEF Complete
  <2>2. PICK st \in Completions : urb' = [urb EXCEPT ![u].st = st]
    BY <1>1 DEF Complete, Completions
  <2>3. /\ urb' \in [Urbs -> UrbType] /\ Held' = Held
        /\ \A v \in Urbs : urb'[v].buf = urb[v].buf
    BY <2>1, <2>2, End, Before
  <2> QED BY <1>a, <2>1, <2>3, Quiet
<1>2. ASSUME NEW u \in Urbs, Vanish(u) PROVE RxInv'
  <2>1. urb[u].st # "Out" /\ UNCHANGED <<cfg, sh, cb, con, pc, stop, plugged>>
        /\ urb' = [urb EXCEPT ![u].st = "Gone"] /\ "Gone" \in Completions
    BY <1>2 DEF Vanish, Completions
  <2>2. /\ urb' \in [Urbs -> UrbType] /\ Held' = Held
        /\ \A v \in Urbs : urb'[v].buf = urb[v].buf
    BY <2>1, End, Before
  <2> QED BY <1>a, <2>1, <2>2, Quiet
<1>3. CASE Unplug
  <2>1. Held' = Held /\ UNCHANGED <<cfg, urb, sh, cb, con, pc, stop>> /\ plugged' = FALSE /\ plugged
    BY <1>3 DEF Unplug, Held
  <2> QED BY <1>a, <2>1, Before, Quiet
<1>4. CASE Stop
  <2>1. Held' = Held /\ UNCHANGED <<cfg, urb, sh, cb, con, pc, plugged>> /\ stop' = TRUE
    BY <1>4 DEF Stop, Held
  <2> QED BY <1>a, <2>1, Before, Quiet
<1>5. CASE UNCHANGED vars
  <2>1. Held' = Held /\ UNCHANGED <<cfg, urb, sh, cb, con, pc, stop, plugged>>
    BY <1>5 DEF vars, Held
  <2> QED BY <1>a, <2>1, Before, Quiet
<1>6. CASE Pump \/ CoPump BY <1>6, CbEnterInv DEF Pump, CoPump
<1>7. CASE CbStep
  BY <1>7, CbTakeInv, CbSubmitFreshInv, CbConsumeInv, CbReturnInv, CbResubmitInv,
     CbEnqueueInv, CbExhaustedInv, CbParkInv
     DEF CbStep
<1>8. CASE Consumer BY <1>8, ConTakeInv, ConConsumeInv, ConReturnInv, ConStopInv DEF Consumer
<1>9. CASE Main BY <1>9, LoopEndsInv, CloseInv, CancelInv, DrainedInv, JoinedInv DEF Main
<1> QED BY <1>1, <1>2, <1>3, <1>4, <1>5, <1>6, <1>7, <1>8, <1>9 DEF Next, Environment, Gone

\* The inductive invariant holds throughout.
THEOREM RxInvariant == Spec => []RxInv
<1> QED BY InitInv, NextInv, PTL DEF Spec

\* The holders of a buffer, one by one.
LEMMA HoldersOfOne ==
    ASSUME RxInv, NEW b \in Bufs, NEW x \in Holders(b), NEW y \in Holders(b)
    PROVE  x = y
<1>1. b # NoBuf BY Before
<1>2. \A h \in Holders(b) :
          \/ \E u \in Held : h = <<"urb", u>> /\ urb[u].buf = b
          \/ \E i \in DOMAIN sh.queue : h = <<"queue", i>> /\ sh.queue[i] = b
          \/ h = <<"free">> /\ b \in sh.free
          \/ h = <<"consumer">> /\ con.buf = b
          \/ h = <<"received">> /\ cb.buf = b
          \/ h = <<"fresh">> /\ cb.fresh = b
  BY DEF Holders, Held
<1>3. CASE \E u \in Held : x = <<"urb", u>> /\ urb[u].buf = b
  <2>1. b \notin sh.free /\ b \notin Elems(sh.queue) /\ b \notin {con.buf, cb.buf, cb.fresh}
    BY <1>3, Parts DEF BufHeld
  <2>2. \E u \in Held : y = <<"urb", u>> /\ urb[u].buf = b BY <1>2, <2>1 DEF Elems
  <2> QED BY <1>3, <2>2, Parts DEF BufOnce
<1>4. CASE \E i \in DOMAIN sh.queue : x = <<"queue", i>> /\ sh.queue[i] = b
  <2>1. b \in Elems(sh.queue) BY <1>4 DEF Elems
  <2>2. b \notin sh.free /\ b \notin {con.buf, cb.buf, cb.fresh}
        /\ \A u \in Held : urb[u].buf # b
    BY <2>1, Parts DEF BufHeld, BufFree, BufQueue
  <2>3. \E i \in DOMAIN sh.queue : y = <<"queue", i>> /\ sh.queue[i] = b BY <1>2, <2>2
  <2> QED BY <1>4, <2>3, Parts DEF BufQueue, Distinct
<1>5. CASE b \notin Elems(sh.queue) /\ \A u \in Held : urb[u].buf # b
  <2>1. \A h \in Holders(b) :
          \/ h = <<"free">> /\ b \in sh.free
          \/ h = <<"consumer">> /\ con.buf = b
          \/ h = <<"received">> /\ cb.buf = b
          \/ h = <<"fresh">> /\ cb.fresh = b
    BY <1>2, <1>5 DEF Elems
  <2> QED BY <1>1, <2>1, Parts DEF BufFree, BufHand
<1>6. CASE \E u \in Held : urb[u].buf = b
  <2>1. b \notin sh.free /\ b \notin Elems(sh.queue) /\ b \notin {con.buf, cb.buf, cb.fresh}
    BY <1>6, Parts DEF BufHeld
  <2> QED BY <1>2, <1>3, <2>1 DEF Elems
<1>7. CASE b \in Elems(sh.queue)
  <2>1. b \notin sh.free /\ b \notin {con.buf, cb.buf, cb.fresh}
        /\ \A u \in Held : urb[u].buf # b
    BY <1>7, Parts DEF BufHeld, BufFree, BufQueue
  <2> QED BY <1>2, <1>4, <2>1
<1> QED BY <1>5, <1>6, <1>7

\* For any ring, any pool and any interleaving of the pumps, the consumer and
\* rx_loop, a receive buffer is in one place: devourer_rx_cb, the consumer and
\* libusb never have the same one, and none is pooled twice.
THEOREM RxOneHolder == Spec => []OneHolder
<1>1. RxInv => OneHolder
  <2> SUFFICES ASSUME RxInv PROVE OneHolder OBVIOUS
  <2>1. sh.active \in 0 .. Cardinality(Urbs) BY CountType, Parts DEF RingInv
  <2>2. sh \in ShType BY <2>1, Before DEF SharedType, ShType
  <2>3. TypeOK BY <2>2, Parts DEF Types, TypeOK
  <2>4. ASSUME NEW b \in Bufs PROVE Cardinality(Holders(b)) <= 1
    <3>1. CASE Holders(b) = {} BY <3>1, FS_EmptySet
    <3>2. CASE Holders(b) # {}
      <4>1. PICK x : x \in Holders(b) BY <3>2
      <4>2. Holders(b) = {x} BY <4>1, HoldersOfOne
      <4> QED BY <4>2, FS_Singleton
    <3> QED BY <3>1, <3>2
  <2> QED BY <2>3, <2>4 DEF OneHolder
<1> QED BY <1>1, RxInvariant, PTL

\* rx_loop frees the transfers only when libusb has none and no callback runs,
\* and the buffers only when the consumer is gone and its queue is empty.
THEOREM RxTeardownSafe == Spec => []TeardownSafe
<1>1. RxInv => TeardownSafe
  <2> SUFFICES ASSUME RxInv PROVE TeardownSafe OBVIOUS
  <2>1. ASSUME pc \in {"Join", "Done"}
        PROVE  cb.pc = "Idle" /\ \A u \in Urbs : urb[u].st = "Out"
    <3>1. Held = {} /\ Mine = {} BY <2>1, Parts DEF PhaseInv, Counted
    <3>2. cb.pc \notin {"ConsumeReceived", "Return", "Enqueue"} BY <3>1, Parts DEF RingInv
    <3>3. cb.pc = "Idle" BY <3>1, <3>2, Before DEF Mine, CbType
    <3> QED BY <3>1, <3>3 DEF Held
  <2>2. pc = "Done" => con.pc = "Stopped" /\ sh.queue = <<>> BY Parts DEF PhaseInv
  <2> QED BY <2>1, <2>2 DEF TeardownSafe
<1> QED BY <1>1, RxInvariant, PTL

\* A consumer that returned every buffer leaves a transfer of the ring posted:
\* back-pressure never parks them all for good.
THEOREM RxRingStaysArmed == Spec => []RingStaysArmed
<1>1. RxInv => RingStaysArmed
  <2> SUFFICES ASSUME RxInv, Cardinality(cfg.ring) >= 2, ~ cfg.faulty, plugged, pc = "Loop",
                      sh.queue = <<>>, con.pc = "Wait", cb.pc = "Idle",
                      \A u \in cfg.ring : Parked(u)
               PROVE  FALSE
    BY DEF RingStaysArmed
  <2>1. Mine = {} BY DEF Mine
  <2>2. Others \subseteq Elems(sh.parked) BY DEF Others, Parked, Elems
  <2> QED BY <2>1, <2>2, Parts DEF BusyInv
<1> QED BY <1>1, RxInvariant, PTL
==============================================================================
