-------------------------- MODULE StationLink_proofs -------------------------
(***************************************************************************)
(* Proofs about the station among its access points (StationLink).  First  *)
(* what the operators of the model return: the packet-number window, the   *)
(* supplicant, the handlers of the machine and the access points.  Then    *)
(* one invariant, part by part, and the theorems that follow from it.      *)
(***************************************************************************)
EXTENDS StationLink, SequenceTheorems, FiniteSetTheorems, TLAPS

------------------------------------------------------------------------------
(* The packet-number window (CcmpReplay). *)

\* What has been refused stays refused, and what was accepted is refused from
\* then on.
LEMMA WindowCloses ==
    ASSUME NEW w \in Slots, NEW p \in Nat \ {0}, NEW q \in Nat,
           q = p \/ ~ Acceptable(w, q)
    PROVE  ~ Acceptable(Accepted(w, p), q)
<1>0. Window \in Nat \ {0} BY CcmpAssumption
<1>1. w.last \in Nat /\ w.seen \in BOOLEAN /\ w.mask \in SUBSET (0..Window - 1)
  BY DEF Slots
<1>2. CASE ~ w.seen
  <2>1. Accepted(w, p) = [seen |-> TRUE, last |-> p, mask |-> {0}]
    BY <1>2 DEF Accepted
  <2>2. q = p \/ q = 0 BY <1>2 DEF Acceptable
  <2> QED BY <2>1, <2>2 DEF Acceptable
<1>3. CASE w.seen /\ p > w.last
  <2> DEFINE M == {0} \cup {b \in 0..Window - 1 : b - (p - w.last) \in w.mask}
  <2>1. Accepted(w, p) = [seen |-> TRUE, last |-> p, mask |-> M]
    BY <1>3 DEF Accepted
  <2>2. CASE q = p
    <3>1. p - q = 0 /\ 0 \in M BY <2>2
    <3> HIDE DEF M
    <3> QED BY <2>1, <2>2, <3>1 DEF Acceptable
  <2>3. CASE q # p /\ q # 0
    <3>1. ~ Acceptable(w, q) BY <2>3
    <3>2. q <= w.last BY <1>1, <1>3, <3>1, <2>3 DEF Acceptable
    <3>3. w.last - q < Window => w.last - q \in w.mask
      BY <1>3, <2>3, <3>1 DEF Acceptable
    <3>4. p - q < Window => p - q \in M
      <4> SUFFICES ASSUME p - q < Window PROVE p - q \in M OBVIOUS
      <4>1. p - q \in 0..Window - 1 BY <1>0, <1>1, <1>3, <3>2
      <4>2. (p - q) - (p - w.last) = w.last - q BY <1>1
      <4>3. w.last - q \in w.mask BY <1>0, <1>1, <1>3, <3>2, <3>3
      <4> QED BY <4>1, <4>2, <4>3
    <3>5. ~ (q > p) BY <1>1, <1>3, <3>2
    <3> HIDE DEF M
    <3> QED BY <2>1, <3>4, <3>5 DEF Acceptable
  <2>4. CASE q = 0 BY <2>4 DEF Acceptable
  <2> QED BY <2>2, <2>3, <2>4
<1>4. CASE w.seen /\ ~ (p > w.last)
  <2>1. Accepted(w, p) = [w EXCEPT !.mask = @ \cup {w.last - p}]
    BY <1>4 DEF Accepted
  <2>2. /\ Accepted(w, p).seen = w.seen /\ Accepted(w, p).last = w.last
        /\ Accepted(w, p).mask = w.mask \cup {w.last - p}
    BY <2>1 DEF Slots
  <2> QED BY <1>1, <1>4, <2>2 DEF Acceptable
<1> QED BY <1>1, <1>2, <1>3, <1>4

\* A window stays a window: what is accepted is within reach of its head.
LEMMA WindowType ==
    ASSUME NEW w \in Slots, NEW p \in Nat, Acceptable(w, p)
    PROVE  Accepted(w, p) \in Slots
<1>0. Window \in Nat \ {0} BY CcmpAssumption
<1>1. w.last \in Nat /\ w.seen \in BOOLEAN /\ w.mask \in SUBSET (0..Window - 1)
  BY DEF Slots
<1>2. CASE ~ w.seen BY <1>0, <1>2 DEF Accepted, Slots
<1>3. CASE w.seen /\ p > w.last
  <2> DEFINE M == {0} \cup {b \in 0..Window - 1 : b - (p - w.last) \in w.mask}
  <2>1. Accepted(w, p) = [seen |-> TRUE, last |-> p, mask |-> M]
    BY <1>3 DEF Accepted
  <2>2. M \in SUBSET (0..Window - 1) BY <1>0
  <2> HIDE DEF M
  <2> QED BY <2>1, <2>2 DEF Slots
<1>4. CASE w.seen /\ ~ (p > w.last)
  <2>1. w.last - p \in 0..Window - 1 BY <1>0, <1>1, <1>4 DEF Acceptable
  <2>2. Accepted(w, p) = [w EXCEPT !.mask = @ \cup {w.last - p}]
    BY <1>4 DEF Accepted
  <2>3. w.mask \cup {w.last - p} \in SUBSET (0..Window - 1) BY <1>1, <2>1
  <2> QED BY <2>2, <2>3 DEF Slots
<1> QED BY <1>1, <1>2, <1>3, <1>4

\* The one TID that the model's frames are of.
LEMMA TidType == Tid \in Tids
BY CcmpAssumption DEF Tid

LEMMA SeedType ==
    /\ reset \in Windows
    /\ \A n \in Nat : seed(n) \in Windows
<1>1. Window \in Nat \ {0} BY CcmpAssumption
<1> QED BY <1>1 DEF reset, seed, Windows, Slots

\* A seeded window refuses everything up to its head.
LEMMA SeedCloses ==
    ASSUME NEW n \in Nat, NEW q \in Nat, q <= n
    PROVE  ~ Acceptable(seed(n)[Tid], q)
<1>0. Window \in Nat \ {0} BY CcmpAssumption
<1>1. seed(n)[Tid] = [seen |-> n # 0, last |-> n,
                      mask |-> IF n # 0 THEN 0..Window - 1 ELSE {}]
  BY TidType DEF seed
<1>2. CASE n = 0
  <2>1. q = 0 BY <1>2
  <2> QED BY <2>1 DEF Acceptable
<1>3. CASE n # 0
  <2>1. n - q < Window => n - q \in 0..Window - 1 BY <1>0
  <2>2. (n # 0) = TRUE /\ (IF n # 0 THEN 0..Window - 1 ELSE {}) = 0..Window - 1
    BY <1>3
  <2>3. ~ (q > n) OBVIOUS
  <2>4. seed(n)[Tid] = [seen |-> TRUE, last |-> n, mask |-> 0..Window - 1]
    BY <1>1, <2>2, Zenon
  <2> QED BY <2>1, <2>3, <2>4 DEF Acceptable
<1> QED BY <1>2, <1>3

------------------------------------------------------------------------------
(* The supplicant: what on_eapol makes of a message, member by member.     *)

Results == [v : Verdicts, s : SupType, out : Replies]

\* The members that only the generations of the keys outlive.
LEMMA SupConstants ==
    /\ NoKey \in Keys /\ NoReply \in Replies /\ NewSup \in SupType
    /\ NoReply.kind = "None" /\ NoKey.snonce = 0 /\ NoKey.anonce = 0
BY DEF NoKey, Keys, NoReply, Replies, NewSup, SupType, Rsns

\* s is as it was before its association; the generations are kept.
Forgotten(s) ==
    /\ s.st = "Idle" /\ s.cand = NoKey /\ s.ptk = NoKey /\ s.gtk = 0
    /\ s.rx_replay = -1 /\ s.last = NoReply /\ s.m1 = NoReply

SameGens(s, t) == t.ptk_gen = s.ptk_gen /\ t.gtk_gen = s.gtk_gen

LEMMA ForgetFields ==
    ASSUME NEW s \in SupType
    PROVE  forget(s) \in SupType /\ Forgotten(forget(s)) /\ SameGens(s, forget(s))
BY SupConstants DEF forget, NewSup, SupType, Forgotten, SameGens

LEMMA StartFields ==
    ASSUME NEW s \in SupType, NEW n \in Nat, NEW r \in Rsns
    PROVE  LET t == start(s, n, r)
           IN  /\ t \in SupType /\ SameGens(s, t)
               /\ t.st = "WaitMsg1" /\ t.snonce = n /\ t.rsn = r
               /\ t.cand = NoKey /\ t.ptk = NoKey /\ t.gtk = 0 /\ t.rx_replay = -1
               /\ t.last = NoReply /\ t.m1 = NoReply
BY SupConstants DEF start, forget, NewSup, SupType, SameGens

\* What on_eapol leaves alone in every case.
Identity(s, t) == t.snonce = s.snonce /\ t.rsn = s.rsn

\* Nothing but a verdict, or an answer from one of the two caches.
Unmoved(s, k, r) ==
    /\ r.s = s
    /\ \/ r.out = NoReply /\ r.v \notin {"Reply", "Retransmit"}
       \/ /\ s.st # "Idle" /\ k.kind # "None" /\ r.v = "Retransmit"
          /\ \/ r.out = s.last /\ s.last.kind = AnswerKind[k.kind]
             \/ r.out = s.m1 /\ k.kind = "Msg1" /\ s.m1 # NoReply

\* Message 1: a candidate.
Derives(s, k, r) ==
    /\ s.st # "Idle" /\ k.kind = "Msg1" /\ r.v = "Reply"
    /\ r.out = [kind |-> "Msg2", replay |-> k.replay,
                mic |-> derive_ptk(k.anonce, s.snonce)]
    /\ Identity(s, r.s) /\ SameGens(s, r.s)
    /\ r.s.cand = r.out.mic /\ r.s.m1 = r.out
    /\ r.s.st = IF s.st = "WaitMsg1" THEN "WaitMsg3" ELSE s.st
    /\ r.s.ptk = s.ptk /\ r.s.gtk = s.gtk
    /\ r.s.rx_replay = s.rx_replay /\ r.s.last = s.last

\* A GTK that is not the one in use is a new generation of it.
Groups(s, k, t) ==
    /\ t.gtk = k.gtk
    /\ IF k.gtk = s.gtk THEN t.gtk_gen = s.gtk_gen
       ELSE t.gtk_gen = s.gtk_gen + 1 /\ t.gtk_rsc = k.rsc

\* Message 3: the keys of the exchange its ANonce names.
Installs(s, k, r) ==
    LET key == PtkOf(s, k)
    IN  /\ s.st # "Idle" /\ k.kind = "Msg3" /\ k.replay > s.rx_replay /\ r.v = "Reply"
        /\ key # NoKey /\ k.mic = key /\ k.rsn = s.rsn
        /\ r.out = [kind |-> "Msg4", replay |-> k.replay, mic |-> key]
        /\ Identity(s, r.s)
        /\ r.s.ptk = key
        /\ r.s.ptk_gen = IF s.ptk = key THEN s.ptk_gen ELSE s.ptk_gen + 1
        /\ Groups(s, k, r.s)
        /\ r.s.cand = (IF s.cand = key THEN NoKey ELSE s.cand) /\ r.s.m1 = s.m1
        /\ r.s.st = "Done" /\ r.s.rx_replay = k.replay /\ r.s.last = r.out

\* A group message of the key in use.
Regroups(s, k, r) ==
    /\ s.st = "Done" /\ k.kind = "Group1" /\ k.replay > s.rx_replay /\ r.v = "Reply"
    /\ ptk_valid(s) /\ k.mic = s.ptk
    /\ r.out = [kind |-> "Group2", replay |-> k.replay, mic |-> s.ptk]
    /\ Identity(s, r.s)
    /\ r.s.ptk = s.ptk /\ r.s.ptk_gen = s.ptk_gen
    /\ Groups(s, k, r.s)
    /\ r.s.cand = s.cand /\ r.s.m1 = s.m1
    /\ r.s.st = "Done" /\ r.s.rx_replay = k.replay /\ r.s.last = r.out

LEMMA PtkOfType ==
    ASSUME NEW s \in SupType, NEW k \in EapolKeys
    PROVE  PtkOf(s, k) \in Keys
BY SupConstants DEF PtkOf, SupType

LEMMA Msg1Fields ==
    ASSUME NEW s \in SupType, NEW k \in EapolKeys, s.st # "Idle", k.kind = "Msg1"
    PROVE  on_msg1(s, k) \in Results /\ Derives(s, k, on_msg1(s, k))
<1> DEFINE e == [kind |-> "Msg2", replay |-> k.replay, mic |-> derive_ptk(k.anonce, s.snonce)]
           t == [s EXCEPT !.cand = e.mic, !.m1 = e,
                          !.st = IF @ = "WaitMsg1" THEN "WaitMsg3" ELSE @]
<1>1. e \in Replies BY DEF Replies, EapolKeys, SupType, derive_ptk, Keys
<1>2. e.mic \in Keys /\ e.mic = derive_ptk(k.anonce, s.snonce) BY <1>1 DEF Replies
<1>3. on_msg1(s, k) = [v |-> "Reply", s |-> t, out |-> e] BY DEF on_msg1, Result
<1>4. e = [kind |-> "Msg2", replay |-> k.replay, mic |-> derive_ptk(k.anonce, s.snonce)]
  OBVIOUS
<1> HIDE DEF e
<1>5. t \in SupType BY <1>1, <1>2 DEF SupType
<1>6. /\ Identity(s, t) /\ SameGens(s, t) /\ t.cand = e.mic /\ t.m1 = e
      /\ t.st = (IF s.st = "WaitMsg1" THEN "WaitMsg3" ELSE s.st)
      /\ t.ptk = s.ptk /\ t.gtk = s.gtk /\ t.rx_replay = s.rx_replay /\ t.last = s.last
  BY DEF SupType, Identity, SameGens
<1> HIDE DEF t
<1> QED BY <1>1, <1>3, <1>4, <1>5, <1>6 DEF Results, Verdicts, Derives

LEMMA InstallPtkFields ==
    ASSUME NEW s \in SupType, NEW key \in Keys
    PROVE  LET t == install_ptk(s, key)
           IN  /\ t \in SupType /\ Identity(s, t) /\ t.ptk = key
               /\ t.ptk_gen = IF s.ptk = key THEN s.ptk_gen ELSE s.ptk_gen + 1
               /\ t.gtk = s.gtk /\ t.gtk_gen = s.gtk_gen
               /\ t.cand = s.cand /\ t.m1 = s.m1 /\ t.st = s.st
<1>1. s.ptk_gen + 1 \in Nat BY DEF SupType
<1> QED BY <1>1, ZenonT(60) DEF install_ptk, SupType, Identity

LEMMA InstallGtkFields ==
    ASSUME NEW s \in SupType, NEW k \in EapolKeys
    PROVE  LET t == install_gtk(s, k)
           IN  /\ t \in SupType /\ Identity(s, t) /\ Groups(s, k, t)
               /\ t.ptk = s.ptk /\ t.ptk_gen = s.ptk_gen
               /\ t.cand = s.cand /\ t.m1 = s.m1 /\ t.st = s.st
<1>1. CASE s.gtk = k.gtk BY <1>1 DEF install_gtk, SupType, Identity, Groups
<1>2. CASE s.gtk # k.gtk
  <2>1. k.gtk \in Nat /\ k.rsc \in Nat /\ s.gtk_gen + 1 \in Nat
    BY DEF EapolKeys, SupType
  <2>2. install_gtk(s, k) =
          [s EXCEPT !.gtk = k.gtk, !.gtk_rsc = k.rsc, !.gtk_gen = @ + 1]
    BY <1>2 DEF install_gtk
  <2> QED BY <1>2, <2>1, <2>2, ZenonT(60) DEF SupType, Identity, Groups
<1> QED BY <1>1, <1>2

LEMMA AnsweredFields ==
    ASSUME NEW s \in SupType, NEW e \in Replies
    PROVE  LET t == Answered(s, e)
           IN  /\ t \in SupType /\ Identity(s, t) /\ SameGens(s, t)
               /\ t.ptk = s.ptk /\ t.gtk = s.gtk /\ t.gtk_rsc = s.gtk_rsc
               /\ t.cand = s.cand /\ t.m1 = s.m1 /\ t.st = s.st
               /\ t.rx_replay = e.replay /\ t.last = e
<1>1. e.replay \in Int BY DEF Replies
<1> QED BY <1>1 DEF Answered, SupType, Identity, SameGens

LEMMA Msg3Fields ==
    ASSUME NEW s \in SupType, NEW k \in EapolKeys,
           s.st # "Idle", k.kind = "Msg3", k.replay > s.rx_replay
    PROVE  /\ on_msg3(s, k) \in Results
           /\ Unmoved(s, k, on_msg3(s, k)) \/ Installs(s, k, on_msg3(s, k))
<1> DEFINE key == PtkOf(s, k)
           e == [kind |-> "Msg4", replay |-> k.replay, mic |-> key]
           p == install_ptk(s, key)
           g == install_gtk(p, k)
           a == Answered(g, e)
           t == [a EXCEPT !.st = "Done", !.cand = IF @ = key THEN NoKey ELSE @]
           taken == /\ key # NoKey /\ MicOk(key, k) /\ ~ (k.rsn # s.rsn)
<1>1. key \in Keys BY PtkOfType
<1>2. e \in Replies BY <1>1 DEF Replies, EapolKeys
<1>3. CASE ~ taken
  <2>1. \E v \in {"OutOfState", "Malformed", "MicFailed"} :
           on_msg3(s, k) = [v |-> v, s |-> s, out |-> NoReply]
    BY <1>3 DEF on_msg3, note, Result
  <2> QED BY <2>1, SupConstants DEF Results, Verdicts, Unmoved
<1>4. CASE taken
  <2>1. on_msg3(s, k) = [v |-> "Reply", s |-> t, out |-> e]
    BY <1>4 DEF on_msg3, Result
  <2>2. key # NoKey /\ k.mic = key /\ k.rsn = s.rsn BY <1>4 DEF MicOk
  <2>3. e.replay = k.replay /\ e = [kind |-> "Msg4", replay |-> k.replay, mic |-> key]
    OBVIOUS
  <2>4. /\ p \in SupType /\ Identity(s, p) /\ p.ptk = key
        /\ p.ptk_gen = (IF s.ptk = key THEN s.ptk_gen ELSE s.ptk_gen + 1)
        /\ p.gtk = s.gtk /\ p.gtk_gen = s.gtk_gen
        /\ p.cand = s.cand /\ p.m1 = s.m1 /\ p.st = s.st
    BY <1>1, InstallPtkFields
  <2> HIDE DEF p, e
  <2>5. /\ g \in SupType /\ Identity(p, g) /\ Groups(p, k, g)
        /\ g.ptk = p.ptk /\ g.ptk_gen = p.ptk_gen
        /\ g.cand = p.cand /\ g.m1 = p.m1 /\ g.st = p.st
    BY <2>4, InstallGtkFields
  <2> HIDE DEF g
  <2>6. /\ a \in SupType /\ Identity(g, a) /\ SameGens(g, a)
        /\ a.ptk = g.ptk /\ a.gtk = g.gtk /\ a.gtk_rsc = g.gtk_rsc
        /\ a.cand = g.cand /\ a.m1 = g.m1 /\ a.st = g.st
        /\ a.rx_replay = e.replay /\ a.last = e
    BY <1>2, <2>5, AnsweredFields
  <2> HIDE DEF a, key
  <2>7. /\ t \in SupType /\ Identity(a, t) /\ SameGens(a, t)
        /\ t.ptk = a.ptk /\ t.gtk = a.gtk /\ t.gtk_rsc = a.gtk_rsc
        /\ t.cand = (IF a.cand = key THEN NoKey ELSE a.cand) /\ t.m1 = a.m1
        /\ t.st = "Done" /\ t.rx_replay = a.rx_replay /\ t.last = a.last
    BY <2>6, SupConstants DEF SupType, Identity, SameGens
  <2> HIDE DEF t
  <2>8. Identity(s, t) BY <2>4, <2>5, <2>6, <2>7 DEF Identity
  <2>9. Groups(s, k, t) BY <2>4, <2>5, <2>6, <2>7 DEF Groups, SameGens
  <2>10. /\ t.ptk_gen = (IF s.ptk = key THEN s.ptk_gen ELSE s.ptk_gen + 1)
         /\ t.ptk = key /\ t.cand = (IF s.cand = key THEN NoKey ELSE s.cand) /\ t.m1 = s.m1
         /\ t.st = "Done" /\ t.rx_replay = k.replay /\ t.last = e
    BY <2>3, <2>4, <2>5, <2>6, <2>7 DEF SameGens
  <2>11. Installs(s, k, [v |-> "Reply", s |-> t, out |-> e])
    BY <2>2, <2>3, <2>8, <2>9, <2>10 DEF Installs, key
  <2> QED BY <1>2, <2>1, <2>7, <2>11 DEF Results, Verdicts
<1> QED BY <1>3, <1>4

LEMMA Group1Fields ==
    ASSUME NEW s \in SupType, NEW k \in EapolKeys,
           s.st # "Idle", k.kind = "Group1", k.replay > s.rx_replay
    PROVE  /\ on_group1(s, k) \in Results
           /\ Unmoved(s, k, on_group1(s, k)) \/ Regroups(s, k, on_group1(s, k))
<1> DEFINE e == [kind |-> "Group2", replay |-> k.replay, mic |-> s.ptk]
           g == install_gtk(s, k)
           t == Answered(g, e)
           taken == s.st = "Done" /\ ptk_valid(s) /\ MicOk(s.ptk, k)
<1>1. e \in Replies BY DEF Replies, EapolKeys, SupType
<1>2. CASE ~ taken
  <2>1. \E v \in {"OutOfState", "MicFailed"} :
           on_group1(s, k) = [v |-> v, s |-> s, out |-> NoReply]
    BY <1>2 DEF on_group1, note, Result
  <2> QED BY <2>1, SupConstants DEF Results, Verdicts, Unmoved
<1>3. CASE taken
  <2>1. on_group1(s, k) = [v |-> "Reply", s |-> t, out |-> e]
    BY <1>3 DEF on_group1, Result
  <2>2. s.st = "Done" /\ ptk_valid(s) /\ k.mic = s.ptk BY <1>3 DEF MicOk
  <2>3. /\ e.replay = k.replay
        /\ e = [kind |-> "Group2", replay |-> k.replay, mic |-> s.ptk]
    OBVIOUS
  <2> HIDE DEF e
  <2>4. /\ g \in SupType /\ Identity(s, g) /\ Groups(s, k, g)
        /\ g.ptk = s.ptk /\ g.ptk_gen = s.ptk_gen
        /\ g.cand = s.cand /\ g.m1 = s.m1 /\ g.st = s.st
    BY InstallGtkFields
  <2> HIDE DEF g
  <2>5. /\ t \in SupType /\ Identity(g, t) /\ SameGens(g, t)
        /\ t.ptk = g.ptk /\ t.gtk = g.gtk /\ t.gtk_rsc = g.gtk_rsc
        /\ t.cand = g.cand /\ t.m1 = g.m1 /\ t.st = g.st
        /\ t.rx_replay = e.replay /\ t.last = e
    BY <1>1, <2>4, AnsweredFields
  <2> HIDE DEF t
  <2>6. Identity(s, t) BY <2>4, <2>5 DEF Identity
  <2>7. Groups(s, k, t) BY <2>4, <2>5 DEF Groups, SameGens
  <2>8. /\ t.ptk = s.ptk /\ t.ptk_gen = s.ptk_gen /\ t.cand = s.cand /\ t.m1 = s.m1
        /\ t.st = "Done" /\ t.rx_replay = k.replay /\ t.last = e
    BY <2>2, <2>3, <2>4, <2>5 DEF SameGens
  <2>9. Regroups(s, k, [v |-> "Reply", s |-> t, out |-> e])
    BY <2>2, <2>3, <2>6, <2>7, <2>8 DEF Regroups
  <2> QED BY <1>1, <2>1, <2>5, <2>9 DEF Results, Verdicts
<1> QED BY <1>2, <1>3

\* The supplicant's four ways with a message.
LEMMA EapolFields ==
    ASSUME NEW s \in SupType, NEW k \in EapolKeys
    PROVE  LET r == on_eapol(s, k)
           IN  /\ r \in Results
               /\ \/ Unmoved(s, k, r) \/ Derives(s, k, r)
                  \/ Installs(s, k, r) \/ Regroups(s, k, r)
<1>0. k.replay \in Nat /\ s.rx_replay \in Int BY DEF EapolKeys, SupType
<1>1. s.last \in Replies /\ s.m1 \in Replies BY DEF SupType
<1>2. CASE s.st = "Idle" \/ k.kind = "None"
  <2>1. \E v \in {"OutOfState", "Ignored"} :
           on_eapol(s, k) = [v |-> v, s |-> s, out |-> NoReply]
    BY <1>2 DEF on_eapol, note, Result
  <2> QED BY <2>1, SupConstants DEF Results, Verdicts, Unmoved
<1>3. CASE s.st # "Idle" /\ k.kind # "None" /\ Stale(s, k)
  <2>1. on_eapol(s, k) = retransmit_or_replay(s, k) BY <1>3 DEF on_eapol
  <2>2. \/ on_eapol(s, k) = [v |-> "Replayed", s |-> s, out |-> NoReply]
        \/ /\ on_eapol(s, k) = [v |-> "Retransmit", s |-> s, out |-> s.last]
           /\ s.last.kind = AnswerKind[k.kind]
    BY <2>1 DEF retransmit_or_replay, note, Result
  <2> QED BY <1>1, <1>3, <2>2, SupConstants DEF Results, Verdicts, Unmoved
<1>4. CASE s.st # "Idle" /\ k.kind # "None" /\ ~ Stale(s, k) /\ Repeated1(s, k)
  <2>1. on_eapol(s, k) = [v |-> "Retransmit", s |-> s, out |-> s.m1]
    BY <1>4 DEF on_eapol, Result
  <2>2. k.kind = "Msg1" /\ s.m1 # NoReply BY <1>4 DEF Repeated1
  <2> QED BY <1>1, <1>4, <2>1, <2>2, SupConstants DEF Results, Verdicts, Unmoved
<1>5. CASE s.st # "Idle" /\ k.kind # "None" /\ ~ Stale(s, k) /\ ~ Repeated1(s, k)
  <2>1. k.replay > s.rx_replay BY <1>0, <1>5 DEF Stale
  <2>2. CASE k.kind = "Msg1"
    <3>1. on_eapol(s, k) = on_msg1(s, k) BY <1>5, <2>2 DEF on_eapol
    <3> QED BY <1>5, <2>2, <3>1, Msg1Fields
  <2>3. CASE k.kind = "Msg3"
    <3>1. on_eapol(s, k) = on_msg3(s, k) BY <1>5, <2>3 DEF on_eapol
    <3> QED BY <1>5, <2>1, <2>3, <3>1, Msg3Fields
  <2>4. CASE k.kind = "Group1"
    <3>1. on_eapol(s, k) = on_group1(s, k) BY <1>5, <2>4 DEF on_eapol
    <3> QED BY <1>5, <2>1, <2>4, <3>1, Group1Fields
  <2>5. k.kind \in {"None", "Msg1", "Msg3", "Group1"} BY DEF EapolKeys
  <2> QED BY <1>5, <2>2, <2>3, <2>4, <2>5
<1> QED BY <1>2, <1>3, <1>4, <1>5

------------------------------------------------------------------------------
(* The machine: what each handler does to its members.                     *)

Asking(s) == s.state \in {"Authenticating", "Associating"}
Keyed(s) == s.state \in {"FourWay", "Connected"} /\ s.security = "Wpa2Psk"

\* The association a station is in, or was in last.
SameJoin(s, t) == t.bssid = s.bssid /\ t.joins = s.joins /\ t.rsn = s.rsn

\* Only the ages move.
Rests(s, t) ==
    /\ SameJoin(s, t) /\ t.state = s.state /\ t.security = s.security
    /\ t.authenticated = s.authenticated /\ t.tries = s.tries
    /\ t.sup = s.sup /\ t.tx = s.tx

\* The association ends; a goodbye is all that may be left to send.
Ends(s, t) ==
    /\ SameJoin(s, t) /\ ~ Listening(t) /\ t.sup = forget(s.sup)
    /\ t.authenticated => s.authenticated
    /\ \/ t.tx = <<>>
       \/ s.authenticated /\ t.tx = <<Frame(s, "Deauth", NoReply)>>

\* A new association starts with a request.
Starts(s, t) ==
    /\ t.state = "Authenticating" /\ t.bssid \in Aps /\ t.joins = s.joins + 1
    /\ ~ t.authenticated /\ t.tries = 1 /\ t.sup = forget(s.sup)
    /\ \/ t.tx = <<Frame(t, "Auth", NoReply)>>
       \/ /\ s.authenticated
          /\ t.tx = <<Frame(s, "Deauth", NoReply), Frame(t, "Auth", NoReply)>>

\* A request is sent, again or of the next kind.
Requests(s, t) ==
    /\ SameJoin(s, t) /\ t.sup = s.sup /\ t.security = s.security
    /\ \/ Asking(s) /\ t.state = s.state /\ s.tries < MaxTries /\ t.tries = s.tries + 1
       \/ s.state = "Authenticating" /\ t.state = "Associating" /\ t.tries = 1
    /\ \E type \in {"Auth", "Assoc"} : t.tx = Append(s.tx, Frame(s, type, NoReply))

\* Associated: the handshake begins, or there is none.
Associates(s, t) ==
    /\ SameJoin(s, t) /\ s.state = "Associating" /\ t.security = s.security
    /\ t.authenticated = s.authenticated /\ t.tx = s.tx
    /\ \/ s.security = "Open" /\ t.state = "Connected" /\ t.sup = s.sup
       \/ /\ s.security = "Wpa2Psk" /\ t.state = "FourWay"
          /\ t.sup = start(s.sup, s.joins, s.rsn)

\* The caller takes the first frame.
Pops(s, t) ==
    /\ SameJoin(s, t) /\ t.state = s.state /\ t.security = s.security
    /\ t.authenticated = s.authenticated /\ t.tries = s.tries /\ t.sup = s.sup
    /\ s.tx # <<>> /\ t.tx = Tail(s.tx)

Promoted(s, sup) ==
    IF s.state = "FourWay" /\ sup.st = "Done" /\ ptk_valid(sup) THEN "Connected" ELSE s.state

\* The supplicant takes message k.
Hears(s, k, t) ==
    /\ SameJoin(s, t) /\ Keyed(s) /\ t.security = s.security
    /\ t.authenticated = s.authenticated /\ t.sup = on_eapol(s.sup, k).s

\* ... in the clear: its answer is queued, if there is room.
HearsClear(s, k, t) ==
    /\ Hears(s, k, t) /\ cleartext_eapol_allowed(s, k)
    /\ \/ t.tx = s.tx /\ t.state = s.state
       \/ /\ on_eapol(s.sup, k).out # NoReply /\ ~ Full(s)
          /\ t.tx = Append(s.tx, Frame(s, "Eapol", on_eapol(s.sup, k).out))
          /\ t.state = Promoted(s, t.sup)

\* ... protected: the caller sends the answer.
HearsProtected(s, k, t) ==
    /\ Hears(s, k, t) /\ t.tx = s.tx
    /\ t.state \in {s.state, Promoted(s, t.sup)}

LEMMA Ages ==
    /\ 0 \in 0..MaxTxAge /\ 0 \in 0..BeaconLoss
    /\ MaxTxAge \in Nat /\ BeaconLoss \in Nat
BY StationAssumption DEF MaxTxAge

LEMMA QueueRoom ==
    /\ MaxTries \in Nat /\ MaxTries >= 1 /\ MaxTxQueue \in Nat
    /\ MaxTries + MaxTries + 1 <= MaxTxQueue /\ MaxTxQueue >= 3
BY StationAssumption

LEMMA FrameType ==
    ASSUME NEW s \in StaType, s.bssid \in Aps, NEW b \in Replies,
           NEW type \in {"Auth", "Assoc", "Deauth", "Eapol"}
    PROVE  Frame(s, type, b) \in Frames
BY DEF Frame, Frames, StaType

LEMMA FailFields ==
    ASSUME NEW s \in StaType
    PROVE  fail(s) \in StaType /\ Ends(s, fail(s)) /\ fail(s).authenticated = s.authenticated
<1>1. forget(s.sup) \in SupType BY ForgetFields DEF StaType
<1>2. <<>> \in Seq(Frames) BY EmptySeq
<1> QED BY <1>1, <1>2, ZenonT(60) DEF fail, StaType, Ends, SameJoin, Listening

LEMMA DropFields ==
    ASSUME NEW s \in StaType, NEW c \in BOOLEAN, NEW p \in BOOLEAN,
           NEW sec \in {"Open", "Wpa2Psk"},
           NEW t, t = [drop_association_keys(s) EXCEPT !.have_pmk = p, !.security = sec,
                                                       !.configured = c]
    PROVE  t \in StaType /\ Ends(s, t)
<1>1. forget(s.sup) \in SupType BY ForgetFields DEF StaType
<1>2. <<>> \in Seq(Frames) BY EmptySeq
<1> DEFINE d == drop_association_keys(s)
<1>3. d \in StaType BY <1>1, <1>2, ZenonT(60) DEF drop_association_keys, StaType
<1>4. /\ SameJoin(s, d) /\ d.state \in {"Idle", "Failed"} /\ d.sup = forget(s.sup)
      /\ ~ d.authenticated /\ d.tx = <<>>
  BY ZenonT(60) DEF drop_association_keys, StaType, SameJoin
<1> HIDE DEF d
<1>5. t \in StaType BY <1>3, ZenonT(60) DEF StaType, d
<1>6. /\ t.bssid = d.bssid /\ t.joins = d.joins /\ t.rsn = d.rsn /\ t.state = d.state
      /\ t.sup = d.sup /\ t.authenticated = d.authenticated /\ t.tx = d.tx
  BY <1>3, ZenonT(60) DEF StaType, d
<1> QED BY <1>4, <1>5, <1>6 DEF Ends, SameJoin, Listening

LEMMA ConfigureFields ==
    ASSUME NEW s \in StaType,
           NEW t \in {configure(s, TRUE), configure(s, FALSE), configure_open(s)}
    PROVE  t \in StaType /\ Ends(s, t)
BY DropFields DEF configure, configure_open

\* Queues of one and of two frames.
LEMMA ShortQueues ==
    ASSUME NEW d, NEW f
    PROVE  /\ Len(<<d>>) = 1 /\ Len(<<d, f>>) = 2
           /\ <<d>>[1] = d /\ <<d, f>>[1] = d /\ <<d, f>>[2] = f
           /\ Append(<<d>>, f) = <<d, f>>
<1>1. /\ Len(<<d>>) = 1 /\ Len(<<d, f>>) = 2
      /\ <<d>>[1] = d /\ <<d, f>>[1] = d /\ <<d, f>>[2] = f
  OBVIOUS
<1>2. <<d>> \in Seq({d, f}) /\ <<d, f>> \in Seq({d, f}) OBVIOUS
<1>3. /\ Append(<<d>>, f) \in Seq({d, f}) /\ Len(Append(<<d>>, f)) = 2
      /\ Append(<<d>>, f)[1] = d /\ Append(<<d>>, f)[2] = f
  BY <1>1, <1>2, AppendProperties
<1>4. \A i \in 1 .. 2 : Append(<<d>>, f)[i] = <<d, f>>[i] BY <1>1, <1>3
<1> QED BY <1>1, <1>2, <1>3, <1>4, SeqEqual

\* The goodbye is queued behind nothing.
LEMMA GoodbyeFields ==
    ASSUME NEW s \in StaType, s.authenticated => s.bssid \in Aps
    PROVE  LET g == goodbye([s EXCEPT !.tx = <<>>])
           IN  /\ g \in StaType /\ SameJoin(s, g) /\ g.sup = s.sup
               /\ \/ g.tx = <<>>
                  \/ s.authenticated /\ g.tx = <<Frame(s, "Deauth", NoReply)>>
<1> DEFINE c == [s EXCEPT !.tx = <<>>]
           f == Frame(s, "Deauth", NoReply)
<1>1. <<>> \in Seq(Frames) /\ Len(<<>>) = 0 BY EmptySeq
<1>2. c \in StaType BY <1>1 DEF StaType
<1>3. /\ SameJoin(s, c) /\ c.sup = s.sup /\ c.tx = <<>>
      /\ c.authenticated = s.authenticated
  BY DEF StaType, SameJoin
<1> HIDE DEF c
<1>4. ~ Full(c) BY <1>1, <1>3, StationAssumption DEF Full
<1>5. Frame(c, "Deauth", NoReply) = f BY <1>3 DEF Frame, SameJoin
<1> HIDE DEF f
<1>6. CASE ~ s.authenticated
  <2>1. goodbye(c) = c BY <1>3, <1>6 DEF goodbye
  <2> QED BY <1>2, <1>3, <2>1 DEF c
<1>7. CASE s.authenticated
  <2>1. goodbye(c) = [c EXCEPT !.tx = Append(@, f)]
    BY <1>3, <1>4, <1>5, <1>7 DEF goodbye, queue
  <2>2. f \in Frames BY <1>7, FrameType, SupConstants DEF f
  <2>3. Append(<<>>, f) = <<f>> /\ <<f>> \in Seq(Frames) BY <2>2
  <2>4. goodbye(c) = [c EXCEPT !.tx = <<f>>] BY <1>3, <2>1, <2>3
  <2>5. goodbye(c) \in StaType BY <1>2, <2>3, <2>4 DEF StaType
  <2>6. /\ SameJoin(c, goodbye(c)) /\ goodbye(c).sup = c.sup /\ goodbye(c).tx = <<f>>
    BY <1>2, <2>4 DEF StaType, SameJoin
  <2>7. SameJoin(s, goodbye(c)) BY <1>3, <2>6 DEF SameJoin
  <2> QED BY <1>3, <1>7, <2>5, <2>6, <2>7 DEF c, f
<1> QED BY <1>6, <1>7

LEMMA LeaveFields ==
    ASSUME NEW s \in StaType, s.authenticated => s.bssid \in Aps
    PROVE  leave(s) \in StaType /\ Ends(s, leave(s))
<1> DEFINE c == [s EXCEPT !.tx = <<>>]
           g == goodbye(c)
<1>1. /\ g \in StaType /\ SameJoin(s, g)
      /\ g.tx = <<>> \/ (s.authenticated /\ g.tx = <<Frame(s, "Deauth", NoReply)>>)
  BY GoodbyeFields
<1>2. forget(s.sup) \in SupType BY ForgetFields DEF StaType
<1>3. g.sup = s.sup BY GoodbyeFields
<1>4. leave(s) = [g EXCEPT !.sup = forget(@), !.state = "Idle", !.authenticated = FALSE]
  BY DEF leave
<1> HIDE DEF g
<1>5. leave(s) = [g EXCEPT !.sup = forget(s.sup), !.state = "Idle", !.authenticated = FALSE]
  BY <1>3, <1>4
<1>6. leave(s) \in StaType BY <1>1, <1>2, <1>5, ZenonT(60) DEF StaType
<1>7. /\ SameJoin(g, leave(s)) /\ leave(s).state = "Idle" /\ leave(s).tx = g.tx
      /\ leave(s).sup = forget(s.sup) /\ ~ leave(s).authenticated
  BY <1>1, <1>5, ZenonT(60) DEF StaType, SameJoin
<1> QED BY <1>1, <1>6, <1>7 DEF Ends, SameJoin, Listening

\* A request that finds room.
LEMMA SendFields ==
    ASSUME NEW s \in StaType, s.bssid \in Aps, ~ Full(s), NEW type \in {"Auth", "Assoc"}
    PROVE  LET t == send_request(s, type)
           IN  /\ t \in StaType /\ SameJoin(s, t)
               /\ t.tries = s.tries + 1 /\ t.tx = Append(s.tx, Frame(s, type, NoReply))
               /\ t.state = s.state /\ t.security = s.security /\ t.sup = s.sup
               /\ t.authenticated = s.authenticated
<1> DEFINE f == Frame(s, type, NoReply)
           q == [s EXCEPT !.tx = Append(@, f)]
           t == [q EXCEPT !.since_tx = 0, !.tries = @ + 1]
<1>1. send_request(s, type) = t BY DEF send_request, queue
<1>2. Append(s.tx, f) \in Seq(Frames) /\ s.tries + 1 \in Nat
  <2>1. f \in Frames BY FrameType, SupConstants
  <2>2. s.tx \in Seq(Frames) /\ s.tries \in Nat BY DEF StaType
  <2> QED BY <2>1, <2>2, AppendProperties
<1> HIDE DEF f
<1>3. q \in StaType BY <1>2 DEF StaType
<1>4. /\ SameJoin(s, q) /\ q.tries = s.tries /\ q.tx = Append(s.tx, f) /\ q.state = s.state
      /\ q.security = s.security /\ q.sup = s.sup /\ q.authenticated = s.authenticated
  BY DEF StaType, SameJoin
<1> HIDE DEF q
<1>5. t = [q EXCEPT !.since_tx = 0, !.tries = s.tries + 1] BY <1>4
<1>6. t \in StaType BY <1>2, <1>3, <1>5, Ages, ZenonT(60) DEF StaType
<1>7. /\ SameJoin(q, t) /\ t.tries = s.tries + 1 /\ t.tx = q.tx /\ t.state = q.state
      /\ t.security = q.security /\ t.sup = q.sup /\ t.authenticated = q.authenticated
  BY <1>3, <1>5, ZenonT(60) DEF StaType, SameJoin
<1> HIDE DEF t
<1> QED BY <1>1, <1>4, <1>6, <1>7 DEF SameJoin, f

LEMMA JoinFields ==
    ASSUME NEW s \in StaType, NEW e \in Entries, s.authenticated => s.bssid \in Aps
    PROVE  /\ join(s, e) \in StaType
           /\ Ends(s, join(s, e)) \/ Starts(s, join(s, e))
<1>1. CASE Refused(s, e) BY <1>1, FailFields DEF join
<1>2. CASE ~ Refused(s, e)
  <2> DEFINE g == goodbye([s EXCEPT !.tx = <<>>])
             h == [g EXCEPT !.bssid = e.ap, !.joins = @ + 1, !.rsn = e.rsn,
                            !.sup = forget(@), !.authenticated = FALSE,
                            !.state = "Authenticating", !.tries = 0, !.since_heard = 0]
  <2>1. join(s, e) = send_auth(h) BY <1>2 DEF join, Cleared
  <2>2. /\ g \in StaType /\ SameJoin(s, g) /\ g.sup = s.sup
        /\ g.tx = <<>> \/ (s.authenticated /\ g.tx = <<Frame(s, "Deauth", NoReply)>>)
    BY GoodbyeFields
  <2> HIDE DEF g
  <2>3. /\ forget(s.sup) \in SupType /\ s.joins + 1 \in Nat
        /\ e.ap \in Aps /\ e.ap \in Aps \cup {NoAp} /\ e.rsn \in Rsns
    BY ForgetFields DEF StaType, Entries
  <2>4. h = [g EXCEPT !.bssid = e.ap, !.joins = s.joins + 1, !.rsn = e.rsn,
                      !.sup = forget(s.sup), !.authenticated = FALSE,
                      !.state = "Authenticating", !.tries = 0, !.since_heard = 0]
    BY <2>2 DEF SameJoin
  <2>5. 0 \in Nat OBVIOUS
  <2>6. h \in StaType BY <2>2, <2>3, <2>4, <2>5, Ages, ZenonT(60) DEF StaType
  <2>7. /\ h.bssid = e.ap /\ h.joins = s.joins + 1 /\ h.sup = forget(s.sup)
        /\ ~ h.authenticated /\ h.state = "Authenticating" /\ h.tries = 0 /\ h.tx = g.tx
    BY <2>2, <2>4, ZenonT(60) DEF StaType
  <2> HIDE DEF h
  <2>8. ~ Full(h)
    <3>1. Len(<<>>) = 0 BY EmptySeq
    <3>2. Len(<<Frame(s, "Deauth", NoReply)>>) = 1 BY ShortQueues
    <3>3. h.tx = <<>> \/ h.tx = <<Frame(s, "Deauth", NoReply)>> BY <2>2, <2>7
    <3> DEFINE n == Len(h.tx)
    <3>4. n \in {0, 1} BY <3>1, <3>2, <3>3, Zenon
    <3> HIDE DEF n
    <3>5. ~ (n >= MaxTxQueue) BY <3>4, QueueRoom
    <3> QED BY <3>5 DEF Full, n
  <2> DEFINE t == send_request(h, "Auth")
             f == Frame(h, "Auth", NoReply)
  <2>9. /\ t \in StaType /\ SameJoin(h, t)
        /\ t.tries = h.tries + 1 /\ t.tx = Append(h.tx, f)
        /\ t.state = h.state /\ t.sup = h.sup /\ t.authenticated = h.authenticated
    BY <2>3, <2>6, <2>7, <2>8, SendFields
  <2> HIDE DEF t
  <2>10. f = Frame(t, "Auth", NoReply) BY <2>9 DEF Frame, SameJoin
  <2> HIDE DEF f
  <2>11. \/ t.tx = <<f>>
         \/ s.authenticated /\ t.tx = <<Frame(s, "Deauth", NoReply), f>>
    <3>1. CASE g.tx = <<>> BY <2>7, <2>9, <3>1
    <3>2. CASE s.authenticated /\ g.tx = <<Frame(s, "Deauth", NoReply)>>
      <4>1. Append(<<Frame(s, "Deauth", NoReply)>>, f) = <<Frame(s, "Deauth", NoReply), f>>
        BY ShortQueues
      <4> QED BY <2>7, <2>9, <3>2, <4>1
    <3> QED BY <2>2, <3>1, <3>2
  <2>12. Starts(s, t)
    BY <2>3, <2>7, <2>9, <2>10, <2>11 DEF Starts, SameJoin
  <2> QED BY <2>1, <2>9, <2>12 DEF send_auth, t
<1> QED BY <1>1, <1>2

LEMMA LinkLostFields ==
    ASSUME NEW s \in StaType
    PROVE  /\ link_lost(s) \in StaType
           /\ Ends(s, link_lost(s)) \/ Rests(s, link_lost(s))
BY FailFields DEF link_lost, Rests, SameJoin

LEMMA PopFields ==
    ASSUME NEW s \in StaType, s.tx # <<>>
    PROVE  pop_tx(s) \in StaType /\ Pops(s, pop_tx(s))
<1>1. Tail(s.tx) \in Seq(Frames) BY HeadTailProperties DEF StaType
<1> QED BY <1>1 DEF pop_tx, StaType, Pops, SameJoin

LEMMA HeardFields ==
    ASSUME NEW s \in StaType
    PROVE  heard(s) \in StaType /\ Rests(s, heard(s))
BY Ages DEF heard, StaType, Rests, SameJoin

LEMMA ElapseFields ==
    ASSUME NEW s \in StaType
    PROVE  elapse(s) \in StaType /\ Rests(s, elapse(s))
<1>1. /\ Older(s.since_tx, MaxTxAge) \in 0..MaxTxAge
      /\ Older(s.since_heard, BeaconLoss) \in 0..BeaconLoss
  BY Ages DEF Older, StaType
<1> QED BY <1>1 DEF elapse, StaType, Rests, SameJoin

\* Where a request may be sent there is room for it.
Roomy(s) ==
    s.state = "Authenticating" \/ (s.state = "Associating" /\ s.tries < MaxTries) => ~ Full(s)

LEMMA TickFields ==
    ASSUME NEW s \in StaType, Roomy(s), Listening(s) => s.bssid \in Aps
    PROVE  /\ tick(s) \in StaType
           /\ Rests(s, tick(s)) \/ Ends(s, tick(s)) \/ Requests(s, tick(s))
<1>0. s.tries \in Nat /\ MaxTries \in Nat BY StationAssumption DEF StaType
<1>1. \/ tick(s) = s \/ tick(s) = fail(s)
      \/ /\ Asking(s) /\ ~ (s.tries >= MaxTries)
         /\ \E type \in {"Auth", "Assoc"} : tick(s) = send_request(s, type)
  BY DEF tick, Asking, send_auth, send_assoc
<1>2. CASE tick(s) = s BY <1>2 DEF Rests, SameJoin
<1>3. CASE tick(s) = fail(s) BY <1>3, FailFields
<1>4. ASSUME Asking(s), ~ (s.tries >= MaxTries), NEW type \in {"Auth", "Assoc"},
             tick(s) = send_request(s, type)
      PROVE  tick(s) \in StaType /\ Requests(s, tick(s))
  <2>1. s.tries < MaxTries BY <1>0, <1>4
  <2>2. ~ Full(s) /\ s.bssid \in Aps BY <1>4, <2>1 DEF Roomy, Asking, Listening
  <2> DEFINE t == send_request(s, type)
  <2>3. /\ t \in StaType /\ SameJoin(s, t)
        /\ t.tries = s.tries + 1 /\ t.tx = Append(s.tx, Frame(s, type, NoReply))
        /\ t.state = s.state /\ t.security = s.security /\ t.sup = s.sup
    BY <2>2, SendFields
  <2> HIDE DEF t
  <2>4. Requests(s, t) BY <1>4, <2>1, <2>3 DEF Requests
  <2> QED BY <1>4, <2>3, <2>4 DEF t
<1> QED BY <1>1, <1>2, <1>3, <1>4

LEMMA AuthFields ==
    ASSUME NEW s \in StaType, Roomy(s), Listening(s), s.bssid \in Aps, NEW ok
    PROVE  LET t == on_auth(s, ok)
           IN  t \in StaType /\ (Rests(s, t) \/ Ends(s, t) \/ Requests(s, t))
<1>1. CASE s.state # "Authenticating" BY <1>1 DEF on_auth, Rests, SameJoin
<1>2. CASE s.state = "Authenticating" /\ ~ ok BY <1>2, FailFields DEF on_auth
<1>3. CASE s.state = "Authenticating" /\ ok
  <2> DEFINE h == [s EXCEPT !.authenticated = TRUE, !.state = "Associating", !.tries = 0]
             t == send_request(h, "Assoc")
  <2>1. on_auth(s, ok) = t BY <1>3 DEF on_auth, send_assoc
  <2>2. 0 \in Nat OBVIOUS
  <2>3. h \in StaType BY <2>2, ZenonT(60) DEF StaType
  <2>4. /\ SameJoin(s, h) /\ h.state = "Associating" /\ h.tries = 0 /\ h.tx = s.tx
        /\ h.security = s.security /\ h.sup = s.sup
    BY ZenonT(60) DEF StaType, SameJoin
  <2> HIDE DEF h
  <2>5. ~ Full(h) BY <1>3, <2>4 DEF Roomy, Full
  <2>6. Frame(h, "Assoc", NoReply) = Frame(s, "Assoc", NoReply) BY <2>4 DEF Frame, SameJoin
  <2>7. /\ t \in StaType /\ SameJoin(h, t)
        /\ t.tries = h.tries + 1 /\ t.tx = Append(h.tx, Frame(h, "Assoc", NoReply))
        /\ t.state = h.state /\ t.security = h.security /\ t.sup = h.sup
    BY <2>3, <2>4, <2>5, SendFields DEF SameJoin
  <2> HIDE DEF t
  <2>8. Requests(s, t) BY <1>3, <2>4, <2>6, <2>7 DEF Requests, SameJoin
  <2> QED BY <2>1, <2>7, <2>8
<1> QED BY <1>1, <1>2, <1>3

LEMMA AssocFields ==
    ASSUME NEW s \in StaType, NEW ok
    PROVE  LET t == on_assoc_resp(s, ok)
           IN  t \in StaType /\ (Rests(s, t) \/ Ends(s, t) \/ Associates(s, t))
<1>1. CASE s.state # "Associating" BY <1>1 DEF on_assoc_resp, Rests, SameJoin
<1>2. CASE s.state = "Associating" /\ ~ ok BY <1>2, FailFields DEF on_assoc_resp
<1>3. CASE s.state = "Associating" /\ ok
  <2> DEFINE a == [s EXCEPT !.since_tx = 0, !.since_heard = 0]
  <2>1. a \in StaType BY Ages, ZenonT(60) DEF StaType
  <2>2. /\ SameJoin(s, a) /\ a.security = s.security /\ a.sup = s.sup
        /\ a.authenticated = s.authenticated /\ a.tx = s.tx
    BY ZenonT(60) DEF StaType, SameJoin
  <2>3. on_assoc_resp(s, ok) =
          IF s.security = "Open" THEN [a EXCEPT !.state = "Connected"]
          ELSE [a EXCEPT !.state = "FourWay", !.sup = start(@, s.joins, s.rsn)]
    BY <1>3 DEF on_assoc_resp
  <2> HIDE DEF a
  <2>4. CASE s.security = "Open"
    <3> DEFINE t == [a EXCEPT !.state = "Connected"]
    <3>1. /\ t \in StaType /\ SameJoin(a, t) /\ t.security = a.security
          /\ t.authenticated = a.authenticated /\ t.tx = a.tx
          /\ t.state = "Connected" /\ t.sup = a.sup
      BY <2>1 DEF StaType, SameJoin
    <3> HIDE DEF t
    <3>2. Associates(s, t) BY <1>3, <2>2, <2>4, <3>1 DEF Associates, SameJoin
    <3> QED BY <2>3, <2>4, <3>1, <3>2 DEF t
  <2>5. CASE s.security # "Open"
    <3> DEFINE u == start(s.sup, s.joins, s.rsn)
               t == [a EXCEPT !.state = "FourWay", !.sup = u]
    <3>1. on_assoc_resp(s, ok) = t BY <2>2, <2>3, <2>5
    <3>2. u \in SupType BY StartFields DEF StaType
    <3>3. s.security = "Wpa2Psk" BY <2>5 DEF StaType
    <3> HIDE DEF u
    <3>4. t \in StaType BY <2>1, <3>2, ZenonT(60) DEF StaType
    <3>5. /\ SameJoin(a, t) /\ t.security = a.security
          /\ t.authenticated = a.authenticated /\ t.tx = a.tx
          /\ t.state = "FourWay" /\ t.sup = u
      BY <2>1, ZenonT(60) DEF StaType, SameJoin
    <3> HIDE DEF t
    <3>6. Associates(s, t) BY <1>3, <2>2, <3>3, <3>5 DEF Associates, SameJoin, u
    <3> QED BY <3>1, <3>4, <3>6
  <2> QED BY <2>4, <2>5
<1> QED BY <1>1, <1>2, <1>3

LEMMA DeauthFields ==
    ASSUME NEW s \in StaType
    PROVE  on_deauth(s) \in StaType /\ Ends(s, on_deauth(s))
<1> DEFINE f == fail(s)
<1>1. f \in StaType /\ Ends(s, f) BY FailFields
<1>2. on_deauth(s) = [f EXCEPT !.authenticated = FALSE] BY DEF on_deauth
<1> HIDE DEF f
<1>3. on_deauth(s) \in StaType BY <1>1, <1>2 DEF StaType
<1>4. /\ SameJoin(f, on_deauth(s)) /\ on_deauth(s).state = f.state
      /\ on_deauth(s).sup = f.sup /\ on_deauth(s).tx = f.tx /\ ~ on_deauth(s).authenticated
  BY <1>1, <1>2 DEF StaType, SameJoin
<1> QED BY <1>1, <1>3, <1>4 DEF Ends, SameJoin, Listening

\* A reply has left: the deadline moves, and the machine with it.
LEMMA SentFields ==
    ASSUME NEW s \in StaType, NEW v
    PROVE  LET t == Sent(s, v)
           IN  /\ t \in StaType /\ SameJoin(s, t) /\ t.security = s.security
               /\ t.authenticated = s.authenticated /\ t.tries = s.tries
               /\ t.sup = s.sup /\ t.tx = s.tx /\ t.state = Promoted(s, s.sup)
<1> DEFINE w == IF v = "Reply" THEN 0 ELSE s.since_tx
           q == [s EXCEPT !.since_tx = w]
<1>1. Sent(s, v) = promote_if_keyed(q) BY DEF Sent
<1>2. w \in 0..MaxTxAge BY Ages DEF StaType
<1> HIDE DEF w
<1>3. /\ q \in StaType /\ SameJoin(s, q) /\ q.security = s.security
      /\ q.authenticated = s.authenticated /\ q.tries = s.tries
      /\ q.sup = s.sup /\ q.tx = s.tx /\ q.state = s.state
  BY <1>2 DEF StaType, SameJoin
<1> HIDE DEF q
<1>4. CASE q.state = "FourWay" /\ q.sup.st = "Done" /\ ptk_valid(q.sup)
  <2> DEFINE t == [q EXCEPT !.state = "Connected", !.since_heard = 0]
  <2>1. promote_if_keyed(q) = t BY <1>4 DEF promote_if_keyed
  <2>2. t \in StaType BY <1>3, Ages, ZenonT(60) DEF StaType
  <2>3. /\ SameJoin(q, t) /\ t.security = q.security
        /\ t.authenticated = q.authenticated /\ t.tries = q.tries
        /\ t.sup = q.sup /\ t.tx = q.tx /\ t.state = "Connected"
    BY <1>3, ZenonT(60) DEF StaType, SameJoin
  <2> HIDE DEF t
  <2>4. Promoted(s, s.sup) = "Connected" BY <1>3, <1>4 DEF Promoted
  <2> QED BY <1>1, <1>3, <2>1, <2>2, <2>3, <2>4 DEF SameJoin
<1>5. CASE ~ (q.state = "FourWay" /\ q.sup.st = "Done" /\ ptk_valid(q.sup))
  <2>1. promote_if_keyed(q) = q BY <1>5 DEF promote_if_keyed
  <2>2. Promoted(s, s.sup) = s.state BY <1>3, <1>5 DEF Promoted
  <2> QED BY <1>1, <1>3, <2>1, <2>2
<1> QED BY <1>4, <1>5

\* The machine around the supplicant's state r.
LEMMA TurnFields ==
    ASSUME NEW s \in StaType, NEW r \in SupType
    PROVE  LET t == [s EXCEPT !.sup = r, !.since_heard = 0]
           IN  /\ t \in StaType /\ SameJoin(s, t) /\ t.security = s.security
               /\ t.authenticated = s.authenticated /\ t.tries = s.tries
               /\ t.sup = r /\ t.tx = s.tx /\ t.state = s.state
<1>1. [s EXCEPT !.sup = r, !.since_heard = 0] \in StaType BY Ages, ZenonT(60) DEF StaType
<1> QED BY <1>1, ZenonT(60) DEF StaType, SameJoin

LEMMA ReplyFields ==
    ASSUME NEW s \in StaType, NEW k \in EapolKeys
    PROVE  /\ eapol_reply(s, k) \in Results
           /\ Keyed(s) => eapol_reply(s, k) = on_eapol(s.sup, k)
           /\ ~ Keyed(s) => eapol_reply(s, k).s = s.sup /\ eapol_reply(s, k).out = NoReply
<1>1. s.sup \in SupType BY DEF StaType
<1>2. CASE Keyed(s)
  <2>1. eapol_reply(s, k) = on_eapol(s.sup, k) BY <1>2 DEF eapol_reply, Keyed
  <2>2. on_eapol(s.sup, k) \in Results BY <1>1, EapolFields
  <2> QED BY <1>2, <2>1, <2>2
<1>3. CASE ~ Keyed(s)
  <2>1. eapol_reply(s, k) = [v |-> "Ignored", s |-> s.sup, out |-> NoReply]
    BY <1>3 DEF eapol_reply, Keyed, note, Result
  <2> QED BY <1>1, <1>3, <2>1, SupConstants DEF Results, Verdicts
<1> QED BY <1>2, <1>3

LEMMA ClearFields ==
    ASSUME NEW s \in StaType, s.bssid \in Aps, NEW k \in EapolKeys
    PROVE  LET t == on_cleartext(s, k)
           IN  t \in StaType /\ t.tries = s.tries /\ (Rests(s, t) \/ HearsClear(s, k, t))
<1> DEFINE r == eapol_reply(s, k)
           t == [s EXCEPT !.sup = r.s, !.since_heard = 0]
           f == Frame(t, "Eapol", r.out)
           q == queue(t, f)
<1>1. r.s \in SupType /\ r.out \in Replies BY ReplyFields DEF Results
<1>2. /\ Keyed(s) => r = on_eapol(s.sup, k)
      /\ ~ Keyed(s) => r.s = s.sup /\ r.out = NoReply
  BY ReplyFields
<1>3. on_cleartext(s, k) = IF ~ cleartext_eapol_allowed(s, k) THEN heard(s)
                           ELSE IF r.out = NoReply \/ Full(t) THEN t
                           ELSE Sent(q, r.v)
  BY DEF on_cleartext
<1> HIDE DEF r
<1>4. /\ t \in StaType /\ SameJoin(s, t) /\ t.security = s.security
      /\ t.authenticated = s.authenticated /\ t.tries = s.tries
      /\ t.sup = r.s /\ t.tx = s.tx /\ t.state = s.state
  BY <1>1, TurnFields
<1> HIDE DEF t
<1>5. CASE ~ cleartext_eapol_allowed(s, k)
  <2>1. on_cleartext(s, k) = heard(s) BY <1>3, <1>5
  <2> QED BY <2>1, HeardFields DEF Rests
<1>6. CASE cleartext_eapol_allowed(s, k) /\ (r.out = NoReply \/ Full(t))
  <2>1. on_cleartext(s, k) = t BY <1>3, <1>6
  <2>2. CASE Keyed(s)
    <3>1. HearsClear(s, k, t) BY <1>2, <1>4, <1>6, <2>2 DEF HearsClear, Hears
    <3> QED BY <1>4, <2>1, <3>1
  <2>3. CASE ~ Keyed(s)
    <3>1. Rests(s, t) BY <1>2, <1>4, <2>3 DEF Rests
    <3> QED BY <1>4, <2>1, <3>1
  <2> QED BY <2>2, <2>3
<1>7. CASE cleartext_eapol_allowed(s, k) /\ r.out # NoReply /\ ~ Full(t)
  <2>1. on_cleartext(s, k) = Sent(q, r.v) BY <1>3, <1>7
  <2>2. Keyed(s) BY <1>2, <1>7
  <2>3. f = Frame(s, "Eapol", r.out) BY <1>4 DEF Frame, SameJoin
  <2>4. f \in Frames BY <1>1, <2>3, FrameType
  <2> HIDE DEF f
  <2>5. q = [t EXCEPT !.tx = Append(t.tx, f)] BY <1>7 DEF queue
  <2>6. Append(t.tx, f) \in Seq(Frames) BY <1>4, <2>4, AppendProperties DEF StaType
  <2>7. /\ q \in StaType /\ SameJoin(t, q) /\ q.security = t.security
        /\ q.authenticated = t.authenticated /\ q.tries = t.tries
        /\ q.sup = t.sup /\ q.tx = Append(t.tx, f) /\ q.state = t.state
    BY <1>4, <2>5, <2>6 DEF StaType, SameJoin
  <2> HIDE DEF q
  <2> DEFINE u == Sent(q, r.v)
  <2>8. /\ u \in StaType /\ SameJoin(q, u) /\ u.security = q.security
        /\ u.authenticated = q.authenticated /\ u.tries = q.tries
        /\ u.sup = q.sup /\ u.tx = q.tx /\ u.state = Promoted(q, q.sup)
    BY <2>7, SentFields
  <2> HIDE DEF u
  <2>9. u.state = Promoted(s, u.sup) BY <1>4, <2>7, <2>8 DEF Promoted
  <2>10. ~ Full(s) BY <1>4, <1>7 DEF Full
  <2>11. /\ SameJoin(s, u) /\ u.security = s.security /\ u.authenticated = s.authenticated
         /\ u.sup = r.s /\ u.tx = Append(s.tx, f) /\ u.tries = s.tries
    BY <1>4, <2>7, <2>8 DEF SameJoin
  <2>12. HearsClear(s, k, u)
    BY <1>2, <1>7, <2>2, <2>3, <2>9, <2>10, <2>11 DEF HearsClear, Hears
  <2> QED BY <2>1, <2>8, <2>11, <2>12 DEF u
<1> QED BY <1>5, <1>6, <1>7

LEMMA ProtectedFields ==
    ASSUME NEW s \in StaType, NEW k \in EapolKeys
    PROVE  LET t == on_decrypted_msdu(s, k)
           IN  /\ t \in StaType /\ t.tries = s.tries
               /\ (~ Keyed(s) /\ Rests(s, t)) \/ HearsProtected(s, k, t)
<1> DEFINE r == eapol_reply(s, k)
           t == [s EXCEPT !.sup = r.s, !.since_heard = 0]
           u == Sent(t, r.v)
<1>1. r.s \in SupType BY ReplyFields DEF Results
<1>2. /\ Keyed(s) => r = on_eapol(s.sup, k)
      /\ ~ Keyed(s) => r.s = s.sup /\ r.out = NoReply
  BY ReplyFields
<1>3. on_decrypted_msdu(s, k) = IF r.out = NoReply THEN t ELSE u
  BY DEF on_decrypted_msdu
<1> HIDE DEF r
<1>4. /\ t \in StaType /\ SameJoin(s, t) /\ t.security = s.security
      /\ t.authenticated = s.authenticated /\ t.tries = s.tries
      /\ t.sup = r.s /\ t.tx = s.tx /\ t.state = s.state
  BY <1>1, TurnFields
<1> HIDE DEF t
<1>5. /\ u \in StaType /\ SameJoin(t, u) /\ u.security = t.security
      /\ u.authenticated = t.authenticated /\ u.tries = t.tries
      /\ u.sup = t.sup /\ u.tx = t.tx /\ u.state = Promoted(t, t.sup)
  BY <1>4, SentFields
<1> HIDE DEF u
<1>6. CASE ~ Keyed(s)
  <2>1. on_decrypted_msdu(s, k) = t BY <1>2, <1>3, <1>6
  <2>2. Rests(s, t) BY <1>2, <1>4, <1>6 DEF Rests
  <2> QED BY <1>4, <1>6, <2>1, <2>2
<1>7. CASE Keyed(s)
  <2>1. HearsProtected(s, k, t) BY <1>2, <1>4, <1>7 DEF HearsProtected, Hears
  <2>2. u.state = Promoted(s, u.sup) BY <1>4, <1>5 DEF Promoted
  <2>3. HearsProtected(s, k, u)
    BY <1>2, <1>4, <1>5, <1>7, <2>2 DEF HearsProtected, Hears, SameJoin
  <2> QED BY <1>3, <1>4, <1>5, <2>1, <2>3
<1> QED BY <1>6, <1>7

------------------------------------------------------------------------------
(* The station by itself: what is queued, and that requests find room.     *)

\* A step of the station's machine.
Steps(s, t) ==
    \/ Rests(s, t) \/ Ends(s, t) \/ Starts(s, t) \/ Requests(s, t)
    \/ Associates(s, t) \/ Pops(s, t)
    \/ \E k \in EapolKeys : HearsClear(s, k, t) \/ HearsProtected(s, k, t)

\* A machine that listens has joined an AP.
HomeInv(s) ==
    /\ Listening(s) \/ s.authenticated => s.bssid \in Aps
    /\ Listening(s) => s.joins >= 1

\* The goodbye comes first; the rest is of the association under way.
Placed(s, f, i) ==
    IF f.type = "Deauth" THEN i = 1
    ELSE /\ Listening(s) /\ f.to = s.bssid /\ f.born = s.joins
         /\ f.type = "Eapol" => ~ Asking(s)

\* No request is behind an answer.
AnswersLast(q) ==
    \A i, j \in 1..Len(q) : i < j /\ q[i].type = "Eapol" => q[j].type = "Eapol"

QueueInv(s) ==
    /\ \A i \in 1..Len(s.tx) : Placed(s, s.tx[i], i)
    /\ AnswersLast(s.tx)

\* At most one goodbye and the requests that the tries stand for are queued.
RoomInv(s) ==
    /\ Len(s.tx) <= MaxTxQueue
    /\ s.state = "Authenticating" =>
         s.tries \in 1..MaxTries /\ Len(s.tx) <= 1 + s.tries
    /\ s.state = "Associating" =>
         s.tries \in 1..MaxTries /\ Len(s.tx) <= 1 + MaxTries + s.tries

StaOk(s) == s \in StaType /\ HomeInv(s) /\ QueueInv(s) /\ RoomInv(s)

LEMMA RoomyStation ==
    ASSUME NEW s, StaOk(s)
    PROVE  Roomy(s)
<1> DEFINE n == Len(s.tx)
<1>1. n \in Nat BY LenProperties DEF StaOk, StaType
<1>2. /\ s.state = "Authenticating" => s.tries \in 1..MaxTries /\ n <= 1 + s.tries
      /\ s.state = "Associating" => s.tries \in 1..MaxTries /\ n <= 1 + MaxTries + s.tries
  BY DEF StaOk, RoomInv
<1> HIDE DEF n
<1>3. CASE s.state = "Authenticating"
  <2>1. ~ (n >= MaxTxQueue) BY <1>1, <1>2, <1>3, QueueRoom
  <2> QED BY <2>1 DEF Roomy, Full, n
<1>4. CASE s.state = "Associating" /\ s.tries < MaxTries
  <2>1. ~ (n >= MaxTxQueue) BY <1>1, <1>2, <1>4, QueueRoom
  <2> QED BY <2>1 DEF Roomy, Full, n
<1> QED BY <1>3, <1>4 DEF Roomy

\* A frame joins the end of a queue.
LEMMA QueueGrows ==
    ASSUME NEW s, StaOk(s), NEW t \in StaType, NEW f \in Frames,
           t.tx = Append(s.tx, f), SameJoin(s, t), Listening(t),
           f.type # "Deauth", Placed(t, f, 1),
           f.type # "Eapol" => Asking(s), Asking(t) => Asking(s)
    PROVE  QueueInv(t) /\ Len(t.tx) = Len(s.tx) + 1
<1> DEFINE n == Len(s.tx)
<1>1. s.tx \in Seq(Frames) BY DEF StaOk, StaType
<1>2. /\ n \in Nat /\ Len(t.tx) = n + 1 /\ t.tx[n + 1] = f
      /\ \A i \in 1..n : t.tx[i] = s.tx[i]
  BY <1>1, AppendProperties, LenProperties
<1>3. /\ \A i \in 1..n : Placed(s, s.tx[i], i)
      /\ AnswersLast(s.tx)
  BY DEF StaOk, QueueInv
<1> HIDE DEF n
<1>4. \A i \in 1..n : Placed(t, t.tx[i], i) BY <1>2, <1>3 DEF Placed, SameJoin
<1>5. Placed(t, t.tx[n + 1], n + 1) BY <1>2 DEF Placed
<1>6. \A i \in 1..Len(t.tx) : Placed(t, t.tx[i], i) BY <1>2, <1>4, <1>5
<1>7. AnswersLast(t.tx)
  <2> SUFFICES ASSUME NEW i \in 1..Len(t.tx), NEW j \in 1..Len(t.tx), i < j,
                      t.tx[i].type = "Eapol"
               PROVE  t.tx[j].type = "Eapol"
    BY DEF AnswersLast
  <2>1. i \in 1..n /\ s.tx[i].type = "Eapol" BY <1>2
  <2>2. CASE j \in 1..n BY <1>2, <1>3, <2>1, <2>2 DEF AnswersLast, n
  <2>3. CASE j = n + 1
    <3>1. Placed(s, s.tx[i], i) BY <1>3, <2>1
    <3>2. ~ Asking(s) BY <2>1, <3>1 DEF Placed
    <3> QED BY <1>2, <2>3, <3>2
  <2> QED BY <1>2, <2>2, <2>3
<1> QED BY <1>2, <1>6, <1>7 DEF QueueInv, n

\* A queue that was kept, where the machine listens as before.
LEMMA QueueKept ==
    ASSUME NEW s, StaOk(s), NEW t \in StaType, t.tx = s.tx, SameJoin(s, t),
           Listening(s) => Listening(t), Asking(t) => Asking(s)
    PROVE  QueueInv(t)
BY DEF StaOk, QueueInv, Placed, SameJoin

LEMMA QueuePopped ==
    ASSUME NEW s, StaOk(s), NEW t \in StaType, Pops(s, t)
    PROVE  QueueInv(t) /\ Len(t.tx) <= Len(s.tx)
<1> DEFINE n == Len(s.tx)
<1>1. s.tx \in Seq(Frames) /\ s.tx # <<>> /\ t.tx = Tail(s.tx)
  BY DEF StaOk, StaType, Pops
<1>2. /\ n \in Nat /\ n >= 1 /\ Len(t.tx) = n - 1
      /\ \A i \in 1..n - 1 : t.tx[i] = s.tx[i + 1]
  BY <1>1, HeadTailProperties, LenProperties, EmptySeq
<1>3. /\ \A i \in 1..n : Placed(s, s.tx[i], i)
      /\ AnswersLast(s.tx)
  BY DEF StaOk, QueueInv
<1>4. t.state = s.state /\ SameJoin(s, t) BY DEF Pops
<1> HIDE DEF n
<1>5. ASSUME NEW i \in 1..n - 1
      PROVE  Placed(t, t.tx[i], i)
  <2>1. i + 1 \in 1..n /\ i + 1 # 1 /\ t.tx[i] = s.tx[i + 1] BY <1>2
  <2>2. Placed(s, s.tx[i + 1], i + 1) BY <1>3, <2>1
  <2> QED BY <1>4, <2>1, <2>2 DEF Placed, SameJoin, Listening, Asking
<1>6. AnswersLast(t.tx)
  <2> SUFFICES ASSUME NEW i \in 1..n - 1, NEW j \in 1..n - 1, i < j,
                      t.tx[i].type = "Eapol"
               PROVE  t.tx[j].type = "Eapol"
    BY <1>2 DEF AnswersLast
  <2>1. i + 1 \in 1..n /\ j + 1 \in 1..n /\ i + 1 < j + 1 BY <1>2
  <2> QED BY <1>2, <1>3, <2>1 DEF AnswersLast, n
<1> QED BY <1>2, <1>5, <1>6 DEF QueueInv, n

\* What is left when an association has ended, or a new one starts.
LEMMA QueueShort ==
    ASSUME NEW s, StaOk(s), NEW t \in StaType, Ends(s, t) \/ Starts(s, t)
    PROVE  QueueInv(t) /\ Len(t.tx) <= 2 /\ (Starts(s, t) => t.tx # <<>>)
<1> DEFINE d == Frame(s, "Deauth", NoReply)
           f == Frame(t, "Auth", NoReply)
<1>1. d.type = "Deauth" /\ f.type = "Auth" /\ f.to = t.bssid /\ f.born = t.joins
  BY DEF Frame
<1>2. t.tx = <<>> \/ t.tx = <<d>>
      \/ (Starts(s, t) /\ (t.tx = <<f>> \/ t.tx = <<d, f>>))
  BY DEF Ends, Starts
<1>3. Starts(s, t) => Listening(t) /\ t.tx \in {<<f>>, <<d, f>>} BY DEF Starts, Listening
<1> HIDE DEF d, f
<1>4. Placed(t, d, 1) BY <1>1 DEF Placed
<1>5. Starts(s, t) => Placed(t, f, 1) /\ Placed(t, f, 2) BY <1>1, <1>3 DEF Placed
<1>6. CASE t.tx = <<>>
  <2>1. Len(t.tx) = 0 BY <1>6, EmptySeq
  <2>2. <<>> # <<f>> /\ <<>> # <<d, f>> BY EmptySeq, ShortQueues
  <2> QED BY <1>3, <1>6, <2>1, <2>2 DEF QueueInv, AnswersLast
<1>7. ASSUME NEW e, t.tx = <<e>>, Placed(t, e, 1)
      PROVE  QueueInv(t) /\ Len(t.tx) <= 2 /\ t.tx # <<>>
  <2>1. Len(t.tx) = 1 /\ t.tx[1] = e BY <1>7, ShortQueues
  <2> QED BY <1>7, <2>1, EmptySeq DEF QueueInv, AnswersLast
<1>8. CASE Starts(s, t) /\ t.tx = <<d, f>>
  <2>1. Len(t.tx) = 2 /\ t.tx[1] = d /\ t.tx[2] = f BY <1>8, ShortQueues
  <2>2. \A i \in 1..Len(t.tx) : i = 1 \/ i = 2 BY <2>1
  <2>3. AnswersLast(t.tx) BY <1>1, <2>1, <2>2 DEF AnswersLast
  <2> QED BY <1>4, <1>5, <1>8, <2>1, <2>2, <2>3, EmptySeq DEF QueueInv
<1> QED BY <1>2, <1>4, <1>5, <1>6, <1>7, <1>8

\* Every step of the machine keeps the station in order.
LEMMA StationStep ==
    ASSUME NEW s, StaOk(s), NEW t \in StaType, Steps(s, t)
    PROVE  StaOk(t)
<1>0. /\ s \in StaType /\ HomeInv(s) /\ QueueInv(s) /\ RoomInv(s) BY DEF StaOk
<1> DEFINE n == Len(s.tx)
           m == Len(t.tx)
<1>1. n \in Nat /\ m \in Nat /\ n <= MaxTxQueue
  BY <1>0, LenProperties DEF StaType, RoomInv
<1>2. /\ s.state = "Authenticating" => s.tries \in 1..MaxTries /\ n <= 1 + s.tries
      /\ s.state = "Associating" => s.tries \in 1..MaxTries /\ n <= 1 + MaxTries + s.tries
  BY <1>0 DEF RoomInv
<1>3. ASSUME SameJoin(s, t), t.state = s.state, t.authenticated = s.authenticated,
             t.tries = s.tries, QueueInv(t), m <= n
      PROVE  StaOk(t)
  <2>1. HomeInv(t) BY <1>0, <1>3 DEF HomeInv, SameJoin, Listening
  <2> HIDE DEF n, m
  <2>2. /\ m <= MaxTxQueue
        /\ t.state = "Authenticating" => t.tries \in 1..MaxTries /\ m <= 1 + t.tries
        /\ t.state = "Associating" =>
             t.tries \in 1..MaxTries /\ m <= 1 + MaxTries + t.tries
    BY <1>1, <1>2, <1>3, QueueRoom
  <2> QED BY <1>3, <2>1, <2>2 DEF StaOk, RoomInv, m
<1>4. CASE Rests(s, t)
  <2>1. QueueInv(t) BY <1>4, QueueKept DEF Rests, SameJoin, Listening, Asking
  <2>2. m = n BY <1>4 DEF Rests
  <2> QED BY <1>1, <1>3, <1>4, <2>1, <2>2 DEF Rests
<1>5. CASE Ends(s, t)
  <2>1. QueueInv(t) /\ m <= 2 BY <1>5, QueueShort
  <2>2. HomeInv(t) BY <1>0, <1>5 DEF HomeInv, Ends, SameJoin
  <2>3. ~ Asking(t) BY <1>5 DEF Ends, Listening, Asking
  <2> HIDE DEF n, m
  <2>4. m <= MaxTxQueue BY <1>1, <2>1, QueueRoom
  <2> QED BY <2>1, <2>2, <2>3, <2>4 DEF StaOk, RoomInv, Asking, m
<1>6. CASE Starts(s, t)
  <2>1. QueueInv(t) /\ m <= 2 BY <1>6, QueueShort
  <2>2. /\ t.state = "Authenticating" /\ t.bssid \in Aps /\ t.joins = s.joins + 1
        /\ t.tries = 1
    BY <1>6 DEF Starts
  <2>3. HomeInv(t) BY <1>0, <2>2 DEF HomeInv, StaType
  <2> HIDE DEF n, m
  <2>4. m <= MaxTxQueue /\ t.tries \in 1..MaxTries /\ m <= 1 + t.tries
    BY <1>1, <2>1, <2>2, QueueRoom
  <2> QED BY <2>1, <2>2, <2>3, <2>4 DEF StaOk, RoomInv, m
<1>7. CASE Requests(s, t)
  <2>1. /\ SameJoin(s, t) /\ Asking(s) /\ Asking(t) BY <1>7 DEF Requests, Asking
  <2>2. Listening(s) /\ Listening(t) BY <2>1 DEF Asking, Listening
  <2>3. s.bssid \in Aps BY <1>0, <2>2 DEF HomeInv
  <2>4. HomeInv(t) BY <1>0, <2>1, <2>2 DEF HomeInv, SameJoin
  <2>5. PICK type \in {"Auth", "Assoc"} : t.tx = Append(s.tx, Frame(s, type, NoReply))
    BY <1>7 DEF Requests
  <2> DEFINE f == Frame(s, type, NoReply)
  <2>6. f \in Frames /\ f.type = type /\ f.to = s.bssid /\ f.born = s.joins
    BY <1>0, <2>3, FrameType, SupConstants DEF Frame
  <2> HIDE DEF f
  <2>7. Placed(t, f, 1) BY <2>1, <2>2, <2>6 DEF Placed, SameJoin
  <2>8. QueueInv(t) /\ m = n + 1
    BY <2>1, <2>2, <2>5, <2>6, <2>7, QueueGrows DEF f
  <2>9. /\ t.tries \in Nat
        /\ \/ t.state = s.state /\ s.tries < MaxTries /\ t.tries = s.tries + 1
           \/ s.state = "Authenticating" /\ t.state = "Associating" /\ t.tries = 1
    BY <1>7 DEF Requests, StaType
  <2>10. s.state = "Authenticating" \/ s.state = "Associating" BY <2>1 DEF Asking
  <2> HIDE DEF n, m
  <2>11. /\ t.state = "Authenticating" => t.tries \in 1..MaxTries /\ m <= 1 + t.tries
         /\ t.state = "Associating" =>
              t.tries \in 1..MaxTries /\ m <= 1 + MaxTries + t.tries
    BY <1>1, <1>2, <2>8, <2>9, <2>10, QueueRoom
  <2>12. m <= MaxTxQueue BY <1>1, <2>1, <2>8, <2>11, QueueRoom DEF Asking
  <2> QED BY <2>4, <2>8, <2>11, <2>12 DEF StaOk, RoomInv, m
<1>8. CASE Associates(s, t)
  <2>1. /\ SameJoin(s, t) /\ t.tx = s.tx /\ Listening(s) /\ Listening(t) /\ ~ Asking(t)
        /\ t.authenticated = s.authenticated
    BY <1>8 DEF Associates, Listening, Asking
  <2>2. QueueInv(t) BY <2>1, QueueKept
  <2>3. HomeInv(t) BY <1>0, <2>1 DEF HomeInv, SameJoin
  <2>4. Len(t.tx) <= MaxTxQueue BY <1>1, <2>1
  <2> QED BY <2>1, <2>2, <2>3, <2>4 DEF StaOk, RoomInv, Asking
<1>9. CASE Pops(s, t)
  <2>1. QueueInv(t) /\ m <= n BY <1>9, QueuePopped
  <2> QED BY <1>3, <1>9, <2>1 DEF Pops
<1>10. ASSUME NEW k \in EapolKeys, HearsClear(s, k, t) \/ HearsProtected(s, k, t)
       PROVE  StaOk(t)
  <2>1. Hears(s, k, t) BY <1>10 DEF HearsClear, HearsProtected
  <2>2. /\ SameJoin(s, t) /\ t.authenticated = s.authenticated
        /\ s.state \in {"FourWay", "Connected"}
    BY <2>1 DEF Hears, Keyed
  <2>3. t.state \in {"FourWay", "Connected"}
    BY <1>10, <2>2 DEF HearsClear, HearsProtected, Promoted
  <2>4. /\ Listening(s) /\ Listening(t) /\ ~ Asking(t) /\ ~ Asking(s)
    BY <2>2, <2>3 DEF Listening, Asking
  <2>5. HomeInv(t) BY <1>0, <2>2, <2>4 DEF HomeInv, SameJoin
  <2>6. CASE t.tx = s.tx
    <3>1. QueueInv(t) BY <2>2, <2>4, <2>6, QueueKept
    <3>2. Len(t.tx) <= MaxTxQueue BY <1>1, <2>6
    <3> QED BY <2>3, <2>5, <3>1, <3>2 DEF StaOk, RoomInv
  <2>7. CASE t.tx # s.tx
    <3> DEFINE f == Frame(s, "Eapol", on_eapol(s.sup, k).out)
    <3>1. ~ Full(s) /\ t.tx = Append(s.tx, f)
      BY <1>10, <2>7 DEF HearsClear, HearsProtected
    <3>2. on_eapol(s.sup, k).out \in Replies BY <1>0, EapolFields DEF StaType, Results
    <3>3. f \in Frames /\ f.type = "Eapol" /\ f.to = s.bssid /\ f.born = s.joins
      BY <1>0, <2>4, <3>2, FrameType DEF Frame, HomeInv
    <3> HIDE DEF f
    <3>4. Placed(t, f, 1) BY <2>2, <2>4, <3>3 DEF Placed, SameJoin
    <3>5. QueueInv(t) /\ m = n + 1 BY <2>2, <2>4, <3>1, <3>3, <3>4, QueueGrows
    <3>6. ~ (n >= MaxTxQueue) BY <3>1 DEF Full
    <3> HIDE DEF n, m
    <3>7. m <= MaxTxQueue BY <1>1, <3>5, <3>6, QueueRoom
    <3> QED BY <2>3, <2>5, <3>5, <3>7 DEF StaOk, RoomInv, m
  <2> QED BY <2>6, <2>7
<1> QED BY <1>4, <1>5, <1>6, <1>7, <1>8, <1>9, <1>10 DEF Steps

------------------------------------------------------------------------------
(* The access points: what each does with the record it keeps, and what it *)
(* sends.                                                                  *)

SameGroup(p, q) == q.gtk = p.gtk /\ q.gpn = p.gpn
SameKeys(p, q) == q.key = p.key /\ q.ptk = p.ptk

\* The station is let go.
Quits(p, q) ==
    /\ SameGroup(p, q) /\ q.wait = "None" /\ q.key = NoKey /\ q.ptk = NoKey
    /\ q.anonce = 0 /\ q.replay = 0

\* p with an exchange that starts, or goes on to wait for the next answer.
Waits(p, q, wait) ==
    /\ q.wait = wait /\ q.replay = p.replay + 1
    /\ q.st = p.st /\ SameKeys(p, q) /\ q.anonce = p.anonce /\ SameGroup(p, q)

LEMMA ApConstants == NewAp \in ApType /\ NoBody \in EapolKeys
BY SupConstants DEF NewAp, ApType, NoBody, EapolKeys, Rsns

LEMMA ReleasedFields ==
    ASSUME NEW p \in ApType, NEW st \in {"Off", "None", "Auth", "Assoc"}
    PROVE  LET q == [Released(p) EXCEPT !.st = st]
           IN  q \in ApType /\ Quits(p, q) /\ q.st = st /\ q.tries = 0 /\ q.pn = 0
<1> DEFINE r == Released(p)
<1>1. p.gtk \in Nat /\ p.gpn \in Nat BY DEF ApType
<1>2. r = [NewAp EXCEPT !.gtk = p.gtk, !.gpn = p.gpn] BY DEF Released
<1>3. r \in ApType BY <1>1, <1>2, ApConstants, ZenonT(60) DEF ApType
<1>4. /\ r.gtk = p.gtk /\ r.gpn = p.gpn /\ r.wait = NewAp.wait /\ r.key = NewAp.key
      /\ r.ptk = NewAp.ptk /\ r.anonce = NewAp.anonce /\ r.replay = NewAp.replay
      /\ r.tries = NewAp.tries /\ r.pn = NewAp.pn
  BY <1>2, ApConstants, ZenonT(60) DEF ApType
<1> HIDE DEF r
<1>5. Quits(p, r) /\ r.tries = 0 /\ r.pn = 0 BY <1>4 DEF Quits, SameGroup, NewAp
<1> QED BY <1>3, <1>5 DEF ApType, Quits, SameGroup, r

LEMMA ReleasedItself ==
    ASSUME NEW p \in ApType
    PROVE  Released(p) \in ApType /\ Quits(p, Released(p))
<1> DEFINE r == Released(p)
<1>1. p.gtk \in Nat /\ p.gpn \in Nat BY DEF ApType
<1>2. r = [NewAp EXCEPT !.gtk = p.gtk, !.gpn = p.gpn] BY DEF Released
<1>3. r \in ApType BY <1>1, <1>2, ApConstants, ZenonT(60) DEF ApType
<1>4. /\ r.gtk = p.gtk /\ r.gpn = p.gpn /\ r.wait = NewAp.wait /\ r.key = NewAp.key
      /\ r.ptk = NewAp.ptk /\ r.anonce = NewAp.anonce /\ r.replay = NewAp.replay
  BY <1>2, ApConstants, ZenonT(60) DEF ApType
<1> HIDE DEF r
<1>5. Quits(p, r) BY <1>4 DEF Quits, SameGroup, NewAp
<1> QED BY <1>3, <1>5 DEF r

\* All but the packet number.
LEMMA NextPnFields ==
    ASSUME NEW p \in ApType
    PROVE  LET q == NextPn(p)
           IN  /\ q \in ApType /\ q.st = p.st /\ q.wait = p.wait /\ SameKeys(p, q)
               /\ q.anonce = p.anonce /\ q.replay = p.replay /\ q.tries = p.tries
               /\ SameGroup(p, q)
               /\ q.pn = IF p.key = NoKey THEN 0 ELSE p.pn + 1
<1> DEFINE n == IF p.key = NoKey THEN 0 ELSE p.pn + 1
<1>1. n \in Nat BY DEF ApType
<1>2. NextPn(p) = [p EXCEPT !.pn = n] BY DEF NextPn
<1> HIDE DEF n
<1>3. NextPn(p) \in ApType BY <1>1, <1>2 DEF ApType
<1> QED BY <1>2, <1>3 DEF ApType, SameKeys, SameGroup, n

LEMMA AsksFields ==
    ASSUME NEW p \in ApType, NEW wait \in {"Msg2", "Msg4", "Group2"}
    PROVE  Asks(p, wait) \in ApType /\ Waits(p, Asks(p, wait), wait)
<1> DEFINE r == [p EXCEPT !.wait = wait, !.replay = @ + 1, !.tries = 0]
           q == NextPn(r)
<1>1. p.replay + 1 \in Nat /\ 0 \in Nat BY DEF ApType
<1>2. r = [p EXCEPT !.wait = wait, !.replay = p.replay + 1, !.tries = 0] OBVIOUS
<1>3. r \in ApType BY <1>1, <1>2, ZenonT(60) DEF ApType
<1>4. /\ r.wait = wait /\ r.replay = p.replay + 1 /\ r.st = p.st /\ r.key = p.key
      /\ r.ptk = p.ptk /\ r.anonce = p.anonce /\ r.gtk = p.gtk /\ r.gpn = p.gpn
  BY <1>2, ZenonT(60) DEF ApType
<1> HIDE DEF r
<1>5. /\ q \in ApType /\ q.st = r.st /\ q.wait = r.wait /\ SameKeys(r, q)
      /\ q.anonce = r.anonce /\ q.replay = r.replay /\ SameGroup(r, q)
  BY <1>3, NextPnFields
<1> HIDE DEF q
<1>6. Asks(p, wait) = q BY DEF Asks, q, r
<1> QED BY <1>4, <1>5, <1>6 DEF Waits, SameKeys, SameGroup

\* What an AP that waits has to say.
Says(a, p, m) ==
    /\ m \in AirFrames /\ m.from = a /\ m.key = p.key /\ m.pn = p.pn
    /\ m.body.replay = p.replay
    /\ p.wait = "Msg2" => m.body.kind = "Msg1" /\ m.body.anonce = p.anonce
    /\ p.wait = "Msg4" => /\ m.body.kind = "Msg3" /\ m.body.anonce = p.anonce
                          /\ m.body.mic = p.ptk
    /\ p.wait = "Group2" => m.body.kind = "Group1" /\ m.body.mic = p.key
    /\ p.wait # "Msg2" => m.body.gtk = p.gtk /\ m.body.rsc = p.gpn
    /\ m.body.rsn = "real"

LEMMA AirType ==
    ASSUME NEW a \in Aps, NEW ok \in BOOLEAN, NEW type \in {"Auth", "Assoc", "Deauth", "Data"}
    PROVE  Air(type, a, ok) \in AirFrames
BY ApConstants, SupConstants DEF Air, AirFrames

LEMMA KeyMessageFields ==
    ASSUME NEW a \in Aps, NEW p \in ApType, p.wait # "None"
    PROVE  Says(a, p, KeyMessage(a, p))
<1> DEFINE kind == [Msg2 |-> "Msg1", Msg4 |-> "Msg3", Group2 |-> "Group1"][p.wait]
           mic == [Msg2 |-> NoKey, Msg4 |-> p.ptk, Group2 |-> p.key][p.wait]
           anonce == IF p.wait = "Group2" THEN 0 ELSE p.anonce
           gtk == IF p.wait = "Msg2" THEN 0 ELSE p.gtk
           rsc == IF p.wait = "Msg2" THEN 0 ELSE p.gpn
           body == [kind |-> kind, replay |-> p.replay, anonce |-> anonce, mic |-> mic,
                    gtk |-> gtk, rsc |-> rsc, rsn |-> "real"]
<1>1. p.wait \in {"Msg2", "Msg4", "Group2"} BY DEF ApType
<1>2. /\ p.key \in Keys /\ p.ptk \in Keys /\ p.pn \in Nat /\ p.replay \in Nat
      /\ p.anonce \in Nat /\ p.gtk \in Nat /\ p.gpn \in Nat
  BY DEF ApType
<1>3. /\ p.wait = "Msg2" => kind = "Msg1" /\ mic = NoKey
      /\ p.wait = "Msg4" => kind = "Msg3" /\ mic = p.ptk
      /\ p.wait = "Group2" => kind = "Group1" /\ mic = p.key
  OBVIOUS
<1>4. anonce \in Nat /\ gtk \in Nat /\ rsc \in Nat BY <1>2
<1>5. /\ p.wait # "Group2" => anonce = p.anonce
      /\ p.wait # "Msg2" => gtk = p.gtk /\ rsc = p.gpn
  OBVIOUS
<1>6. KeyMessage(a, p) = [Air("Data", a, TRUE) EXCEPT !.key = p.key, !.pn = p.pn, !.body = body]
  BY DEF KeyMessage
<1> HIDE DEF kind, mic, anonce, gtk, rsc
<1>7. /\ kind \in {"Msg1", "Msg3", "Group1"} /\ mic \in Keys BY <1>1, <1>2, <1>3, SupConstants
<1>8. body \in EapolKeys BY <1>2, <1>4, <1>7 DEF EapolKeys, Rsns
<1>9. /\ body.kind = kind /\ body.replay = p.replay /\ body.anonce = anonce
      /\ body.mic = mic /\ body.gtk = gtk /\ body.rsc = rsc /\ body.rsn = "real"
  OBVIOUS
<1> HIDE DEF body
<1> DEFINE m == KeyMessage(a, p)
<1> HIDE DEF m
<1>10. /\ m \in AirFrames /\ m.from = a /\ m.key = p.key /\ m.pn = p.pn /\ m.body = body
  <2>1. m = [Air("Data", a, TRUE) EXCEPT !.key = p.key, !.pn = p.pn, !.body = body]
    BY <1>6 DEF m
  <2> DEFINE x == Air("Data", a, TRUE)
  <2>2. x \in AirFrames /\ x.from = a BY AirType DEF Air
  <2>3. m = [x EXCEPT !.key = p.key, !.pn = p.pn, !.body = body] BY <2>1
  <2> HIDE DEF x
  <2>4. m \in AirFrames BY <1>2, <1>8, <2>2, <2>3, ZenonT(60) DEF AirFrames
  <2>5. m.from = x.from /\ m.key = p.key /\ m.pn = p.pn /\ m.body = body
    BY <2>2, <2>3, ZenonT(60) DEF AirFrames
  <2> QED BY <2>2, <2>4, <2>5
<1>11. Says(a, p, m) BY <1>1, <1>3, <1>5, <1>9, <1>10 DEF Says
<1> QED BY <1>11 DEF m

\* A management frame; a data frame, for the station or for the group.
Plain(a, m) == m \in AirFrames /\ m.from = a /\ m.key = NoKey /\ m.body = NoBody
Carries(a, p, m) ==
    /\ m \in AirFrames /\ m.from = a /\ m.body = NoBody /\ p.key # NoKey
    /\ m.key = p.key \/ (m.key = GroupKey(p.gtk) /\ m.pn = p.gpn)

\* What AP a may send when it has become p.
Airs(a, p, m) == Plain(a, m) \/ (p.wait # "None" /\ Says(a, p, m)) \/ Carries(a, p, m)

\* A station is associated: the handshake begins, or there is none.
Restarts(a, p, q, fr) ==
    /\ a \in Secured /\ SameGroup(p, q) /\ q.wait = "Msg2"
    /\ q.key = NoKey /\ q.ptk = NoKey /\ q.anonce = fr
Opens(a, p, q) ==
    /\ a \notin Secured /\ q.wait = p.wait /\ SameKeys(p, q) /\ q.anonce = p.anonce
    /\ q.replay = p.replay /\ SameGroup(p, q)

\* A message 2 names the PTK; a message 4 makes it the key; the group's answer.
Derived(p, q, b) ==
    /\ b.kind = "Msg2" /\ p.wait = "Msg2" /\ b.mic.anonce = p.anonce
    /\ q.wait = "Msg4" /\ q.ptk = b.mic /\ q.key = p.key /\ q.anonce = p.anonce
    /\ q.replay = p.replay + 1 /\ SameGroup(p, q)
Installed(p, q, b) ==
    /\ b.kind = "Msg4" /\ p.wait = "Msg4" /\ b.mic = p.ptk
    /\ q.wait = "None" /\ q.ptk = p.ptk /\ q.key = p.ptk /\ q.anonce = p.anonce
    /\ q.replay = p.replay /\ SameGroup(p, q)
GroupDone(p, q, b) ==
    /\ b.kind = "Group2" /\ p.wait = "Group2"
    /\ q.wait = "None" /\ SameKeys(p, q) /\ q.anonce = p.anonce
    /\ q.replay = p.replay /\ SameGroup(p, q)

\* AP a, which was p, has heard f and is q; the next fresh number was fr.
HeardBy(a, p, f, q, fr, gr) ==
    \/ gr = fr /\ f.type \in {"Auth", "Assoc", "Deauth"} /\ Quits(p, q)
    \/ gr = fr + 1 /\ f.type = "Assoc" /\ Restarts(a, p, q, fr)
    \/ gr = fr /\ f.type = "Assoc" /\ Opens(a, p, q)
    \/ gr = fr /\ Derived(p, q, f.body)
    \/ gr = fr /\ Installed(p, q, f.body)
    \/ gr = fr /\ GroupDone(p, q, f.body)

\* An AP asks again; rekeys the group or the pair; sends data.
Again(p, q) ==
    /\ p.wait # "None" /\ q.wait = p.wait /\ SameKeys(p, q) /\ q.anonce = p.anonce
    /\ q.replay \in {p.replay, p.replay + 1} /\ SameGroup(p, q)
RekeysGroup(p, q, fr) ==
    /\ p.key # NoKey /\ p.wait = "None" /\ q.wait = "Group2"
    /\ SameKeys(p, q) /\ q.anonce = p.anonce /\ q.replay = p.replay + 1
    /\ q.gtk = fr /\ q.gpn = 0
RekeysPair(p, q, fr) ==
    /\ p.key # NoKey /\ p.wait = "None" /\ q.wait = "Msg2"
    /\ SameKeys(p, q) /\ q.anonce = fr /\ q.replay = p.replay + 1 /\ SameGroup(p, q)
SendsData(p, q) ==
    /\ p.key # NoKey /\ q.wait = p.wait /\ SameKeys(p, q) /\ q.anonce = p.anonce
    /\ q.replay = p.replay /\ q.gtk = p.gtk /\ q.gpn \in {p.gpn, p.gpn + 1}

Alone(p, q, fr, gr) ==
    \/ gr = fr /\ (Quits(p, q) \/ Again(p, q) \/ SendsData(p, q))
    \/ gr = fr + 1 /\ (RekeysGroup(p, q, fr) \/ RekeysPair(p, q, fr))

\* AP a is q from now on, and what it has sent is under way with sky.
ApMoves(a, q, sky) ==
    /\ q \in ApType /\ ap' = [ap EXCEPT ![a] = q]
    /\ \E ms \in SUBSET AirFrames :
         air' = Aired(sky, ms) /\ \A m \in ms : Airs(a, q, m)

LEMMA BecomesMoves ==
    ASSUME NEW a, NEW q \in ApType, NEW sky, NEW ms \in SUBSET AirFrames,
           ApBecomes(a, q, sky, ms), \A m \in ms : Airs(a, q, m)
    PROVE  ApMoves(a, q, sky)
BY DEF ApMoves, ApBecomes

LEMMA PlainAir ==
    ASSUME NEW a \in Aps, NEW ok \in BOOLEAN, NEW type \in {"Auth", "Assoc", "Deauth"}
    PROVE  Plain(a, Air(type, a, ok))
<1>1. Air(type, a, ok) \in AirFrames BY AirType
<1> QED BY <1>1 DEF Plain, Air

LEMMA ApHearsFields ==
    ASSUME ap \in [Aps -> ApType], fresh \in Nat, NEW f \in Frames, NEW sky,
           ApHears(f, sky)
    PROVE  \E q : ApMoves(f.to, q, sky) /\ HeardBy(f.to, ap[f.to], f, q, fresh, fresh')
<1> DEFINE a == f.to
           p == ap[a]
           b == f.body
<1>1. a \in Aps /\ p \in ApType /\ b \in Replies BY DEF Frames
<1>2. b.mic \in Keys BY <1>1 DEF Replies
<1>3. \/ /\ f.type = "Auth"
         /\ \E ok \in BOOLEAN :
              ApBecomes(a, [Released(p) EXCEPT !.st = IF ok THEN "Auth" ELSE "None"],
                        sky, {Air("Auth", a, ok)})
         /\ fresh' = fresh
      \/ /\ f.type = "Assoc" /\ a \in Secured
         /\ LET q == Asks([Released(p) EXCEPT !.st = "Assoc", !.anonce = fresh], "Msg2")
            IN  ApBecomes(a, q, sky, {Air("Assoc", a, TRUE), KeyMessage(a, q)})
         /\ fresh' = fresh + 1
      \/ /\ f.type = "Assoc" /\ a \notin Secured
         /\ ApBecomes(a, [p EXCEPT !.st = "Assoc"], sky, {Air("Assoc", a, TRUE)})
         /\ fresh' = fresh
      \/ /\ f.type = "Assoc"
         /\ ApBecomes(a, Released(p), sky, {Air("Assoc", a, FALSE)}) /\ fresh' = fresh
      \/ /\ f.type = "Deauth" /\ ApBecomes(a, Released(p), sky, {}) /\ fresh' = fresh
      \/ /\ b.kind = "Msg2" /\ p.wait = "Msg2" /\ b.mic.anonce = p.anonce
         /\ LET q == Asks([p EXCEPT !.ptk = b.mic], "Msg4")
            IN  ApBecomes(a, q, sky, {KeyMessage(a, q)})
         /\ fresh' = fresh
      \/ /\ b.kind = "Msg4" /\ p.wait = "Msg4" /\ b.mic = p.ptk
         /\ ApBecomes(a, [p EXCEPT !.key = p.ptk, !.wait = "None", !.pn = 0], sky, {})
         /\ fresh' = fresh
      \/ /\ b.kind = "Group2" /\ p.wait = "Group2"
         /\ ApBecomes(a, [p EXCEPT !.wait = "None"], sky, {}) /\ fresh' = fresh
  BY ZenonT(60) DEF ApHears
<1> HIDE DEF a, p, b
<1>4. ASSUME NEW ok \in BOOLEAN, f.type = "Auth", fresh' = fresh,
             ApBecomes(a, [Released(p) EXCEPT !.st = IF ok THEN "Auth" ELSE "None"],
                       sky, {Air("Auth", a, ok)})
      PROVE  \E q : ApMoves(a, q, sky) /\ HeardBy(a, p, f, q, fresh, fresh')
  <2> DEFINE st == IF ok THEN "Auth" ELSE "None"
             q == [Released(p) EXCEPT !.st = st]
             m == Air("Auth", a, ok)
  <2>1. st \in {"Off", "None", "Auth", "Assoc"} OBVIOUS
  <2>2. ApBecomes(a, q, sky, {m}) BY <1>4
  <2> HIDE DEF st
  <2>3. q \in ApType /\ Quits(p, q) BY <1>1, <2>1, ReleasedFields
  <2>4. Plain(a, m) BY <1>1, PlainAir
  <2> HIDE DEF q, m
  <2>5. \A x \in {m} : x \in AirFrames /\ Airs(a, q, x) BY <2>4 DEF Airs, Plain
  <2>6. ApMoves(a, q, sky) BY <2>2, <2>3, <2>5, BecomesMoves
  <2>7. HeardBy(a, p, f, q, fresh, fresh') BY <1>4, <2>3 DEF HeardBy
  <2> QED BY <2>6, <2>7
<1>5. ASSUME NEW q, f.type = "Assoc", a \in Secured, fresh' = fresh + 1,
             q = Asks([Released(p) EXCEPT !.st = "Assoc", !.anonce = fresh], "Msg2"),
             ApBecomes(a, q, sky, {Air("Assoc", a, TRUE), KeyMessage(a, q)})
      PROVE  ApMoves(a, q, sky) /\ HeardBy(a, p, f, q, fresh, fresh')
  <2> DEFINE r == Released(p)
             s == [r EXCEPT !.st = "Assoc", !.anonce = fresh]
             m == Air("Assoc", a, TRUE)
             n == KeyMessage(a, q)
  <2>1. r \in ApType /\ Quits(p, r) BY <1>1, ReleasedItself
  <2>2. q = Asks(s, "Msg2") BY <1>5
  <2> HIDE DEF r
  <2>3. s \in ApType BY <2>1, ZenonT(60) DEF ApType
  <2>4. /\ s.anonce = fresh /\ s.gtk = r.gtk /\ s.gpn = r.gpn /\ s.key = r.key /\ s.ptk = r.ptk
    BY <2>1, ZenonT(60) DEF ApType
  <2> HIDE DEF s
  <2>5. q \in ApType /\ Waits(s, q, "Msg2") BY <2>2, <2>3, AsksFields
  <2>6. Restarts(a, p, q, fresh)
    BY <1>5, <2>1, <2>4, <2>5 DEF Restarts, Waits, Quits, SameGroup, SameKeys
  <2>7. Plain(a, m) BY <1>1, PlainAir
  <2>8. q.wait = "Msg2" BY <2>5 DEF Waits
  <2>9. Says(a, q, n) BY <1>1, <2>5, <2>8, KeyMessageFields
  <2>10. ApBecomes(a, q, sky, {m, n}) BY <1>5
  <2> HIDE DEF m, n
  <2>11. \A x \in {m, n} : x \in AirFrames /\ Airs(a, q, x)
    BY <2>7, <2>8, <2>9 DEF Airs, Plain, Says
  <2>12. ApMoves(a, q, sky) BY <2>5, <2>10, <2>11, BecomesMoves
  <2> QED BY <1>5, <2>6, <2>12 DEF HeardBy
<1>6. ASSUME NEW q, f.type = "Assoc", a \notin Secured, fresh' = fresh,
             q = [p EXCEPT !.st = "Assoc"],
             ApBecomes(a, q, sky, {Air("Assoc", a, TRUE)})
      PROVE  ApMoves(a, q, sky) /\ HeardBy(a, p, f, q, fresh, fresh')
  <2> DEFINE m == Air("Assoc", a, TRUE)
  <2>1. q \in ApType BY <1>1, <1>6 DEF ApType
  <2>2. Opens(a, p, q) BY <1>1, <1>6 DEF ApType, Opens, SameKeys, SameGroup
  <2>3. Plain(a, m) BY <1>1, PlainAir
  <2>4. ApBecomes(a, q, sky, {m}) BY <1>6
  <2> HIDE DEF m
  <2>5. \A x \in {m} : x \in AirFrames /\ Airs(a, q, x) BY <2>3 DEF Airs, Plain
  <2>6. ApMoves(a, q, sky) BY <2>1, <2>4, <2>5, BecomesMoves
  <2> QED BY <1>6, <2>2, <2>6 DEF HeardBy
<1>7. ASSUME NEW ms \in {{}, {Air("Assoc", a, FALSE)}}, f.type \in {"Assoc", "Deauth"},
             fresh' = fresh, ApBecomes(a, Released(p), sky, ms)
      PROVE  \E q : ApMoves(a, q, sky) /\ HeardBy(a, p, f, q, fresh, fresh')
  <2> DEFINE q == Released(p)
             m == Air("Assoc", a, FALSE)
  <2>1. q \in ApType /\ Quits(p, q) BY <1>1, ReleasedItself
  <2>2. Plain(a, m) BY <1>1, PlainAir
  <2>3. ms \in {{}, {m}} /\ ApBecomes(a, q, sky, ms) BY <1>7
  <2> HIDE DEF q, m
  <2>4. \A x \in ms : x \in AirFrames /\ Airs(a, q, x) BY <2>2, <2>3 DEF Airs, Plain
  <2>5. ApMoves(a, q, sky) BY <2>1, <2>3, <2>4, BecomesMoves
  <2> QED BY <1>7, <2>1, <2>5 DEF HeardBy
<1>8. ASSUME NEW q, b.kind = "Msg2", p.wait = "Msg2", b.mic.anonce = p.anonce, fresh' = fresh,
             q = Asks([p EXCEPT !.ptk = b.mic], "Msg4"),
             ApBecomes(a, q, sky, {KeyMessage(a, q)})
      PROVE  ApMoves(a, q, sky) /\ HeardBy(a, p, f, q, fresh, fresh')
  <2> DEFINE s == [p EXCEPT !.ptk = b.mic]
             n == KeyMessage(a, q)
  <2>1. /\ s \in ApType /\ s.ptk = b.mic /\ s.key = p.key /\ s.anonce = p.anonce
        /\ s.replay = p.replay /\ SameGroup(p, s)
    BY <1>1, <1>2 DEF ApType, SameGroup
  <2>2. q = Asks(s, "Msg4") BY <1>8
  <2> HIDE DEF s
  <2>3. q \in ApType /\ Waits(s, q, "Msg4") BY <2>1, <2>2, AsksFields
  <2>4. Derived(p, q, b)
    BY <1>8, <2>1, <2>3 DEF Derived, Waits, SameKeys, SameGroup
  <2>5. q.wait = "Msg4" BY <2>3 DEF Waits
  <2>6. Says(a, q, n) BY <1>1, <2>3, <2>5, KeyMessageFields
  <2>7. ApBecomes(a, q, sky, {n}) BY <1>8
  <2> HIDE DEF n
  <2>8. \A x \in {n} : x \in AirFrames /\ Airs(a, q, x) BY <2>5, <2>6 DEF Airs, Says
  <2>9. ApMoves(a, q, sky) BY <2>3, <2>7, <2>8, BecomesMoves
  <2> QED BY <1>8, <2>4, <2>9 DEF HeardBy, b
<1>9. ASSUME NEW q, b.kind = "Msg4", p.wait = "Msg4", b.mic = p.ptk, fresh' = fresh,
             q = [p EXCEPT !.key = p.ptk, !.wait = "None", !.pn = 0],
             ApBecomes(a, q, sky, {})
      PROVE  ApMoves(a, q, sky) /\ HeardBy(a, p, f, q, fresh, fresh')
  <2>1. p.ptk \in Keys /\ 0 \in Nat BY <1>1 DEF ApType
  <2>2. q \in ApType BY <1>1, <1>9, <2>1, ZenonT(60) DEF ApType
  <2>3. /\ q.key = p.ptk /\ q.wait = "None" /\ q.ptk = p.ptk /\ q.anonce = p.anonce
        /\ q.replay = p.replay /\ q.gtk = p.gtk /\ q.gpn = p.gpn
    BY <1>1, <1>9, ZenonT(60) DEF ApType
  <2>4. Installed(p, q, b) BY <1>9, <2>3 DEF Installed, SameGroup
  <2>5. ApMoves(a, q, sky) BY <1>9, <2>2, BecomesMoves
  <2> QED BY <1>9, <2>4, <2>5 DEF HeardBy, b
<1>10. ASSUME NEW q, b.kind = "Group2", p.wait = "Group2", fresh' = fresh,
              q = [p EXCEPT !.wait = "None"], ApBecomes(a, q, sky, {})
       PROVE  ApMoves(a, q, sky) /\ HeardBy(a, p, f, q, fresh, fresh')
  <2>1. q \in ApType BY <1>1, <1>10 DEF ApType
  <2>2. GroupDone(p, q, b) BY <1>1, <1>10 DEF ApType, GroupDone, SameKeys, SameGroup
  <2>3. ApMoves(a, q, sky) BY <1>10, <2>1, BecomesMoves
  <2> QED BY <1>10, <2>2, <2>3 DEF HeardBy, b
<1>11. \E q : ApMoves(a, q, sky) /\ HeardBy(a, p, f, q, fresh, fresh')
  BY <1>3, <1>4, <1>5, <1>6, <1>7, <1>8, <1>9, <1>10, ZenonT(60)
<1> QED BY <1>11 DEF a, p

\* What an AP does by itself.
LEMMA ApAloneFields ==
    ASSUME ap \in [Aps -> ApType], fresh \in Nat, NEW a \in Aps,
           ApRetransmit(a) \/ ApDeauth(a) \/ ApRekey(a) \/ ApData(a) \/ ApOff(a)
    PROVE  \E q : ApMoves(a, q, air) /\ Alone(ap[a], q, fresh, fresh')
<1> DEFINE p == ap[a]
<1>1. p \in ApType OBVIOUS
<1>2. CASE ApRetransmit(a)
  <2> DEFINE n == NextPn(p)
             t == [n EXCEPT !.tries = @ + 1]
  <2>1. p.wait # "None" /\ fresh' = fresh BY <1>2 DEF ApRetransmit
  <2>2. /\ n \in ApType /\ n.wait = p.wait /\ SameKeys(p, n) /\ n.anonce = p.anonce
        /\ n.replay = p.replay /\ SameGroup(p, n)
    BY <1>1, NextPnFields
  <2>3. PICK r \in {t.replay, t.replay + 1} :
          LET q == [t EXCEPT !.replay = r] IN ApBecomes(a, q, air, {KeyMessage(a, q)})
    BY <1>2 DEF ApRetransmit
  <2> HIDE DEF p, n
  <2>4. n.tries + 1 \in Nat BY <2>2 DEF ApType
  <2>5. /\ t \in ApType /\ t.wait = n.wait /\ SameKeys(n, t) /\ t.anonce = n.anonce
        /\ t.replay = n.replay /\ SameGroup(n, t)
    BY <2>2, <2>4 DEF ApType, SameKeys, SameGroup
  <2> HIDE DEF t
  <2> DEFINE q == [t EXCEPT !.replay = r]
             m == KeyMessage(a, q)
  <2>6. ApBecomes(a, q, air, {m}) BY <2>3
  <2>7. r \in Nat /\ r \in {p.replay, p.replay + 1} BY <2>2, <2>3, <2>5 DEF ApType
  <2>8. /\ q \in ApType /\ q.wait = t.wait /\ SameKeys(t, q) /\ q.anonce = t.anonce
        /\ q.replay = r /\ SameGroup(t, q)
    BY <2>5, <2>7 DEF ApType, SameKeys, SameGroup
  <2> HIDE DEF q
  <2>9. Again(p, q)
    BY <2>1, <2>2, <2>5, <2>7, <2>8 DEF Again, SameKeys, SameGroup
  <2>10. q.wait # "None" BY <2>1, <2>2, <2>5, <2>8
  <2>11. Says(a, q, m) BY <2>8, <2>10, KeyMessageFields
  <2> HIDE DEF m
  <2>12. \A x \in {m} : x \in AirFrames /\ Airs(a, q, x) BY <2>10, <2>11 DEF Airs, Says
  <2>13. ApMoves(a, q, air) BY <2>6, <2>8, <2>12, BecomesMoves
  <2> QED BY <2>1, <2>9, <2>13 DEF Alone, p
<1>3. CASE ApDeauth(a)
  <2> DEFINE q == Released(p)
             m == Air("Deauth", a, TRUE)
  <2>1. q \in ApType /\ Quits(p, q) BY <1>1, ReleasedItself
  <2>2. Plain(a, m) BY PlainAir
  <2>3. ApBecomes(a, q, air, {m}) /\ fresh' = fresh BY <1>3 DEF ApDeauth
  <2> HIDE DEF q, m
  <2>4. \A x \in {m} : x \in AirFrames /\ Airs(a, q, x) BY <2>2 DEF Airs, Plain
  <2>5. ApMoves(a, q, air) BY <2>1, <2>3, <2>4, BecomesMoves
  <2> QED BY <2>1, <2>3, <2>5 DEF Alone
<1>4. CASE ApRekey(a)
  <2>1. p.key # NoKey /\ p.wait = "None" /\ fresh' = fresh + 1 BY <1>4 DEF ApRekey
  <2>2. PICK q \in {Asks([p EXCEPT !.gtk = fresh, !.gpn = 0], "Group2"),
                    Asks([p EXCEPT !.anonce = fresh], "Msg2")} :
          ApBecomes(a, q, air, {KeyMessage(a, q)})
    BY <1>4 DEF ApRekey
  <2> HIDE DEF p
  <2>3. ASSUME q = Asks([p EXCEPT !.gtk = fresh, !.gpn = 0], "Group2")
        PROVE  q \in ApType /\ RekeysGroup(p, q, fresh)
    <3> DEFINE s == [p EXCEPT !.gtk = fresh, !.gpn = 0]
    <3>1. 0 \in Nat OBVIOUS
    <3>2. s \in ApType BY <1>1, <3>1, ZenonT(60) DEF ApType
    <3>3. /\ s.gtk = fresh /\ s.gpn = 0 /\ s.key = p.key /\ s.ptk = p.ptk
          /\ s.anonce = p.anonce /\ s.replay = p.replay
      BY <1>1, ZenonT(60) DEF ApType
    <3> HIDE DEF s
    <3>4. q \in ApType /\ Waits(s, q, "Group2") BY <2>3, <3>2, AsksFields DEF s
    <3>5. RekeysGroup(p, q, fresh)
      BY <2>1, <3>3, <3>4 DEF RekeysGroup, Waits, SameKeys, SameGroup
    <3> QED BY <3>4, <3>5
  <2>4. ASSUME q = Asks([p EXCEPT !.anonce = fresh], "Msg2")
        PROVE  q \in ApType /\ RekeysPair(p, q, fresh)
    <3> DEFINE s == [p EXCEPT !.anonce = fresh]
    <3>1. /\ s \in ApType /\ s.anonce = fresh /\ SameKeys(p, s) /\ SameGroup(p, s)
          /\ s.replay = p.replay
      BY <1>1 DEF ApType, SameKeys, SameGroup
    <3> HIDE DEF s
    <3>2. q \in ApType /\ Waits(s, q, "Msg2") BY <2>4, <3>1, AsksFields DEF s
    <3>3. RekeysPair(p, q, fresh)
      BY <2>1, <3>1, <3>2 DEF RekeysPair, Waits, SameKeys, SameGroup
    <3> QED BY <3>2, <3>3
  <2>5. /\ q \in ApType /\ q.wait \in {"Msg2", "Group2"}
        /\ RekeysGroup(p, q, fresh) \/ RekeysPair(p, q, fresh)
    BY <2>3, <2>4, ZenonT(60) DEF RekeysGroup, RekeysPair
  <2> DEFINE m == KeyMessage(a, q)
  <2>6. Says(a, q, m) BY <2>5, KeyMessageFields
  <2>7. ApBecomes(a, q, air, {m}) BY <2>2
  <2> HIDE DEF m
  <2>8. \A x \in {m} : x \in AirFrames /\ Airs(a, q, x) BY <2>5, <2>6 DEF Airs, Says
  <2>9. ApMoves(a, q, air) BY <2>5, <2>7, <2>8, BecomesMoves
  <2> QED BY <2>1, <2>5, <2>9 DEF Alone, p
<1>5. CASE ApData(a)
  <2>1. p.key # NoKey /\ fresh' = fresh BY <1>5 DEF ApData
  <2> DEFINE x == Air("Data", a, TRUE)
  <2>2. x \in AirFrames /\ x.from = a /\ x.body = NoBody BY AirType DEF Air
  <2>3. ASSUME NEW q \in ApType, SendsData(p, q), NEW key \in Keys, NEW pn \in Nat,
               key = q.key \/ (key = GroupKey(q.gtk) /\ pn = q.gpn),
               ApBecomes(a, q, air, {[x EXCEPT !.key = key, !.pn = pn]})
        PROVE  ApMoves(a, q, air) /\ Alone(p, q, fresh, fresh')
    <3> HIDE DEF x
    <3> DEFINE m == [x EXCEPT !.key = key, !.pn = pn]
    <3>1. m \in AirFrames BY <2>2, ZenonT(60) DEF AirFrames
    <3>2. m.from = x.from /\ m.body = x.body /\ m.key = key /\ m.pn = pn
      BY <2>2, ZenonT(60) DEF AirFrames
    <3>3. ApBecomes(a, q, air, {m}) BY <2>3
    <3> HIDE DEF m
    <3>4. q.key # NoKey BY <2>3 DEF SendsData, SameKeys
    <3>5. Carries(a, q, m) BY <2>2, <2>3, <3>1, <3>2, <3>4 DEF Carries
    <3>6. \A y \in {m} : y \in AirFrames /\ Airs(a, q, y) BY <3>1, <3>5 DEF Airs
    <3>7. ApMoves(a, q, air) BY <3>3, <3>6, BecomesMoves
    <3> QED BY <2>1, <2>3, <3>7 DEF Alone
  <2>4. CASE /\ p.pn < MaxPn
             /\ LET q == NextPn(p)
                IN  ApBecomes(a, q, air, {[x EXCEPT !.key = q.key, !.pn = q.pn]})
    <3> DEFINE q == NextPn(p)
    <3>1. /\ q \in ApType /\ q.wait = p.wait /\ SameKeys(p, q) /\ q.anonce = p.anonce
          /\ q.replay = p.replay /\ SameGroup(p, q)
      BY <1>1, NextPnFields
    <3>2. ApBecomes(a, q, air, {[x EXCEPT !.key = q.key, !.pn = q.pn]}) BY <2>4
    <3> HIDE DEF q, p, x
    <3>3. SendsData(p, q) BY <2>1, <3>1 DEF SendsData, SameKeys, SameGroup
    <3>4. q.key \in Keys /\ q.pn \in Nat BY <3>1 DEF ApType
    <3>5. ApMoves(a, q, air) /\ Alone(p, q, fresh, fresh') BY <2>3, <3>1, <3>2, <3>3, <3>4
    <3> QED BY <3>5 DEF p
  <2>5. CASE /\ p.gpn < MaxPn
             /\ LET q == [p EXCEPT !.gpn = @ + 1]
                IN  ApBecomes(a, q, air, {[x EXCEPT !.key = GroupKey(q.gtk), !.pn = q.gpn]})
    <3> DEFINE q == [p EXCEPT !.gpn = @ + 1]
    <3>1. ApBecomes(a, q, air, {[x EXCEPT !.key = GroupKey(q.gtk), !.pn = q.gpn]}) BY <2>5
    <3> HIDE DEF p, x
    <3>2. p.gpn + 1 \in Nat BY <1>1 DEF ApType
    <3>3. /\ q \in ApType /\ q.wait = p.wait /\ SameKeys(p, q) /\ q.anonce = p.anonce
          /\ q.replay = p.replay /\ q.gtk = p.gtk /\ q.gpn = p.gpn + 1
      BY <1>1, <3>2 DEF ApType, SameKeys
    <3> HIDE DEF q
    <3>4. SendsData(p, q) BY <2>1, <3>3 DEF SendsData
    <3>5. GroupKey(q.gtk) \in Keys /\ q.gpn \in Nat BY <3>3 DEF ApType, GroupKey, Keys
    <3>6. ApMoves(a, q, air) /\ Alone(p, q, fresh, fresh') BY <2>3, <3>1, <3>3, <3>4, <3>5
    <3> QED BY <3>6 DEF p
  <2> QED BY <1>5, <2>4, <2>5, Zenon DEF ApData
<1>6. CASE ApOff(a)
  <2> DEFINE q == [Released(p) EXCEPT !.st = "Off"]
  <2>1. q \in ApType /\ Quits(p, q) BY <1>1, ReleasedFields
  <2>2. ApBecomes(a, q, air, {}) /\ fresh' = fresh BY <1>6 DEF ApOff
  <2> HIDE DEF q
  <2>3. ApMoves(a, q, air) BY <2>1, <2>2, BecomesMoves
  <2> QED BY <2>1, <2>2, <2>3 DEF Alone
<1> QED BY <1>2, <1>3, <1>4, <1>5, <1>6

------------------------------------------------------------------------------
(* The actions: types, and what they do to the station.                    *)

\* The station with the types of the whole, the part of the invariant that
\* rests on nothing else.
TypeInv == StaOk(sta) /\ TypeOK

WinType == [pair : Windows, group : Windows]

\* A step in which the supplicant hears nothing.
Calm(s, t) == Rests(s, t) \/ Ends(s, t) \/ Starts(s, t) \/ Requests(s, t) \/ Associates(s, t)

LEMMA RekeyedType ==
    ASSUME NEW w \in WinType, NEW old \in SupType, NEW new \in SupType
    PROVE  /\ Rekeyed(w, old, new) \in WinType
           /\ SameGens(old, new) => Rekeyed(w, old, new) = w
<1>1. new.gtk_rsc \in Nat BY DEF SupType
<1>2. reset \in Windows /\ seed(new.gtk_rsc) \in Windows BY <1>1, SeedType
<1> QED BY <1>2 DEF Rekeyed, WinType, SameGens

LEMMA CalmGens ==
    ASSUME NEW s \in StaType, NEW t, Calm(s, t)
    PROVE  SameGens(s.sup, t.sup)
<1>1. SameGens(s.sup, forget(s.sup)) BY ForgetFields DEF StaType
<1>2. SameGens(s.sup, start(s.sup, s.joins, s.rsn)) BY StartFields DEF StaType
<1>3. SameGens(s.sup, s.sup) BY DEF SameGens
<1> QED BY <1>1, <1>2, <1>3 DEF Calm, Rests, Ends, Starts, Requests, Associates

\* What the caller and the clock do, and a beacon.
LEMMA CalmActions ==
    ASSUME TypeInv,
           \/ Configure \/ Leave \/ LinkLost \/ Clock
           \/ \E e \in Entries : Join(e)
           \/ \E a \in Aps : Beacon(a)
    PROVE  /\ sta' \in StaType /\ Calm(sta, sta') /\ win' = win
           /\ UNCHANGED <<ap, air, fresh, got, twice, left>>
<1>1. /\ sta \in StaType /\ StaOk(sta) /\ win \in WinType
      /\ Listening(sta) \/ sta.authenticated => sta.bssid \in Aps
  BY DEF TypeInv, TypeOK, WinType, StaOk, HomeInv
<1>2. ASSUME NEW t \in StaType, Calm(sta, t), StationBecomes(t),
             UNCHANGED <<ap, air, fresh, got, twice, left>>
      PROVE  /\ sta' \in StaType /\ Calm(sta, sta') /\ win' = win
             /\ UNCHANGED <<ap, air, fresh, got, twice, left>>
  <2>1. sta' = t /\ win' = Rekeyed(win, sta.sup, t.sup) BY <1>2 DEF StationBecomes
  <2>2. SameGens(sta.sup, t.sup) BY <1>1, <1>2, CalmGens
  <2>3. sta.sup \in SupType /\ t.sup \in SupType BY <1>1 DEF StaType
  <2>4. win' = win BY <1>1, <2>1, <2>2, <2>3, RekeyedType
  <2> QED BY <1>2, <2>1, <2>4
<1>3. CASE Configure
  <2>1. PICK t \in {configure(sta, TRUE), configure(sta, FALSE), configure_open(sta)} :
          StationBecomes(t)
    BY <1>3 DEF Configure
  <2>2. t \in StaType /\ Ends(sta, t) BY <1>1, <2>1, ConfigureFields
  <2> QED BY <1>2, <1>3, <2>1, <2>2 DEF Configure, Calm
<1>4. CASE Leave
  <2>1. leave(sta) \in StaType /\ Ends(sta, leave(sta)) BY <1>1, LeaveFields
  <2> QED BY <1>2, <1>4, <2>1 DEF Leave, Calm
<1>5. CASE LinkLost
  <2>1. /\ link_lost(sta) \in StaType
        /\ Ends(sta, link_lost(sta)) \/ Rests(sta, link_lost(sta))
    BY <1>1, LinkLostFields
  <2> QED BY <1>2, <1>5, <2>1 DEF LinkLost, Calm
<1>6. CASE Tick
  <2>1. Roomy(sta) BY <1>1, RoomyStation
  <2>2. /\ tick(sta) \in StaType
        /\ Rests(sta, tick(sta)) \/ Ends(sta, tick(sta)) \/ Requests(sta, tick(sta))
    BY <1>1, <2>1, TickFields
  <2> QED BY <1>2, <1>6, <2>2 DEF Tick, Calm
<1>7. CASE Elapse
  <2>1. elapse(sta) \in StaType /\ Rests(sta, elapse(sta)) BY <1>1, ElapseFields
  <2> QED BY <1>2, <1>7, <2>1 DEF Elapse, Calm
<1>8. ASSUME NEW e \in Entries, Join(e)
      PROVE  /\ sta' \in StaType /\ Calm(sta, sta') /\ win' = win
             /\ UNCHANGED <<ap, air, fresh, got, twice, left>>
  <2>1. join(sta, e) \in StaType /\ (Ends(sta, join(sta, e)) \/ Starts(sta, join(sta, e)))
    BY <1>1, JoinFields
  <2> QED BY <1>2, <1>8, <2>1 DEF Join, Calm
<1>9. ASSUME NEW a \in Aps, Beacon(a)
      PROVE  /\ sta' \in StaType /\ Calm(sta, sta') /\ win' = win
             /\ UNCHANGED <<ap, air, fresh, got, twice, left>>
  <2>1. heard(sta) \in StaType /\ Rests(sta, heard(sta)) BY <1>1, HeardFields
  <2> QED BY <1>2, <1>9, <2>1 DEF Beacon, Calm
<1> QED BY <1>3, <1>4, <1>5, <1>6, <1>7, <1>8, <1>9 DEF Clock

LEMMA LeftFields ==
    ASSUME left \in [rekeys : Nat, strays : Nat, repeats : Nat]
    PROVE  /\ left.rekeys > 0 =>
                [left EXCEPT !.rekeys = @ - 1] \in [rekeys : Nat, strays : Nat, repeats : Nat]
           /\ left.strays > 0 =>
                [left EXCEPT !.strays = @ - 1] \in [rekeys : Nat, strays : Nat, repeats : Nat]
           /\ left.repeats > 0 =>
                [left EXCEPT !.repeats = @ - 1] \in [rekeys : Nat, strays : Nat, repeats : Nat]
OBVIOUS

\* A protected frame that is not read only shows that the AP is there.
LEMMA UnreadFields ==
    ASSUME TypeInv, NEW m \in air, ReceiveUnread(m)
    PROVE  /\ sta' \in StaType /\ Calm(sta, sta') /\ win' = win /\ air' \subseteq air
           /\ left' \in [rekeys : Nat, strays : Nat, repeats : Nat]
           /\ UNCHANGED <<ap, fresh, got, twice>>
<1>1. /\ sta \in StaType /\ win \in WinType
      /\ left \in [rekeys : Nat, strays : Nat, repeats : Nat]
  BY DEF TypeInv, TypeOK, WinType
<1>2. heard(sta) \in StaType /\ Rests(sta, heard(sta)) BY <1>1, HeardFields
<1>3. sta' = heard(sta) /\ win' = Rekeyed(win, sta.sup, heard(sta).sup)
  BY DEF ReceiveUnread, StationBecomes
<1>4. sta' \in StaType /\ Calm(sta, sta') BY <1>2, <1>3 DEF Calm
<1>5. win' = win
  <2>1. SameGens(sta.sup, sta'.sup) BY <1>1, <1>4, CalmGens
  <2>2. sta.sup \in SupType /\ sta'.sup \in SupType BY <1>1, <1>4 DEF StaType
  <2> QED BY <1>1, <1>3, <2>1, <2>2, RekeyedType
<1>6. air' \subseteq air BY DEF ReceiveUnread, Taken
<1>7. left' \in [rekeys : Nat, strays : Nat, repeats : Nat]
  BY <1>1, LeftFields DEF ReceiveUnread, Delivered
<1>8. UNCHANGED <<ap, fresh, got, twice>> BY DEF ReceiveUnread
<1> QED BY <1>4, <1>5, <1>6, <1>7, <1>8

\* A frame in the clear reaches the station.
LEMMA ReceiveFields ==
    ASSUME TypeInv, NEW m \in air, Receive(m)
    PROVE  /\ sta' \in StaType
           /\ Calm(sta, sta') \/ HearsClear(sta, m.body, sta')
           /\ win' = Rekeyed(win, sta.sup, sta'.sup)
           /\ m.from = sta.bssid /\ Listening(sta) /\ air' \subseteq air
           /\ left' \in [rekeys : Nat, strays : Nat, repeats : Nat]
           /\ UNCHANGED <<ap, fresh, got, twice>>
<1>1. /\ sta \in StaType /\ StaOk(sta) /\ air \subseteq AirFrames
      /\ left \in [rekeys : Nat, strays : Nat, repeats : Nat]
      /\ Listening(sta) => sta.bssid \in Aps
  BY DEF TypeInv, TypeOK, StaOk, HomeInv
<1>2. /\ Delivered(m) /\ air' = Taken(m) /\ UNCHANGED <<ap, fresh, got, twice>>
      /\ sta' = OnRx(sta, m) /\ win' = Rekeyed(win, sta.sup, sta'.sup)
  BY DEF Receive, StationBecomes
<1>3. m.from = sta.bssid /\ Listening(sta) /\ sta.bssid \in Aps
  BY <1>1, <1>2 DEF Delivered
<1>4. left' \in [rekeys : Nat, strays : Nat, repeats : Nat]
  BY <1>1, <1>2, LeftFields DEF Delivered
<1>5. air' \subseteq air BY <1>2 DEF Taken
<1>6. /\ m.type \in {"Auth", "Assoc", "Deauth", "Data"} /\ m.body \in EapolKeys
  BY <1>1 DEF AirFrames
<1>7. sta' \in StaType /\ (Calm(sta, sta') \/ HearsClear(sta, m.body, sta'))
  <2>1. CASE m.type = "Auth"
    <3>1. Roomy(sta) BY <1>1, RoomyStation
    <3>2. sta' = on_auth(sta, m.ok) BY <1>2, <2>1 DEF OnRx
    <3> QED BY <1>1, <1>3, <3>1, <3>2, AuthFields DEF Calm
  <2>2. CASE m.type = "Assoc"
    <3>1. sta' = on_assoc_resp(sta, m.ok) BY <1>2, <2>2 DEF OnRx
    <3> QED BY <1>1, <3>1, AssocFields DEF Calm
  <2>3. CASE m.type = "Deauth"
    <3>1. sta' = on_deauth(sta) BY <1>2, <2>3 DEF OnRx
    <3> QED BY <1>1, <3>1, DeauthFields DEF Calm
  <2>4. CASE m.type = "Data"
    <3>1. sta' = on_cleartext(sta, m.body) BY <1>2, <2>4 DEF OnRx
    <3> QED BY <1>1, <1>3, <1>6, <3>1, ClearFields DEF Calm
  <2> QED BY <1>6, <2>1, <2>2, <2>3, <2>4
<1> QED BY <1>2, <1>3, <1>4, <1>5, <1>7

LEMMA StrayFields ==
    ASSUME TypeInv, NEW a \in Aps, Stray(a)
    PROVE  /\ sta' \in StaType
           /\ \E k \in EapolKeys : /\ k.kind = "Msg1"
                                   /\ Calm(sta, sta') \/ HearsClear(sta, k, sta')
           /\ win' = Rekeyed(win, sta.sup, sta'.sup)
           /\ left' \in [rekeys : Nat, strays : Nat, repeats : Nat]
           /\ UNCHANGED <<ap, air, fresh, got, twice>>
<1>1. /\ sta \in StaType /\ ap[a] \in ApType
      /\ left \in [rekeys : Nat, strays : Nat, repeats : Nat]
      /\ Listening(sta) => sta.bssid \in Aps
  BY DEF TypeInv, TypeOK, StaOk, HomeInv
<1>2. PICK r \in {ap[a].replay, ap[a].replay + ApTries + 2} :
         StationBecomes(on_cleartext(sta, [NoBody EXCEPT !.kind = "Msg1", !.replay = r]))
  BY DEF Stray
<1>3. /\ sta.bssid \in Aps /\ UNCHANGED <<ap, air, fresh, got, twice>>
      /\ left' \in [rekeys : Nat, strays : Nat, repeats : Nat]
  BY <1>1, LeftFields DEF Stray
<1>4. ap[a].replay \in Nat /\ ApTries \in Nat BY <1>1, LinkAssumption DEF ApType
<1>5. r \in Nat BY <1>2, <1>4
<1> DEFINE k == [NoBody EXCEPT !.kind = "Msg1", !.replay = r]
<1>6. k \in EapolKeys BY <1>5, ApConstants, ZenonT(60) DEF EapolKeys
<1>7. k.kind = "Msg1" BY ApConstants, ZenonT(60) DEF EapolKeys
<1>8. StationBecomes(on_cleartext(sta, k)) BY <1>2
<1> HIDE DEF k
<1>9. sta' = on_cleartext(sta, k) /\ win' = Rekeyed(win, sta.sup, sta'.sup)
  BY <1>8 DEF StationBecomes
<1>10. sta' \in StaType /\ (Rests(sta, sta') \/ HearsClear(sta, k, sta'))
  BY <1>1, <1>3, <1>6, <1>9, ClearFields
<1> QED BY <1>3, <1>6, <1>7, <1>9, <1>10 DEF Calm

\* The data plane accepts a frame.
LEMMA AcceptedFields ==
    ASSUME NEW w \in WinType, NEW n \in Nat
    PROVE  /\ Acceptable(w.pair[Tid], n) =>
                LET v == [w EXCEPT !["pair"][Tid] = Accepted(@, n)]
                IN  /\ v \in WinType /\ v.group = w.group
                    /\ v.pair[Tid] = Accepted(w.pair[Tid], n)
           /\ Acceptable(w.group[Tid], n) =>
                LET v == [w EXCEPT !["group"][Tid] = Accepted(@, n)]
                IN  /\ v \in WinType /\ v.pair = w.pair
                    /\ v.group[Tid] = Accepted(w.group[Tid], n)
<1>1. /\ w.pair \in [Tids -> Slots] /\ w.group \in [Tids -> Slots] /\ Tid \in Tids
  BY TidType DEF WinType, Windows
<1>2. ASSUME Acceptable(w.pair[Tid], n)
      PROVE  LET v == [w EXCEPT !["pair"][Tid] = Accepted(@, n)]
             IN  v \in WinType /\ v.group = w.group /\ v.pair[Tid] = Accepted(w.pair[Tid], n)
  <2> DEFINE a == Accepted(w.pair[Tid], n)
             x == [w.pair EXCEPT ![Tid] = a]
  <2>1. a \in Slots BY <1>1, <1>2, WindowType
  <2>2. [w EXCEPT !["pair"][Tid] = Accepted(@, n)] = [w EXCEPT !.pair = x] BY Zenon
  <2> HIDE DEF a
  <2>3. x \in Windows /\ x[Tid] = a BY <1>1, <2>1 DEF Windows
  <2> HIDE DEF x
  <2>4. /\ [w EXCEPT !.pair = x] \in WinType /\ [w EXCEPT !.pair = x].group = w.group
        /\ [w EXCEPT !.pair = x].pair = x
    BY <2>3 DEF WinType
  <2> QED BY <2>2, <2>3, <2>4, Zenon DEF a
<1>3. ASSUME Acceptable(w.group[Tid], n)
      PROVE  LET v == [w EXCEPT !["group"][Tid] = Accepted(@, n)]
             IN  v \in WinType /\ v.pair = w.pair /\ v.group[Tid] = Accepted(w.group[Tid], n)
  <2> DEFINE a == Accepted(w.group[Tid], n)
             x == [w.group EXCEPT ![Tid] = a]
  <2>1. a \in Slots BY <1>1, <1>3, WindowType
  <2>2. [w EXCEPT !["group"][Tid] = Accepted(@, n)] = [w EXCEPT !.group = x] BY Zenon
  <2> HIDE DEF a
  <2>3. x \in Windows /\ x[Tid] = a BY <1>1, <2>1 DEF Windows
  <2> HIDE DEF x
  <2>4. /\ [w EXCEPT !.group = x] \in WinType /\ [w EXCEPT !.group = x].pair = w.pair
        /\ [w EXCEPT !.group = x].group = x
    BY <2>3 DEF WinType
  <2> QED BY <2>2, <2>3, <2>4, Zenon DEF a
<1> QED BY <1>2, <1>3, Zenon

LEMMA MovesType ==
    ASSUME ap \in [Aps -> ApType], NEW a \in Aps, NEW q, NEW sky \in SUBSET AirFrames,
           ApMoves(a, q, sky)
    PROVE  ap' \in [Aps -> ApType] /\ air' \subseteq AirFrames
<1>1. PICK ms \in SUBSET AirFrames : air' = Aired(sky, ms) BY DEF ApMoves
<1>2. air' \subseteq AirFrames BY <1>1 DEF Aired
<1> QED BY <1>2 DEF ApMoves

\* A frame for the group reaches the data plane.
LEMMA ReceiveGroupFields ==
    ASSUME TypeInv, NEW m \in air, ReceiveGroup(m)
    PROVE  /\ m.key # NoKey /\ m.key = GroupKey(sta.sup.gtk) /\ m.pn \in Nat \ {0}
           /\ Acceptable(win.group[Tid], m.pn)
           /\ win' \in WinType /\ win'.pair = win.pair
           /\ win'.group[Tid] = Accepted(win.group[Tid], m.pn)
           /\ got' = got \cup {[key |-> m.key, pn |-> m.pn]}
           /\ twice' = (twice \/ [key |-> m.key, pn |-> m.pn] \in got)
           /\ air' \subseteq air /\ UNCHANGED <<sta, ap, fresh>>
           /\ left' \in [rekeys : Nat, strays : Nat, repeats : Nat]
<1>1. /\ air \subseteq AirFrames /\ win \in WinType
      /\ left \in [rekeys : Nat, strays : Nat, repeats : Nat]
  BY DEF TypeInv, TypeOK, WinType
<1>2. m.pn \in Nat BY <1>1 DEF AirFrames
<1>3. /\ m.key # NoKey /\ m.key = GroupKey(sta.sup.gtk) /\ Delivered(m)
      /\ Acceptable(win.group[Tid], m.pn)
      /\ win' = [win EXCEPT !["group"][Tid] = Accepted(@, m.pn)]
      /\ got' = got \cup {[key |-> m.key, pn |-> m.pn]}
      /\ twice' = (twice \/ [key |-> m.key, pn |-> m.pn] \in got)
      /\ air' = Taken(m) /\ UNCHANGED <<sta, ap, fresh>>
  BY Zenon DEF ReceiveGroup, Accepts, Accepted1
<1>4. /\ win' \in WinType /\ win'.pair = win.pair
      /\ win'.group[Tid] = Accepted(win.group[Tid], m.pn)
  BY <1>1, <1>2, <1>3, AcceptedFields, Zenon
<1>5. left' \in [rekeys : Nat, strays : Nat, repeats : Nat]
  BY <1>1, <1>3, LeftFields DEF Delivered
<1>6. air' \subseteq air BY <1>3 DEF Taken
<1>7. m.pn # 0 BY <1>3 DEF Acceptable
<1> QED BY <1>2, <1>3, <1>4, <1>5, <1>6, <1>7

\* A frame under the PTK reaches the data plane, and the station if it is a
\* key message; the answer reaches the AP or is lost.
LEMMA ReceiveProtectedFields ==
    ASSUME TypeInv, NEW m \in air, ReceiveProtected(m)
    PROVE  /\ sta' \in StaType
           /\ (~ Keyed(sta) /\ Rests(sta, sta')) \/ HearsProtected(sta, m.body, sta')
           /\ m.from = sta.bssid /\ sta.bssid \in Aps /\ connected(sta)
           /\ m.key # NoKey /\ m.key = sta.sup.ptk /\ m.pn \in Nat \ {0}
           /\ m.body \in EapolKeys
           /\ Acceptable(win.pair[Tid], m.pn)
           /\ \E w \in WinType :
                /\ w.group = win.group /\ w.pair[Tid] = Accepted(win.pair[Tid], m.pn)
                /\ win' = Rekeyed(w, sta.sup, sta'.sup)
           /\ got' = got \cup {[key |-> m.key, pn |-> m.pn]}
           /\ twice' = (twice \/ [key |-> m.key, pn |-> m.pn] \in got)
           /\ left' \in [rekeys : Nat, strays : Nat, repeats : Nat]
           /\ \/ air' \subseteq air /\ UNCHANGED <<ap, fresh>>
              \/ \E f, q :
                   /\ f \in Frames
                   /\ f = Frame(sta, "Eapol", eapol_reply(sta, m.body).out)
                   /\ f.body # NoReply
                   /\ ApMoves(f.to, q, air \ {m})
                   /\ HeardBy(f.to, ap[f.to], f, q, fresh, fresh')
<1>1. /\ air \subseteq AirFrames /\ win \in WinType /\ sta \in StaType
      /\ ap \in [Aps -> ApType] /\ fresh \in Nat
      /\ left \in [rekeys : Nat, strays : Nat, repeats : Nat]
      /\ Listening(sta) => sta.bssid \in Aps
  BY DEF TypeInv, TypeOK, WinType, StaOk, HomeInv
<1>2. m.pn \in Nat /\ m.body \in EapolKeys BY <1>1 DEF AirFrames
<1> DEFINE f == Frame(sta, "Eapol", eapol_reply(sta, m.body).out)
           w == [win EXCEPT !["pair"][Tid] = Accepted(@, m.pn)]
<1>3. /\ m.key # NoKey /\ m.key = sta.sup.ptk /\ Delivered(m)
      /\ connected(sta) /\ Acceptable(win.pair[Tid], m.pn)
      /\ sta' = on_decrypted_msdu(sta, m.body)
      /\ win' = Rekeyed(w, sta.sup, sta'.sup)
      /\ got' = got \cup {[key |-> m.key, pn |-> m.pn]}
      /\ twice' = (twice \/ [key |-> m.key, pn |-> m.pn] \in got)
      /\ \/ air' = Taken(m) /\ UNCHANGED <<ap, fresh>>
         \/ f.body # NoReply /\ ApHears(f, air \ {m})
  BY Zenon DEF ReceiveProtected, Accepts, Accepted1
<1>4. w \in WinType /\ w.group = win.group /\ w.pair[Tid] = Accepted(win.pair[Tid], m.pn)
  BY <1>1, <1>2, <1>3, AcceptedFields, Zenon
<1> HIDE DEF w
<1>5. left' \in [rekeys : Nat, strays : Nat, repeats : Nat]
  BY <1>1, <1>3, LeftFields DEF Delivered
<1>6. m.from = sta.bssid /\ sta.bssid \in Aps BY <1>1, <1>3 DEF Delivered
<1>7. m.pn # 0 BY <1>3 DEF Acceptable
<1>8. /\ sta' \in StaType
      /\ (~ Keyed(sta) /\ Rests(sta, sta')) \/ HearsProtected(sta, m.body, sta')
  BY <1>1, <1>2, <1>3, ProtectedFields
<1>9. f \in Frames
  <2>1. eapol_reply(sta, m.body).out \in Replies BY <1>1, <1>2, ReplyFields DEF Results
  <2> QED BY <1>1, <1>6, <2>1, FrameType
<1> HIDE DEF f
<1>10. CASE air' = Taken(m) /\ UNCHANGED <<ap, fresh>>
  <2>1. air' \subseteq air BY <1>10 DEF Taken
  <2> QED BY <1>2, <1>3, <1>4, <1>5, <1>6, <1>7, <1>8, <1>10, <2>1
<1>11. CASE f.body # NoReply /\ ApHears(f, air \ {m})
  <2>1. PICK q : ApMoves(f.to, q, air \ {m}) /\ HeardBy(f.to, ap[f.to], f, q, fresh, fresh')
    BY <1>1, <1>9, <1>11, ApHearsFields
  <2>2. \E h, r :
          /\ h \in Frames
          /\ h = Frame(sta, "Eapol", eapol_reply(sta, m.body).out)
          /\ h.body # NoReply
          /\ ApMoves(h.to, r, air \ {m})
          /\ HeardBy(h.to, ap[h.to], h, r, fresh, fresh')
    <3>1. f = Frame(sta, "Eapol", eapol_reply(sta, m.body).out) BY DEF f
    <3> QED BY <1>9, <1>11, <2>1, <3>1
  <2> QED BY <1>2, <1>3, <1>4, <1>5, <1>6, <1>7, <1>8, <2>2
<1> QED BY <1>3, <1>10, <1>11

\* The caller sends the first frame of the queue.
LEMMA TransmitFields ==
    ASSUME TypeInv, Transmit
    PROVE  /\ sta' \in StaType /\ Pops(sta, sta') /\ win' = win
           /\ Head(sta.tx) \in Frames /\ UNCHANGED <<got, twice, left>>
           /\ \/ UNCHANGED <<ap, air, fresh>>
              \/ \E q : LET f == Head(sta.tx)
                        IN  /\ ApMoves(f.to, q, air)
                            /\ HeardBy(f.to, ap[f.to], f, q, fresh, fresh')
<1>1. /\ sta \in StaType /\ win \in WinType /\ ap \in [Aps -> ApType] /\ fresh \in Nat
  BY DEF TypeInv, TypeOK, WinType
<1>2. /\ sta.tx # <<>> /\ sta' = pop_tx(sta) /\ win' = Rekeyed(win, sta.sup, sta'.sup)
      /\ UNCHANGED <<got, twice, left>> /\ Uplink(Head(sta.tx))
  BY DEF Transmit, StationBecomes
<1>3. sta' \in StaType /\ Pops(sta, sta') BY <1>1, <1>2, PopFields
<1>4. sta.sup \in SupType /\ sta'.sup = sta.sup BY <1>1, <1>3 DEF StaType, Pops
<1>5. win' = win BY <1>1, <1>2, <1>4, RekeyedType DEF SameGens
<1> DEFINE f == Head(sta.tx)
<1>6. f \in Frames BY <1>1, <1>2, HeadTailProperties DEF StaType
<1>7. CASE UNCHANGED <<ap, air, fresh>> BY <1>2, <1>3, <1>5, <1>6, <1>7
<1>8. CASE ApHears(f, air)
  <2> HIDE DEF f
  <2>1. PICK q : ApMoves(f.to, q, air) /\ HeardBy(f.to, ap[f.to], f, q, fresh, fresh')
    BY <1>1, <1>6, <1>8, ApHearsFields
  <2> QED BY <1>2, <1>3, <1>5, <1>6, <2>1 DEF f
<1> QED BY <1>2, <1>7, <1>8 DEF Uplink

LEMMA NewStationOk == StaOk(NewStation)
<1>1. <<>> \in Seq(Frames) /\ Len(<<>>) = 0 BY EmptySeq
<1>2. NewStation \in StaType
  BY <1>1, SupConstants, Ages DEF NewStation, StaType, Rsns
<1>3. /\ NewStation.state = "Idle" /\ NewStation.authenticated = FALSE
      /\ NewStation.tx = <<>>
  BY DEF NewStation
<1>4. HomeInv(NewStation) BY <1>3 DEF HomeInv, Listening
<1>5. QueueInv(NewStation) BY <1>1, <1>3 DEF QueueInv, AnswersLast
<1>6. RoomInv(NewStation) BY <1>1, <1>3, QueueRoom DEF RoomInv
<1> QED BY <1>2, <1>4, <1>5, <1>6 DEF StaOk

\* Every secured AP has a GTK of its own below the first fresh number.
LEMMA FirstAps ==
    ASSUME Init
    PROVE  /\ ap \in [Aps -> ApType] /\ fresh \in Nat
           /\ \A a \in Aps : /\ ap[a].wait = "None" /\ ap[a].key = NoKey
                             /\ ap[a].gtk < fresh /\ ap[a].anonce = 0
                             /\ a \in Secured => ap[a].gtk >= 1
                             /\ a \notin Secured => ap[a].gtk = 0
           /\ \A a, b \in Aps : ap[a].gtk = ap[b].gtk /\ ap[a].gtk # 0 => a = b
<1>1. Secured \subseteq Aps /\ IsFiniteSet(Secured) BY LinkAssumption
<1> DEFINE n == Cardinality(Secured)
<1>2. n \in Nat BY <1>1, FS_CardinalityType
<1>3. PICK f \in FirstGtks :
        ap = [a \in Aps |-> [NewAp EXCEPT !.gtk = IF a \in Secured THEN f[a] ELSE 0]]
  BY DEF Init
<1>4. fresh = n + 1 BY DEF Init
<1>5. /\ \A a \in Secured : f[a] \in 1..n
      /\ \A a, b \in Secured : f[a] = f[b] => a = b
  BY <1>3 DEF FirstGtks
<1> HIDE DEF n
<1> DEFINE g(a) == IF a \in Secured THEN f[a] ELSE 0
<1>6. \A a \in Aps : /\ g(a) \in Nat /\ g(a) < fresh
                     /\ a \in Secured => g(a) >= 1
                     /\ a \notin Secured => g(a) = 0
  BY <1>2, <1>4, <1>5
<1>7. \A a, b \in Aps : g(a) = g(b) /\ g(a) # 0 => a = b BY <1>5
<1>8. \A a \in Aps : ap[a] = [NewAp EXCEPT !.gtk = g(a)] BY <1>3
<1> HIDE DEF g
<1>9. ASSUME NEW a \in Aps
      PROVE  /\ ap[a] \in ApType /\ ap[a].gtk = g(a) /\ ap[a].wait = "None"
             /\ ap[a].key = NoKey /\ ap[a].anonce = 0
  <2> DEFINE p == ap[a]
             n0 == NewAp
  <2>1. p = [n0 EXCEPT !.gtk = g(a)] /\ g(a) \in Nat BY <1>6, <1>8
  <2>2. n0 \in ApType /\ n0.wait = "None" /\ n0.key = NoKey /\ n0.anonce = 0
    BY ApConstants DEF NewAp
  <2> HIDE DEF p, n0
  <2>3. p \in ApType /\ p.gtk = g(a) /\ p.wait = n0.wait /\ p.key = n0.key /\ p.anonce = n0.anonce
    BY <2>1, <2>2 DEF ApType
  <2> QED BY <2>2, <2>3 DEF p
<1>10. ap \in [Aps -> ApType]
  <2>1. ap = [a \in Aps |-> ap[a]] BY <1>3
  <2> QED BY <1>9, <2>1
<1> QED BY <1>2, <1>4, <1>6, <1>7, <1>9, <1>10

LEMMA TypeInit == Init => TypeInv
<1> SUFFICES ASSUME Init PROVE TypeInv OBVIOUS
<1>1. StaOk(sta) BY NewStationOk DEF Init
<1>2. ap \in [Aps -> ApType] /\ fresh \in Nat BY FirstAps
<1>3. win \in [pair : Windows, group : Windows] BY SeedType DEF Init
<1>4. left \in [rekeys : Nat, strays : Nat, repeats : Nat] BY LinkAssumption DEF Init
<1>5. air = {} /\ got = {} /\ twice = FALSE BY DEF Init
<1> QED BY <1>1, <1>2, <1>3, <1>4, <1>5 DEF TypeInv, TypeOK, StaOk, RoomInv

\* The parts that a step of the station by itself leaves to show.
LEMMA TypeParts ==
    ASSUME TypeInv, sta' \in StaType, sta' = sta \/ Steps(sta, sta'),
           ap' \in [Aps -> ApType], air' \subseteq AirFrames, fresh' \in Nat,
           win' \in WinType, got' \subseteq [key : Keys, pn : Nat], twice' \in BOOLEAN,
           left' \in [rekeys : Nat, strays : Nat, repeats : Nat]
    PROVE  TypeInv'
<1>1. StaOk(sta) BY DEF TypeInv
<1>2. StaOk(sta') BY <1>1, StationStep
<1>3. Len(sta'.tx) <= MaxTxQueue BY <1>2 DEF StaOk, RoomInv
<1> QED BY <1>2, <1>3 DEF TypeInv, TypeOK, WinType

LEMMA TypeNext == TypeInv /\ [Next]_vars => TypeInv'
<1> SUFFICES ASSUME TypeInv, [Next]_vars PROVE TypeInv' OBVIOUS
<1> USE DEF WinType
<1>1. /\ sta \in StaType /\ StaOk(sta) /\ ap \in [Aps -> ApType] /\ air \subseteq AirFrames
      /\ fresh \in Nat /\ win \in WinType /\ got \subseteq [key : Keys, pn : Nat]
      /\ twice \in BOOLEAN /\ left \in [rekeys : Nat, strays : Nat, repeats : Nat]
  BY DEF TypeInv, TypeOK
<1>2. sta.sup \in SupType BY <1>1 DEF StaType
<1>3. ASSUME sta' \in StaType
      PROVE  \A w \in WinType : Rekeyed(w, sta.sup, sta'.sup) \in WinType
  <2>1. sta'.sup \in SupType BY <1>3 DEF StaType
  <2> QED BY <1>2, <2>1, RekeyedType
<1>4. ASSUME NEW m \in air
      PROVE  {[key |-> m.key, pn |-> m.pn]} \subseteq [key : Keys, pn : Nat]
  BY <1>1 DEF AirFrames
<1>5. CASE \/ Configure \/ Leave \/ LinkLost \/ Clock
           \/ \E e \in Entries : Join(e)
           \/ \E a \in Aps : Beacon(a)
  <2>1. /\ sta' \in StaType /\ Calm(sta, sta') /\ win' = win
        /\ UNCHANGED <<ap, air, fresh, got, twice, left>>
    BY <1>5, CalmActions
  <2>2. Steps(sta, sta') BY <2>1 DEF Calm, Steps
  <2> QED BY <1>1, <2>1, <2>2, TypeParts
<1>6. CASE Transmit
  <2>1. /\ sta' \in StaType /\ Steps(sta, sta') /\ win' = win
        /\ UNCHANGED <<got, twice, left>>
    BY <1>6, TransmitFields DEF Steps
  <2>2. CASE UNCHANGED <<ap, air, fresh>> BY <1>1, <2>1, <2>2, TypeParts
  <2>3. CASE ~ UNCHANGED <<ap, air, fresh>>
    <3> DEFINE f == Head(sta.tx)
    <3>1. f \in Frames BY <1>6, TransmitFields
    <3>2. PICK q : ApMoves(f.to, q, air) /\ HeardBy(f.to, ap[f.to], f, q, fresh, fresh')
      BY <1>6, <2>3, TransmitFields
    <3> HIDE DEF f
    <3>3. f.to \in Aps BY <3>1 DEF Frames
    <3>4. ap' \in [Aps -> ApType] /\ air' \subseteq AirFrames BY <1>1, <3>2, <3>3, MovesType
    <3>5. fresh' \in Nat BY <1>1, <3>2 DEF HeardBy
    <3> QED BY <1>1, <2>1, <3>4, <3>5, TypeParts
  <2> QED BY <2>2, <2>3
<1>7. ASSUME NEW a \in Aps,
             ApRetransmit(a) \/ ApDeauth(a) \/ ApRekey(a) \/ ApData(a) \/ ApOff(a)
      PROVE  TypeInv'
  <2>1. PICK q : ApMoves(a, q, air) /\ Alone(ap[a], q, fresh, fresh')
    BY <1>1, <1>7, ApAloneFields
  <2>2. ap' \in [Aps -> ApType] /\ air' \subseteq AirFrames BY <1>1, <2>1, MovesType
  <2>3. fresh' \in Nat BY <1>1, <2>1 DEF Alone
  <2>4. UNCHANGED <<sta, win, got, twice>> /\ left' \in [rekeys : Nat, strays : Nat, repeats : Nat]
    BY <1>1, <1>7, LeftFields DEF ApRetransmit, ApDeauth, ApRekey, ApData, ApOff
  <2> QED BY <1>1, <2>2, <2>3, <2>4, TypeParts
<1>8. ASSUME NEW a \in Aps, Stray(a)
      PROVE  TypeInv'
  <2>1. /\ sta' \in StaType
        /\ \E k \in EapolKeys : Calm(sta, sta') \/ HearsClear(sta, k, sta')
        /\ win' = Rekeyed(win, sta.sup, sta'.sup)
        /\ left' \in [rekeys : Nat, strays : Nat, repeats : Nat]
        /\ UNCHANGED <<ap, air, fresh, got, twice>>
    BY <1>8, StrayFields
  <2>2. Steps(sta, sta') BY <2>1 DEF Calm, Steps
  <2>3. win' \in WinType BY <1>1, <1>3, <2>1
  <2> QED BY <1>1, <2>1, <2>2, <2>3, TypeParts
<1>9. ASSUME NEW m \in air, Receive(m)
      PROVE  TypeInv'
  <2>1. /\ sta' \in StaType
        /\ Calm(sta, sta') \/ HearsClear(sta, m.body, sta')
        /\ win' = Rekeyed(win, sta.sup, sta'.sup) /\ air' \subseteq air
        /\ left' \in [rekeys : Nat, strays : Nat, repeats : Nat]
        /\ UNCHANGED <<ap, fresh, got, twice>>
    BY <1>9, ReceiveFields
  <2>2. m.body \in EapolKeys BY <1>1 DEF AirFrames
  <2>3. Steps(sta, sta') BY <2>1, <2>2 DEF Calm, Steps
  <2>4. win' \in WinType /\ air' \subseteq AirFrames BY <1>1, <1>3, <2>1
  <2> QED BY <1>1, <2>1, <2>3, <2>4, TypeParts
<1>10. ASSUME NEW m \in air, ReceiveGroup(m)
       PROVE  TypeInv'
  <2>1. /\ win' \in WinType /\ got' = got \cup {[key |-> m.key, pn |-> m.pn]}
        /\ twice' = (twice \/ [key |-> m.key, pn |-> m.pn] \in got)
        /\ air' \subseteq air /\ UNCHANGED <<sta, ap, fresh>>
        /\ left' \in [rekeys : Nat, strays : Nat, repeats : Nat]
    BY <1>10, ReceiveGroupFields
  <2>2. got' \subseteq [key : Keys, pn : Nat] BY <1>1, <1>4, <2>1
  <2>3. twice' \in BOOLEAN BY <1>1, <2>1, Zenon
  <2>4. air' \subseteq AirFrames BY <1>1, <2>1
  <2> QED BY <1>1, <2>1, <2>2, <2>3, <2>4, TypeParts
<1>11. ASSUME NEW m \in air, ReceiveProtected(m)
       PROVE  TypeInv'
  <2>1. /\ sta' \in StaType /\ m.body \in EapolKeys
        /\ Rests(sta, sta') \/ HearsProtected(sta, m.body, sta')
        /\ got' = got \cup {[key |-> m.key, pn |-> m.pn]}
        /\ twice' = (twice \/ [key |-> m.key, pn |-> m.pn] \in got)
        /\ left' \in [rekeys : Nat, strays : Nat, repeats : Nat]
    BY <1>11, ReceiveProtectedFields
  <2>2. PICK w \in WinType : win' = Rekeyed(w, sta.sup, sta'.sup)
    BY <1>11, ReceiveProtectedFields
  <2>3. win' \in WinType BY <1>3, <2>1, <2>2
  <2>4. got' \subseteq [key : Keys, pn : Nat] BY <1>1, <1>4, <2>1
  <2>5. twice' \in BOOLEAN BY <1>1, <2>1, Zenon
  <2>6. Steps(sta, sta') BY <2>1 DEF Steps
  <2>7. ap' \in [Aps -> ApType] /\ air' \subseteq AirFrames /\ fresh' \in Nat
    <3>1. CASE air' \subseteq air /\ UNCHANGED <<ap, fresh>> BY <1>1, <3>1
    <3>2. CASE ~ (air' \subseteq air /\ UNCHANGED <<ap, fresh>>)
      <4>1. PICK f, q : /\ f \in Frames
                        /\ ApMoves(f.to, q, air \ {m})
                        /\ HeardBy(f.to, ap[f.to], f, q, fresh, fresh')
        BY <1>11, <3>2, ReceiveProtectedFields
      <4> f \in Frames BY <4>1
      <4>2. f.to \in Aps /\ air \ {m} \in SUBSET AirFrames BY <1>1 DEF Frames
      <4>3. ap' \in [Aps -> ApType] /\ air' \subseteq AirFrames
        BY <1>1, <4>1, <4>2, MovesType
      <4>4. fresh' \in Nat BY <1>1, <4>1 DEF HeardBy
      <4> QED BY <4>3, <4>4
    <3> QED BY <3>1, <3>2
  <2> QED BY <2>1, <2>3, <2>4, <2>5, <2>6, <2>7, TypeParts
<1>12. ASSUME NEW m \in air, Lose(m)
       PROVE  TypeInv'
  <2>1. air' \subseteq AirFrames /\ UNCHANGED <<sta, ap, fresh, win, got, twice, left>>
    BY <1>1, <1>12 DEF Lose
  <2> QED BY <1>1, <2>1, TypeParts
<1>13. ASSUME NEW m \in air, ReceiveUnread(m)
       PROVE  TypeInv'
  <2>1. /\ sta' \in StaType /\ Calm(sta, sta') /\ win' = win /\ air' \subseteq air
        /\ left' \in [rekeys : Nat, strays : Nat, repeats : Nat]
        /\ UNCHANGED <<ap, fresh, got, twice>>
    BY <1>13, UnreadFields
  <2>2. Steps(sta, sta') BY <2>1 DEF Calm, Steps
  <2>3. air' \subseteq AirFrames BY <1>1, <2>1
  <2> QED BY <1>1, <2>1, <2>2, <2>3, TypeParts
<1>14. CASE UNCHANGED vars
  <2>1. UNCHANGED <<sta, ap, air, fresh, win, got, twice, left>> BY <1>14 DEF vars
  <2> QED BY <1>1, <2>1, TypeParts
<1> QED BY <1>5, <1>6, <1>7, <1>8, <1>9, <1>10, <1>11, <1>12, <1>13, <1>14
        DEF Next, CallerStep, RadioStep, ApStep

LEMMA TypeInvariant == Spec => []TypeInv
BY TypeInit, TypeNext, PTL DEF Spec

\* Types hold, and the transmit queue of StationSm never outgrows kMaxTxQueue,
\* for every number of APs, tries and timeouts.
THEOREM StationTypeCorrect == Spec => []TypeOK
<1>1. TypeInv => TypeOK BY DEF TypeInv
<1> QED BY <1>1, TypeInvariant, PTL

\* The promise at the static_assert of StationSm.h: queue() never drops an
\* authentication or association request.
THEOREM RequestsAlwaysFit == Spec => []RequestsFit
<1>1. TypeInv => RequestsFit
  <2> SUFFICES ASSUME TypeInv PROVE RequestsFit OBVIOUS
  <2>1. StaOk(sta) /\ sta \in StaType BY DEF TypeInv, StaOk
  <2>2. Roomy(sta) BY <2>1, RoomyStation
  <2>3. Asking(sta) => sta.tries > 0 BY <2>1, QueueRoom DEF StaOk, RoomInv, Asking
  <2> QED BY <2>2, <2>3 DEF RequestsFit, Roomy, Asking
<1> QED BY <1>1, TypeInvariant, PTL

\* What pop_tx gives the caller is of the join under way, or the goodbye to
\* the AP before it: join, leave, fail and the drop of the keys clear the rest.
THEOREM QueueStaysCurrent == Spec => []QueueIsCurrent
<1>1. TypeInv => QueueIsCurrent
  <2> SUFFICES ASSUME TypeInv PROVE QueueIsCurrent OBVIOUS
  <2>1. \A i \in 1..Len(sta.tx) : Placed(sta, sta.tx[i], i)
    BY DEF TypeInv, StaOk, QueueInv
  <2> QED BY <2>1 DEF QueueIsCurrent, Placed
<1> QED BY <1>1, TypeInvariant, PTL

------------------------------------------------------------------------------
(* The keys: what the supplicant holds, what the APs hold and what is under *)
(* way belong to the joins they were made in.                              *)

\* The supplicant of station s.
SupInv(s) ==
    /\ s.sup.st = "Idle" <=> ~ Keyed(s)
    /\ s.sup.st = "Idle" => Forgotten(s.sup)
    /\ s.sup.st # "Idle" => s.sup.snonce = s.joins /\ s.sup.rsn = s.rsn
    /\ s.sup.st = "Done" <=> ptk_valid(s.sup)
    /\ s.sup.cand # NoKey => s.sup.cand.snonce = s.joins
    /\ s.sup.m1 # NoReply => s.sup.m1.kind = "Msg2" /\ s.sup.m1.mic.snonce = s.joins
    /\ ptk_valid(s.sup) =>
         /\ s.sup.ptk.snonce = s.joins /\ s.rsn = "real"
         /\ s.sup.last.kind \in {"Msg4", "Group2"} /\ s.sup.last.mic = s.sup.ptk
         /\ s.sup.last.replay = s.sup.rx_replay
         /\ s.sup.cand # NoKey => s.sup.cand.anonce > s.sup.ptk.anonce
    /\ ~ ptk_valid(s.sup) => s.sup.rx_replay = -1 /\ s.sup.last = NoReply /\ s.sup.gtk = 0

\* An answer of station s to its AP.
AnswerOk(s, b) ==
    /\ b.mic.snonce = s.joins
    /\ b.kind = "Msg4" => ptk_valid(s.sup) /\ b.mic.anonce <= s.sup.ptk.anonce

AnswersInv(s) ==
    \A i \in 1..Len(s.tx) :
        IF s.tx[i].type = "Eapol" THEN AnswerOk(s, s.tx[i].body) ELSE s.tx[i].body = NoReply

\* An AP that is p, when fr is the next fresh number and n the last join.
ApOk(p, fr, n) ==
    /\ p.anonce < fr /\ p.gtk < fr
    /\ p.wait \in {"Msg2", "Msg4"} =>
         p.anonce >= 1 /\ (p.key # NoKey => p.key.anonce < p.anonce)
    /\ p.wait = "Msg4" => p.ptk.anonce = p.anonce /\ p.ptk.snonce \in 1..n
    /\ p.wait = "Group2" => p.key # NoKey
    /\ p.key # NoKey => p.key.anonce <= p.anonce /\ p.key.snonce \in 1..n

ApInv(A, fr, n) ==
    /\ fr >= 1
    /\ \A a \in Aps : ApOk(A[a], fr, n)
    /\ \A a, b \in Aps : A[a].gtk = A[b].gtk /\ A[a].gtk # 0 => a = b

\* A frame under a GTK is one that the AP of that GTK has sent.
GroupOk(A, fr, g) ==
    g.key.snonce = 0 /\ g.key # NoKey =>
        /\ g.key.anonce < fr
        /\ \A a \in Aps : A[a].gtk = g.key.anonce => g.pn <= A[a].gpn

AirOk(A, fr, n, m) ==
    /\ m.key # NoKey /\ m.body.kind = "Msg1" => m.body.anonce > m.key.anonce
    /\ m.body.kind \in {"Msg3", "Group1"} => m.body.mic.snonce <= n /\ m.body.rsn = "real"
    /\ m.body.kind = "Msg3" => m.body.mic.anonce = m.body.anonce
    /\ GroupOk(A, fr, m)

GotOk(A, fr, n, g) ==
    g.pn >= 1 /\ g.key # NoKey /\ g.key.snonce <= n /\ GroupOk(A, fr, g)

\* A message 2 that an AP may hear is of a join there has been.
Honest(f, n) == f.body.kind = "Msg2" => f.body.mic.snonce \in 1..n

\* AP a becomes q, which was p.
Turns(a, p, q, fr, gr, n) ==
    \/ Alone(p, q, fr, gr)
    \/ \E f \in Frames : Honest(f, n) /\ HeardBy(a, p, f, q, fr, gr)

LEMMA KeyTypes ==
    ASSUME NEW p \in ApType
    PROVE  /\ p.key \in Keys /\ p.ptk \in Keys /\ p.anonce \in Nat /\ p.replay \in Nat
           /\ p.gtk \in Nat /\ p.gpn \in Nat
           /\ p.key.anonce \in Nat /\ p.key.snonce \in Nat
           /\ p.ptk.anonce \in Nat /\ p.ptk.snonce \in Nat
BY DEF ApType, Keys

LEMMA ApOkStep ==
    ASSUME NEW a, NEW p \in ApType, NEW q \in ApType, NEW fr \in Nat, NEW gr, NEW n \in Nat,
           fr >= 1, ApOk(p, fr, n), Turns(a, p, q, fr, gr, n)
    PROVE  /\ gr \in {fr, fr + 1} /\ ApOk(q, gr, n)
           /\ \/ q.gtk = p.gtk /\ q.gpn >= p.gpn
              \/ q.gtk = fr /\ gr = fr + 1
<1>1. /\ p.anonce \in Nat /\ p.gtk \in Nat /\ p.gpn \in Nat
      /\ q.anonce \in Nat /\ q.gtk \in Nat /\ q.gpn \in Nat
      /\ p.key.anonce \in Nat /\ p.ptk.anonce \in Nat
  BY KeyTypes
<1>2. ASSUME Quits(p, q), gr = fr
      PROVE  ApOk(q, gr, n) /\ q.gtk = p.gtk /\ q.gpn >= p.gpn
  BY <1>1, <1>2 DEF Quits, ApOk, SameGroup
<1>3. CASE Alone(p, q, fr, gr)
  <2>1. CASE gr = fr /\ Quits(p, q) BY <1>2, <2>1
  <2>2. CASE gr = fr /\ (Again(p, q) \/ SendsData(p, q))
    <3>1. /\ q.wait = p.wait /\ q.key = p.key /\ q.ptk = p.ptk /\ q.anonce = p.anonce
          /\ q.gtk = p.gtk /\ q.gpn >= p.gpn
      BY <1>1, <2>2 DEF Again, SendsData, SameKeys, SameGroup
    <3> QED BY <1>1, <2>2, <3>1 DEF ApOk
  <2>3. CASE gr = fr + 1 /\ RekeysGroup(p, q, fr)
    <3>1. /\ q.wait = "Group2" /\ q.key = p.key /\ p.key # NoKey /\ q.anonce = p.anonce
          /\ q.gtk = fr
      BY <2>3 DEF RekeysGroup, SameKeys
    <3> QED BY <1>1, <2>3, <3>1 DEF ApOk
  <2>4. CASE gr = fr + 1 /\ RekeysPair(p, q, fr)
    <3>1. /\ q.wait = "Msg2" /\ q.key = p.key /\ p.key # NoKey /\ q.anonce = fr
          /\ q.gtk = p.gtk /\ q.gpn = p.gpn
      BY <2>4 DEF RekeysPair, SameKeys, SameGroup
    <3> QED BY <1>1, <2>4, <3>1 DEF ApOk
  <2> QED BY <1>3, <2>1, <2>2, <2>3, <2>4 DEF Alone
<1>4. ASSUME NEW f \in Frames, Honest(f, n), HeardBy(a, p, f, q, fr, gr)
      PROVE  /\ gr \in {fr, fr + 1} /\ ApOk(q, gr, n)
             /\ q.gtk = p.gtk /\ q.gpn >= p.gpn
  <2>1. CASE gr = fr /\ Quits(p, q) BY <1>2, <2>1
  <2>2. CASE gr = fr + 1 /\ Restarts(a, p, q, fr)
    <3>1. /\ q.wait = "Msg2" /\ q.key = NoKey /\ q.anonce = fr
          /\ q.gtk = p.gtk /\ q.gpn = p.gpn
      BY <2>2 DEF Restarts, SameGroup
    <3> QED BY <1>1, <2>2, <3>1 DEF ApOk
  <2>3. CASE gr = fr /\ Opens(a, p, q)
    <3>1. /\ q.wait = p.wait /\ q.key = p.key /\ q.ptk = p.ptk /\ q.anonce = p.anonce
          /\ q.gtk = p.gtk /\ q.gpn = p.gpn
      BY <2>3 DEF Opens, SameKeys, SameGroup
    <3> QED BY <1>1, <2>3, <3>1 DEF ApOk
  <2>4. CASE gr = fr /\ Derived(p, q, f.body)
    <3>1. /\ q.wait = "Msg4" /\ q.key = p.key /\ q.anonce = p.anonce /\ p.wait = "Msg2"
          /\ q.ptk.anonce = p.anonce /\ q.ptk.snonce \in 1..n
          /\ q.gtk = p.gtk /\ q.gpn = p.gpn
      BY <1>4, <2>4 DEF Derived, SameGroup, Honest
    <3> QED BY <1>1, <2>4, <3>1 DEF ApOk
  <2>5. CASE gr = fr /\ Installed(p, q, f.body)
    <3>1. /\ q.wait = "None" /\ q.key = p.ptk /\ q.anonce = p.anonce /\ p.wait = "Msg4"
          /\ q.gtk = p.gtk /\ q.gpn = p.gpn
      BY <2>5 DEF Installed, SameGroup
    <3> QED BY <1>1, <2>5, <3>1 DEF ApOk
  <2>6. CASE gr = fr /\ GroupDone(p, q, f.body)
    <3>1. /\ q.wait = "None" /\ q.key = p.key /\ q.anonce = p.anonce
          /\ q.gtk = p.gtk /\ q.gpn = p.gpn
      BY <2>6 DEF GroupDone, SameKeys, SameGroup
    <3> QED BY <1>1, <2>6, <3>1 DEF ApOk
  <2> QED BY <1>4, <2>1, <2>2, <2>3, <2>4, <2>5, <2>6 DEF HeardBy
<1>5. CASE \E f \in Frames : Honest(f, n) /\ HeardBy(a, p, f, q, fr, gr) BY <1>4, <1>5
<1> QED BY <1>3, <1>5 DEF Turns, Alone

\* An AP turns: the others, what is under way and what was accepted keep their
\* place.
LEMMA ApInvStep ==
    ASSUME NEW A \in [Aps -> ApType], NEW a \in Aps, NEW q \in ApType, NEW fr \in Nat,
           NEW gr, NEW n \in Nat, ApInv(A, fr, n), Turns(a, A[a], q, fr, gr, n)
    PROVE  LET B == [A EXCEPT ![a] = q]
           IN  /\ gr \in Nat /\ fr <= gr /\ B \in [Aps -> ApType] /\ ApInv(B, gr, n)
               /\ \A g : /\ g.key \in Keys /\ g.pn \in Nat /\ GroupOk(A, fr, g)
                         => GroupOk(B, gr, g)
               /\ \A m \in AirFrames : Airs(a, q, m) => AirOk(B, gr, n, m)
<1> DEFINE p == A[a]
           B == [A EXCEPT ![a] = q]
<1>1. /\ p \in ApType /\ ApOk(p, fr, n) /\ fr >= 1 BY DEF ApInv
<1>2. /\ gr \in {fr, fr + 1} /\ ApOk(q, gr, n)
      /\ \/ q.gtk = p.gtk /\ q.gpn >= p.gpn
         \/ q.gtk = fr /\ gr = fr + 1
  BY <1>1, ApOkStep
<1>3. B \in [Aps -> ApType] /\ B[a] = q /\ \A b \in Aps : b # a => B[b] = A[b] OBVIOUS
<1>4. /\ \A b \in Aps : A[b].gtk \in Nat /\ A[b].gtk < fr /\ A[b].anonce \in Nat /\ A[b].gpn \in Nat
      /\ q.gtk \in Nat /\ q.gpn \in Nat
  BY KeyTypes DEF ApInv, ApOk
<1>5. \A b, c \in Aps : A[b].gtk = A[c].gtk /\ A[b].gtk # 0 => b = c BY DEF ApInv
<1>6. gr \in Nat /\ fr <= gr /\ gr >= 1 BY <1>1, <1>2
<1>7. \A b \in Aps : ApOk(A[b], gr, n)
  <2> SUFFICES ASSUME NEW b \in Aps PROVE ApOk(A[b], gr, n) OBVIOUS
  <2>1. ApOk(A[b], fr, n) BY DEF ApInv
  <2> QED BY <1>4, <1>6, <2>1 DEF ApOk
<1> HIDE DEF p, B
<1>8. \A b, c \in Aps : B[b].gtk = B[c].gtk /\ B[b].gtk # 0 => b = c
  <2> SUFFICES ASSUME NEW b \in Aps, NEW c \in Aps, B[b].gtk = B[c].gtk, B[b].gtk # 0, b # c
               PROVE  FALSE
    OBVIOUS
  <2>1. CASE b # a /\ c # a BY <1>3, <1>5, <2>1
  <2>2. ASSUME NEW d \in Aps, d # a, A[d].gtk = q.gtk, q.gtk # 0
        PROVE  FALSE
    BY <1>2, <1>4, <1>5, <2>2 DEF p
  <2>3. CASE b = a BY <1>3, <2>2, <2>3
  <2>4. CASE c = a BY <1>3, <2>2, <2>4
  <2> QED BY <2>1, <2>3, <2>4
<1>9. ApInv(B, gr, n) BY <1>2, <1>3, <1>6, <1>7, <1>8 DEF ApInv
<1>10. ASSUME NEW g, g.key \in Keys, g.pn \in Nat, GroupOk(A, fr, g)
       PROVE  GroupOk(B, gr, g)
  <2> SUFFICES ASSUME g.key.snonce = 0, g.key # NoKey
               PROVE  /\ g.key.anonce < gr
                      /\ \A b \in Aps : B[b].gtk = g.key.anonce => g.pn <= B[b].gpn
    BY DEF GroupOk
  <2>1. g.key.anonce < fr /\ g.key.anonce \in Nat
        /\ \A b \in Aps : A[b].gtk = g.key.anonce => g.pn <= A[b].gpn
    BY <1>10 DEF GroupOk, Keys
  <2>2. g.key.anonce < gr BY <1>6, <2>1
  <2>3. ASSUME q.gtk = g.key.anonce
        PROVE  g.pn <= q.gpn
    <3>1. q.gtk = p.gtk /\ q.gpn >= p.gpn BY <1>2, <2>1, <2>3
    <3>2. g.pn <= p.gpn /\ p.gpn \in Nat BY <1>4, <2>1, <2>3, <3>1 DEF p
    <3> QED BY <1>4, <1>10, <3>1, <3>2
  <2> QED BY <1>3, <2>1, <2>2, <2>3
<1>11. ASSUME NEW m \in AirFrames, Airs(a, q, m)
       PROVE  AirOk(B, gr, n, m)
  <2>1. /\ q.key.anonce \in Nat /\ q.key.snonce \in Nat /\ q.anonce \in Nat
        /\ q.ptk.snonce \in Nat
    BY KeyTypes
  <2>2. q.key # NoKey => q.key.snonce # 0 BY <1>2, <2>1 DEF ApOk
  <2>3. CASE Plain(a, m)
    <3>1. m.key = NoKey /\ m.body.kind = "None" BY <2>3 DEF Plain, NoBody
    <3> QED BY <3>1 DEF AirOk, GroupOk
  <2>4. CASE q.wait # "None" /\ Says(a, q, m)
    <3>1. GroupOk(B, gr, m) BY <2>2, <2>4 DEF GroupOk, Says
    <3>2. q.wait \in {"Msg2", "Msg4", "Group2"} BY <2>4 DEF ApType
    <3>3. CASE q.wait = "Msg2"
      <4>1. m.body.kind = "Msg1" /\ m.body.anonce = q.anonce /\ m.key = q.key
        BY <2>4, <3>3 DEF Says
      <4>2. m.key # NoKey => m.body.anonce > m.key.anonce
        BY <1>2, <2>1, <3>3, <4>1 DEF ApOk
      <4> QED BY <3>1, <4>1, <4>2 DEF AirOk
    <3>4. CASE q.wait = "Msg4"
      <4>1. /\ m.body.kind = "Msg3" /\ m.body.anonce = q.anonce /\ m.body.mic = q.ptk
            /\ m.body.rsn = "real"
        BY <2>4, <3>4 DEF Says
      <4>2. q.ptk.anonce = q.anonce /\ q.ptk.snonce <= n BY <1>2, <3>4 DEF ApOk
      <4> QED BY <3>1, <4>1, <4>2 DEF AirOk
    <3>5. CASE q.wait = "Group2"
      <4>1. m.body.kind = "Group1" /\ m.body.mic = q.key /\ m.body.rsn = "real"
        BY <2>4, <3>5 DEF Says
      <4>2. q.key.snonce <= n BY <1>2, <3>5 DEF ApOk
      <4> QED BY <3>1, <4>1, <4>2 DEF AirOk
    <3> QED BY <3>2, <3>3, <3>4, <3>5
  <2>5. CASE Carries(a, q, m)
    <3>1. m.body.kind = "None" BY <2>5 DEF Carries, NoBody
    <3>2. GroupOk(B, gr, m)
      <4> SUFFICES ASSUME m.key.snonce = 0, m.key # NoKey
                   PROVE  /\ m.key.anonce < gr
                          /\ \A b \in Aps : B[b].gtk = m.key.anonce => m.pn <= B[b].gpn
        BY DEF GroupOk
      <4>1. m.key = GroupKey(q.gtk) /\ m.pn = q.gpn BY <2>2, <2>5 DEF Carries
      <4>2. m.key.anonce = q.gtk /\ q.gtk # 0 BY <4>1 DEF GroupKey, NoKey
      <4>3. q.gtk < gr BY <1>2 DEF ApOk
      <4>4. \A b \in Aps : B[b].gtk = q.gtk => b = a BY <1>3, <1>8, <4>2
      <4> QED BY <1>3, <1>4, <4>1, <4>2, <4>3, <4>4
    <3> QED BY <3>1, <3>2 DEF AirOk
  <2> QED BY <1>11, <2>3, <2>4, <2>5 DEF Airs
<1> QED BY <1>3, <1>6, <1>9, <1>10, <1>11 DEF B

\* What the station is told: an AP's message 3 has the AP's own advertisement,
\* and a message 1 under the PTK starts a later handshake.
Told(s, k) ==
    /\ k.kind \in {"Msg3", "Group1"} => k.rsn = "real"
    /\ k.kind = "Msg1" /\ ptk_valid(s.sup) => k.anonce > s.sup.ptk.anonce

\* The PTK of s is kept or is followed by a later one.
Later(s, t) ==
    ptk_valid(s.sup) => ptk_valid(t.sup) /\ s.sup.ptk.anonce <= t.sup.ptk.anonce

LEMMA SupTypes ==
    ASSUME NEW s \in StaType
    PROVE  /\ s.sup \in SupType /\ s.joins \in Nat
           /\ s.sup.cand \in Keys /\ s.sup.ptk \in Keys
           /\ s.sup.ptk.anonce \in Nat /\ s.sup.cand.anonce \in Nat
           /\ s.sup.rx_replay \in Int /\ s.sup.gtk \in Nat
           /\ s.sup.ptk_gen \in Nat /\ s.sup.gtk_gen \in Nat
BY DEF StaType, SupType, Keys

\* Two keys of one join that have the same ANonce are one key.
LEMMA SameKey ==
    ASSUME NEW x \in Keys, NEW y \in Keys, x.anonce = y.anonce, x.snonce = y.snonce
    PROVE  x = y
BY DEF Keys

LEMMA PtkOfNames ==
    ASSUME NEW s \in SupType, NEW k \in EapolKeys, PtkOf(s, k) # NoKey
    PROVE  /\ PtkOf(s, k) = s.cand \/ (PtkOf(s, k) = s.ptk /\ ptk_valid(s))
           /\ PtkOf(s, k).anonce = k.anonce
BY DEF PtkOf

\* The supplicant hears k.
LEMMA HearsKeys ==
    ASSUME NEW s \in StaType, SupInv(s), s.joins >= 1, NEW k \in EapolKeys, Told(s, k),
           NEW t \in StaType, Hears(s, k, t), t.state \in {"FourWay", "Connected"}
    PROVE  /\ SupInv(t) /\ Later(s, t)
           /\ on_eapol(s.sup, k).out # NoReply => AnswerOk(t, on_eapol(s.sup, k).out)
<1> DEFINE u == s.sup
           v == t.sup
           r == on_eapol(u, k)
<1>1. /\ u \in SupType /\ v \in SupType /\ u.ptk \in Keys /\ u.cand \in Keys
      /\ u.ptk.anonce \in Nat /\ u.cand.anonce \in Nat /\ v.ptk.anonce \in Nat
      /\ k.anonce \in Nat /\ k.replay \in Nat /\ s.joins \in Nat
  BY SupTypes DEF EapolKeys
<1>2. /\ v = r.s /\ SameJoin(s, t) /\ Keyed(s) /\ Keyed(t) BY DEF Hears, Keyed
<1>3. /\ u.st # "Idle" /\ u.snonce = s.joins /\ u.rsn = s.rsn
      /\ u.st = "Done" <=> ptk_valid(u)
      /\ u.cand # NoKey => u.cand.snonce = s.joins
      /\ u.m1 # NoReply => u.m1.kind = "Msg2" /\ u.m1.mic.snonce = s.joins
      /\ ptk_valid(u) => /\ u.ptk.snonce = s.joins /\ s.rsn = "real"
                         /\ u.last.kind \in {"Msg4", "Group2"} /\ u.last.mic = u.ptk
                         /\ u.last.replay = u.rx_replay
                         /\ u.cand # NoKey => u.cand.anonce > u.ptk.anonce
      /\ ~ ptk_valid(u) => u.rx_replay = -1 /\ u.last = NoReply /\ u.gtk = 0
  BY <1>2 DEF SupInv
<1>4. t.joins = s.joins /\ t.rsn = s.rsn BY <1>2 DEF SameJoin
<1>5. Unmoved(u, k, r) \/ Derives(u, k, r) \/ Installs(u, k, r) \/ Regroups(u, k, r)
  BY <1>1, EapolFields
<1> HIDE DEF r
<1>6. CASE Unmoved(u, k, r)
  <2>1. v = u BY <1>2, <1>6 DEF Unmoved
  <2>2. SupInv(t) BY <1>2, <1>3, <1>4, <2>1 DEF SupInv
  <2>3. Later(s, t) BY <1>1, <2>1 DEF Later
  <2>4. ASSUME r.out # NoReply
        PROVE  AnswerOk(t, r.out)
    <3>1. CASE r.out = u.m1 BY <1>3, <1>4, <2>4, <3>1 DEF AnswerOk
    <3>2. CASE r.out = u.last
      <4>1. ptk_valid(u) BY <1>3, <2>4, <3>2
      <4> QED BY <1>1, <1>3, <1>4, <2>1, <3>2, <4>1 DEF AnswerOk
    <3> QED BY <1>6, <2>4, <3>1, <3>2 DEF Unmoved
  <2> QED BY <2>2, <2>3, <2>4 DEF r
<1>7. CASE Derives(u, k, r)
  <2> DEFINE e == derive_ptk(k.anonce, u.snonce)
  <2>1. /\ v.cand = e /\ v.m1 = r.out /\ r.out.mic = e /\ r.out.kind = "Msg2"
        /\ v.snonce = u.snonce /\ v.rsn = u.rsn
        /\ v.st = (IF u.st = "WaitMsg1" THEN "WaitMsg3" ELSE u.st)
        /\ v.ptk = u.ptk /\ v.gtk = u.gtk /\ v.rx_replay = u.rx_replay /\ v.last = u.last
        /\ k.kind = "Msg1"
    BY <1>2, <1>7 DEF Derives, Identity
  <2>2. e.anonce = k.anonce /\ e.snonce = s.joins BY <1>3 DEF derive_ptk
  <2> HIDE DEF e
  <2>3. ptk_valid(v) <=> ptk_valid(u) BY <2>1 DEF ptk_valid
  <2>4. v.st # "Idle" /\ (v.st = "Done" <=> ptk_valid(v)) BY <1>3, <2>1, <2>3
  <2>5. ptk_valid(u) => k.anonce > u.ptk.anonce BY <2>1 DEF Told
  <2>6. SupInv(t)
    BY <1>2, <1>3, <1>4, <2>1, <2>2, <2>3, <2>4, <2>5 DEF SupInv
  <2>7. Later(s, t) BY <1>1, <2>1, <2>3 DEF Later
  <2>8. AnswerOk(t, r.out) BY <1>4, <2>1, <2>2 DEF AnswerOk
  <2> QED BY <2>6, <2>7, <2>8 DEF r
<1>8. CASE Installs(u, k, r)
  <2> DEFINE key == PtkOf(u, k)
  <2>1. /\ key # NoKey /\ k.rsn = u.rsn /\ k.kind = "Msg3"
        /\ r.out.kind = "Msg4" /\ r.out.mic = key /\ r.out.replay = k.replay
        /\ v.snonce = u.snonce /\ v.rsn = u.rsn /\ v.ptk = key
        /\ v.cand = (IF u.cand = key THEN NoKey ELSE u.cand) /\ v.m1 = u.m1
        /\ v.st = "Done" /\ v.rx_replay = k.replay /\ v.last = r.out
    BY <1>2, <1>8 DEF Installs, Identity
  <2>2. /\ key = u.cand \/ (key = u.ptk /\ ptk_valid(u))
        /\ key.anonce = k.anonce
    BY <1>1, <2>1, PtkOfNames
  <2> HIDE DEF key
  <2>3. key.snonce = s.joins BY <1>3, <2>1, <2>2
  <2>4. s.rsn = "real" BY <1>3, <2>1 DEF Told
  <2>5. ptk_valid(v) BY <2>1 DEF ptk_valid
  <2>6. v.cand # NoKey => v.cand.snonce = s.joins /\ v.cand.anonce > key.anonce
    BY <1>3, <2>1, <2>2
  <2>7. SupInv(t)
    BY <1>2, <1>3, <1>4, <2>1, <2>3, <2>4, <2>5, <2>6 DEF SupInv
  <2>8. Later(s, t) BY <1>1, <1>3, <2>1, <2>2, <2>5 DEF Later
  <2>9. AnswerOk(t, r.out) BY <1>1, <1>4, <2>1, <2>3, <2>5 DEF AnswerOk
  <2> QED BY <2>7, <2>8, <2>9 DEF r
<1>9. CASE Regroups(u, k, r)
  <2>1. /\ ptk_valid(u) /\ u.st = "Done"
        /\ r.out.kind = "Group2" /\ r.out.mic = u.ptk /\ r.out.replay = k.replay
        /\ v.snonce = u.snonce /\ v.rsn = u.rsn /\ v.ptk = u.ptk
        /\ v.cand = u.cand /\ v.m1 = u.m1
        /\ v.st = "Done" /\ v.rx_replay = k.replay /\ v.last = r.out
    BY <1>2, <1>9 DEF Regroups, Identity
  <2>2. ptk_valid(v) BY <2>1 DEF ptk_valid
  <2>3. SupInv(t) BY <1>2, <1>3, <1>4, <2>1, <2>2 DEF SupInv
  <2>4. Later(s, t) BY <1>1, <2>1, <2>2 DEF Later
  <2>5. AnswerOk(t, r.out) BY <1>3, <1>4, <2>1 DEF AnswerOk
  <2> QED BY <2>3, <2>4, <2>5 DEF r
<1> QED BY <1>5, <1>6, <1>7, <1>8, <1>9

\* The other steps of the machine.
LEMMA CalmKeys ==
    ASSUME NEW s, StaOk(s), SupInv(s), AnswersInv(s), NEW t \in StaType,
           Calm(s, t) \/ Pops(s, t)
    PROVE  SupInv(t) /\ AnswersInv(t) /\ s.joins <= t.joins
<1>1. s \in StaType /\ s.sup \in SupType /\ s.joins \in Nat
  BY SupTypes DEF StaOk
<1>2. Forgotten(forget(s.sup)) BY <1>1, ForgetFields
<1>3. ASSUME t.sup = forget(s.sup), ~ Keyed(t)
      PROVE  SupInv(t)
  BY <1>2, <1>3, SupConstants DEF SupInv, Forgotten, ptk_valid
<1>4. ASSUME t.sup = s.sup, SameJoin(s, t), Keyed(t) <=> Keyed(s)
      PROVE  SupInv(t)
  BY <1>4 DEF SupInv, SameJoin
<1>5. ASSUME t.tx = s.tx, t.sup = s.sup, SameJoin(s, t)
      PROVE  AnswersInv(t)
  BY <1>5 DEF AnswersInv, AnswerOk, SameJoin
<1>6. CASE Rests(s, t)
  <2>1. SupInv(t) BY <1>4, <1>6 DEF Rests, Keyed
  <2> QED BY <1>1, <1>5, <1>6, <2>1 DEF Rests, SameJoin
<1>7. CASE Ends(s, t) \/ Starts(s, t)
  <2>1. t.sup = forget(s.sup) /\ ~ Keyed(t) /\ s.joins <= t.joins
    BY <1>1, <1>7 DEF Ends, Starts, Listening, Keyed, SameJoin
  <2>2. SupInv(t) BY <1>3, <2>1
  <2> DEFINE d == Frame(s, "Deauth", NoReply)
             f == Frame(t, "Auth", NoReply)
  <2>3. t.tx = <<>> \/ t.tx = <<d>> \/ t.tx = <<f>> \/ t.tx = <<d, f>>
    BY <1>7 DEF Ends, Starts
  <2>4. /\ d.type # "Eapol" /\ d.body = NoReply /\ f.type # "Eapol" /\ f.body = NoReply
    BY DEF Frame
  <2> HIDE DEF d, f
  <2>5. \A i \in 1..Len(t.tx) : t.tx[i] = d \/ t.tx[i] = f
    <3>1. CASE t.tx = <<>> BY <3>1, EmptySeq
    <3>2. CASE t.tx = <<d>> BY <3>2, ShortQueues
    <3>3. CASE t.tx = <<f>> BY <3>3, ShortQueues
    <3>4. CASE t.tx = <<d, f>>
      <4>1. Len(t.tx) = 2 /\ t.tx[1] = d /\ t.tx[2] = f BY <3>4, ShortQueues
      <4> QED BY <4>1
    <3> QED BY <2>3, <3>1, <3>2, <3>3, <3>4
  <2>6. AnswersInv(t) BY <2>4, <2>5 DEF AnswersInv
  <2> QED BY <2>1, <2>2, <2>6
<1>8. CASE Requests(s, t)
  <2>1. SameJoin(s, t) /\ t.sup = s.sup /\ ~ Keyed(s) /\ ~ Keyed(t)
    BY <1>8 DEF Requests, Asking, Keyed
  <2>2. SupInv(t) BY <1>4, <2>1
  <2>3. PICK type \in {"Auth", "Assoc"} : t.tx = Append(s.tx, Frame(s, type, NoReply))
    BY <1>8 DEF Requests
  <2> DEFINE f == Frame(s, type, NoReply)
             n == Len(s.tx)
  <2>4. f.type # "Eapol" /\ f.body = NoReply BY DEF Frame
  <2>5. s.bssid \in Aps BY <1>8 DEF Requests, Asking, StaOk, HomeInv, Listening
  <2>6. f \in Frames BY <1>1, <2>3, <2>5, FrameType, SupConstants
  <2>7. s.tx \in Seq(Frames) BY <1>1 DEF StaType
  <2> HIDE DEF f
  <2>8. /\ n \in Nat /\ Len(t.tx) = n + 1 /\ t.tx[n + 1] = f
        /\ \A i \in 1..n : t.tx[i] = s.tx[i]
    BY <2>3, <2>6, <2>7, AppendProperties, LenProperties DEF f
  <2>9. \A i \in 1..n : IF s.tx[i].type = "Eapol" THEN AnswerOk(s, s.tx[i].body)
                                                  ELSE s.tx[i].body = NoReply
    BY DEF AnswersInv
  <2> HIDE DEF n
  <2>10. \A i \in 1..n + 1 : i \in 1..n \/ i = n + 1 BY <2>8
  <2>11. AnswersInv(t)
    BY <2>1, <2>4, <2>8, <2>9, <2>10 DEF AnswersInv, AnswerOk, SameJoin
  <2> QED BY <1>1, <2>1, <2>2, <2>11 DEF SameJoin
<1>9. CASE Associates(s, t)
  <2>1. SameJoin(s, t) /\ t.tx = s.tx /\ ~ Keyed(s) /\ s.state = "Associating"
    BY <1>9 DEF Associates, Keyed
  <2>2. s.bssid \in Aps /\ s.joins <= t.joins
    BY <1>1, <2>1 DEF StaOk, HomeInv, Listening, SameJoin
  <2>3. \A i \in 1..Len(s.tx) : s.tx[i].type # "Eapol"
    BY <2>1 DEF StaOk, QueueInv, Placed, Asking
  <2>4. AnswersInv(t) BY <2>1, <2>3 DEF AnswersInv
  <2>5. CASE s.security = "Open"
    <3>1. t.sup = s.sup /\ ~ Keyed(t) BY <1>9, <2>5 DEF Associates, Keyed
    <3> QED BY <1>4, <2>1, <2>2, <2>4, <3>1
  <2>6. CASE s.security # "Open"
    <3>1. t.sup = start(s.sup, s.joins, s.rsn) /\ Keyed(t)
      BY <1>9, <2>6 DEF Associates, Keyed
    <3>2. s.rsn \in Rsns BY <1>1 DEF StaType
    <3>3. /\ t.sup.st = "WaitMsg1" /\ t.sup.snonce = s.joins /\ t.sup.rsn = s.rsn
          /\ t.sup.cand = NoKey /\ t.sup.ptk = NoKey /\ t.sup.gtk = 0 /\ t.sup.rx_replay = -1
          /\ t.sup.last = NoReply /\ t.sup.m1 = NoReply
      BY <1>1, <3>1, <3>2, StartFields
    <3>4. SupInv(t) BY <2>1, <3>1, <3>3 DEF SupInv, ptk_valid, SameJoin
    <3> QED BY <2>2, <2>4, <3>4
  <2> QED BY <2>5, <2>6
<1>10. CASE Pops(s, t)
  <2>1. SupInv(t) BY <1>4, <1>10 DEF Pops, Keyed
  <2>2. s.tx \in Seq(Frames) /\ s.tx # <<>> /\ t.tx = Tail(s.tx)
    BY <1>1, <1>10 DEF StaType, Pops
  <2> DEFINE n == Len(s.tx)
  <2>3. /\ n \in Nat /\ Len(t.tx) = n - 1
        /\ \A i \in 1..n - 1 : t.tx[i] = s.tx[i + 1]
    BY <2>2, HeadTailProperties, LenProperties
  <2>4. \A i \in 1..n : IF s.tx[i].type = "Eapol" THEN AnswerOk(s, s.tx[i].body)
                                                  ELSE s.tx[i].body = NoReply
    BY DEF AnswersInv
  <2> HIDE DEF n
  <2>5. \A i \in 1..n - 1 : i + 1 \in 1..n BY <2>3
  <2>6. t.sup = s.sup /\ t.joins = s.joins BY <1>10 DEF Pops, SameJoin
  <2>7. AnswersInv(t) BY <2>3, <2>4, <2>5, <2>6 DEF AnswersInv, AnswerOk
  <2> QED BY <1>1, <2>1, <2>6, <2>7
<1> QED BY <1>6, <1>7, <1>8, <1>9, <1>10 DEF Calm

\* The answers of a station that has heard k.
LEMMA HearsAnswers ==
    ASSUME NEW s, StaOk(s), SupInv(s), AnswersInv(s), NEW k \in EapolKeys, Told(s, k),
           NEW t \in StaType, HearsClear(s, k, t) \/ HearsProtected(s, k, t)
    PROVE  /\ SupInv(t) /\ AnswersInv(t) /\ t.joins = s.joins /\ Later(s, t)
           /\ on_eapol(s.sup, k).out # NoReply => AnswerOk(t, on_eapol(s.sup, k).out)
<1> DEFINE b == on_eapol(s.sup, k).out
           f == Frame(s, "Eapol", b)
<1>1. Hears(s, k, t) BY DEF HearsClear, HearsProtected
<1>2. /\ s \in StaType /\ SameJoin(s, t) /\ s.state \in {"FourWay", "Connected"}
  BY <1>1 DEF StaOk, Hears, Keyed
<1>3. t.state \in {"FourWay", "Connected"} BY <1>2 DEF HearsClear, HearsProtected, Promoted
<1>4. s.joins >= 1 /\ s.bssid \in Aps BY <1>2 DEF StaOk, HomeInv, Listening
<1>5. /\ SupInv(t) /\ Later(s, t)
      /\ b # NoReply => AnswerOk(t, b)
  BY <1>1, <1>2, <1>3, <1>4, HearsKeys
<1>6. b \in Replies BY <1>2, EapolFields DEF StaType, Results
<1>7. /\ t.tx = s.tx \/ (b # NoReply /\ t.tx = Append(s.tx, f)) BY DEF HearsClear, HearsProtected
<1>8. f \in Frames /\ f.body = b /\ f.type = "Eapol"
  BY <1>2, <1>4, <1>6, FrameType DEF Frame
<1> HIDE DEF b, f
<1> DEFINE n == Len(s.tx)
<1>9. s.tx \in Seq(Frames) /\ n \in Nat BY <1>2, LenProperties DEF StaType
<1>10. \A i \in 1..n : IF s.tx[i].type = "Eapol" THEN AnswerOk(t, s.tx[i].body)
                                                 ELSE s.tx[i].body = NoReply
  <2> SUFFICES ASSUME NEW i \in 1..n, s.tx[i].type = "Eapol"
               PROVE  AnswerOk(t, s.tx[i].body)
    BY DEF AnswersInv
  <2>1. AnswerOk(s, s.tx[i].body) BY DEF AnswersInv
  <2>2. s.tx[i].body \in Replies
    <3>1. s.tx[i] \in Frames BY <1>9, ElementOfSeq
    <3> QED BY <3>1 DEF Frames
  <2>3. s.tx[i].body.mic.anonce \in Nat BY <2>2 DEF Replies, Keys
  <2>4. s.sup.ptk.anonce \in Nat /\ t.sup.ptk.anonce \in Nat BY <1>2, SupTypes
  <2> QED BY <1>2, <1>5, <2>1, <2>3, <2>4 DEF AnswerOk, Later, SameJoin
<1>11. AnswersInv(t)
  <2>1. CASE t.tx = s.tx BY <1>10, <2>1 DEF AnswersInv
  <2>2. CASE b # NoReply /\ t.tx = Append(s.tx, f)
    <3>1. /\ Len(t.tx) = n + 1 /\ t.tx[n + 1] = f
          /\ \A i \in 1..n : t.tx[i] = s.tx[i]
      BY <1>8, <1>9, <2>2, AppendProperties
    <3>2. AnswerOk(t, f.body) BY <1>5, <1>8, <2>2
    <3> HIDE DEF n
    <3>3. \A i \in 1..n + 1 : i \in 1..n \/ i = n + 1 BY <1>9
    <3> QED BY <1>8, <1>10, <3>1, <3>2, <3>3 DEF AnswersInv
  <2> QED BY <1>7, <2>1, <2>2
<1> QED BY <1>2, <1>5, <1>11 DEF b, SameJoin

\* The keys of the whole, the second part of the invariant.
KeyInv ==
    /\ TypeInv /\ SupInv(sta) /\ AnswersInv(sta)
    /\ ApInv(ap, fresh, sta.joins)
    /\ \A m \in air : AirOk(ap, fresh, sta.joins, m)
    /\ \A g \in got : GotOk(ap, fresh, sta.joins, g)

\* More joins take nothing away.
LEMMA MoreJoins ==
    ASSUME NEW A \in [Aps -> ApType], NEW fr, NEW n \in Nat, NEW j \in Nat, n <= j
    PROVE  /\ ApInv(A, fr, n) => ApInv(A, fr, j)
           /\ \A m \in AirFrames : AirOk(A, fr, n, m) => AirOk(A, fr, j, m)
           /\ \A g \in [key : Keys, pn : Nat] : GotOk(A, fr, n, g) => GotOk(A, fr, j, g)
<1>1. \A a \in Aps : ApOk(A[a], fr, n) => ApOk(A[a], fr, j) BY KeyTypes DEF ApOk
<1>2. ApInv(A, fr, n) => ApInv(A, fr, j) BY <1>1 DEF ApInv
<1>3. \A m \in AirFrames : AirOk(A, fr, n, m) => AirOk(A, fr, j, m)
  <2> SUFFICES ASSUME NEW m \in AirFrames, AirOk(A, fr, n, m) PROVE AirOk(A, fr, j, m)
    OBVIOUS
  <2>1. m.body.mic.snonce \in Nat BY DEF AirFrames, EapolKeys, Keys
  <2> QED BY <2>1 DEF AirOk
<1>4. \A g \in [key : Keys, pn : Nat] : GotOk(A, fr, n, g) => GotOk(A, fr, j, g)
  <2> SUFFICES ASSUME NEW g \in [key : Keys, pn : Nat], GotOk(A, fr, n, g)
               PROVE  GotOk(A, fr, j, g)
    OBVIOUS
  <2>1. g.key.snonce \in Nat BY DEF Keys
  <2> QED BY <2>1 DEF GotOk
<1> QED BY <1>2, <1>3, <1>4

\* An AP turns.
LEMMA ApKeys ==
    ASSUME KeyInv, NEW a \in Aps, NEW q, NEW sky \in SUBSET air, ApMoves(a, q, sky),
           Turns(a, ap[a], q, fresh, fresh', sta.joins)
    PROVE  /\ ApInv(ap', fresh', sta.joins)
           /\ \A m \in air' : AirOk(ap', fresh', sta.joins, m)
           /\ \A g \in got : GotOk(ap', fresh', sta.joins, g)
           /\ \A m \in air' : m \in sky \/ (m \in AirFrames /\ Airs(a, q, m))
<1>1. /\ ap \in [Aps -> ApType] /\ fresh \in Nat /\ sta.joins \in Nat
      /\ air \subseteq AirFrames /\ got \subseteq [key : Keys, pn : Nat]
  BY DEF KeyInv, TypeInv, TypeOK, StaType
<1>2. /\ ApInv(ap, fresh, sta.joins)
      /\ \A m \in air : AirOk(ap, fresh, sta.joins, m)
      /\ \A g \in got : GotOk(ap, fresh, sta.joins, g)
  BY DEF KeyInv
<1>3. q \in ApType /\ ap' = [ap EXCEPT ![a] = q] BY DEF ApMoves
<1>4. /\ ApInv(ap', fresh', sta.joins)
      /\ \A g : /\ g.key \in Keys /\ g.pn \in Nat /\ GroupOk(ap, fresh, g)
                => GroupOk(ap', fresh', g)
      /\ \A m \in AirFrames : Airs(a, q, m) => AirOk(ap', fresh', sta.joins, m)
  BY <1>1, <1>2, <1>3, ApInvStep
<1>5. PICK ms \in SUBSET AirFrames : air' = Aired(sky, ms) /\ \A m \in ms : Airs(a, q, m)
  BY DEF ApMoves
<1>6. \A m \in air' : m \in sky \/ (m \in AirFrames /\ Airs(a, q, m)) BY <1>5 DEF Aired
<1>7. \A g \in got : GotOk(ap', fresh', sta.joins, g)
  <2> SUFFICES ASSUME NEW g \in got PROVE GotOk(ap', fresh', sta.joins, g) OBVIOUS
  <2>1. g.key \in Keys /\ g.pn \in Nat /\ GotOk(ap, fresh, sta.joins, g) BY <1>1, <1>2
  <2>2. GroupOk(ap', fresh', g) BY <1>4, <2>1 DEF GotOk
  <2> QED BY <2>1, <2>2 DEF GotOk
<1>8. \A m \in air' : AirOk(ap', fresh', sta.joins, m)
  <2> SUFFICES ASSUME NEW m \in sky PROVE AirOk(ap', fresh', sta.joins, m) BY <1>4, <1>6
  <2>1. m.key \in Keys /\ m.pn \in Nat /\ AirOk(ap, fresh, sta.joins, m)
    BY <1>1, <1>2 DEF AirFrames
  <2>2. GroupOk(ap', fresh', m) BY <1>4, <2>1 DEF AirOk
  <2> QED BY <2>1, <2>2 DEF AirOk
<1> QED BY <1>4, <1>6, <1>7, <1>8

\* What the data plane accepts under either key.
LEMMA GotKeys ==
    ASSUME KeyInv, NEW m \in air, m.key # NoKey, m.pn \in Nat \ {0}, m.key.snonce <= sta.joins,
           NEW g, g = [key |-> m.key, pn |-> m.pn]
    PROVE  GotOk(ap, fresh, sta.joins, g)
<1>1. GroupOk(ap, fresh, m) BY DEF KeyInv, AirOk
<1>2. g.key = m.key /\ g.pn = m.pn OBVIOUS
<1>3. g.pn >= 1 BY <1>2
<1> QED BY <1>1, <1>2, <1>3 DEF GotOk, GroupOk

\* The messages an AP sent, as the station hears them.
LEMMA ToldByAir ==
    ASSUME KeyInv, NEW m \in air
    PROVE  /\ \A t : HearsClear(sta, m.body, t) => Told(sta, m.body)
           /\ m.key # NoKey /\ m.key = sta.sup.ptk => Told(sta, m.body)
<1>1. AirOk(ap, fresh, sta.joins, m) BY DEF KeyInv
<1>2. ASSUME NEW t, HearsClear(sta, m.body, t)
      PROVE  Told(sta, m.body)
  <2>1. ptk_valid(sta.sup) => m.body.kind = "Msg3"
    BY <1>2 DEF HearsClear, cleartext_eapol_allowed, is_installed_msg3
  <2> QED BY <1>1, <2>1 DEF AirOk, Told
<1>3. m.key # NoKey /\ m.key = sta.sup.ptk => Told(sta, m.body)
  BY <1>1 DEF AirOk, Told
<1> QED BY <1>2, <1>3

\* The first frame of the queue, and a reply the caller sends, are honest.
LEMMA HeadHonest ==
    ASSUME KeyInv, sta.tx # <<>>
    PROVE  Honest(Head(sta.tx), sta.joins)
<1>1. /\ sta.tx \in Seq(Frames) /\ sta.joins \in Nat
      /\ Listening(sta) => sta.joins >= 1
  BY DEF KeyInv, TypeInv, StaOk, StaType, HomeInv
<1>2. 1 \in 1..Len(sta.tx) /\ Head(sta.tx) = sta.tx[1]
  BY <1>1, EmptySeq
<1>3. /\ Placed(sta, sta.tx[1], 1)
      /\ IF sta.tx[1].type = "Eapol" THEN AnswerOk(sta, sta.tx[1].body)
                                     ELSE sta.tx[1].body = NoReply
  BY <1>2 DEF KeyInv, TypeInv, StaOk, QueueInv, AnswersInv
<1>4. CASE sta.tx[1].type = "Eapol"
  <2>1. sta.joins \in 1..sta.joins BY <1>1, <1>3, <1>4 DEF Placed
  <2>2. sta.tx[1].body.mic.snonce = sta.joins BY <1>3, <1>4 DEF AnswerOk
  <2> QED BY <1>2, <2>1, <2>2 DEF Honest
<1>5. CASE sta.tx[1].type # "Eapol"
  <2>1. sta.tx[1].body.kind = "None" BY <1>3, <1>5, SupConstants
  <2> QED BY <1>2, <2>1 DEF Honest
<1> QED BY <1>4, <1>5

LEMMA KeyInit == Init => KeyInv
<1> SUFFICES ASSUME Init PROVE KeyInv OBVIOUS
<1>1. TypeInv BY TypeInit
<1>2. sta = NewStation /\ air = {} /\ got = {} BY DEF Init
<1>3. /\ sta.state = "Idle" /\ sta.sup = NewSup /\ sta.tx = <<>> /\ sta.joins = 0
  BY <1>2 DEF NewStation
<1>4. SupInv(sta) BY <1>3 DEF SupInv, Keyed, Forgotten, NewSup, ptk_valid
<1>5. AnswersInv(sta)
  <2>1. Len(sta.tx) = 0 BY <1>3, EmptySeq
  <2> QED BY <2>1 DEF AnswersInv
<1>6. ApInv(ap, fresh, sta.joins)
  <2>1. /\ ap \in [Aps -> ApType] /\ fresh \in Nat
        /\ \A a \in Aps : /\ ap[a].wait = "None" /\ ap[a].key = NoKey
                          /\ ap[a].gtk < fresh /\ ap[a].anonce = 0
        /\ \A a, b \in Aps : ap[a].gtk = ap[b].gtk /\ ap[a].gtk # 0 => a = b
    BY FirstAps
  <2>2. fresh >= 1
    <3>1. Cardinality(Secured) \in Nat BY LinkAssumption, FS_CardinalityType
    <3> QED BY <3>1 DEF Init
  <2>3. \A a \in Aps : ApOk(ap[a], fresh, sta.joins) BY <2>1, <2>2 DEF ApOk
  <2> QED BY <2>1, <2>2, <2>3 DEF ApInv
<1> QED BY <1>1, <1>2, <1>4, <1>5, <1>6 DEF KeyInv

\* The parts that a step of the station leaves to show.
LEMMA KeyParts ==
    ASSUME KeyInv, TypeInv', SupInv(sta'), AnswersInv(sta'), sta.joins <= sta'.joins,
           UNCHANGED <<ap, fresh>>, air' \subseteq air,
           \A g \in got' : g \in got \/ GotOk(ap, fresh, sta.joins, g)
    PROVE  KeyInv'
<1>1. /\ ap \in [Aps -> ApType] /\ sta.joins \in Nat /\ sta'.joins \in Nat
      /\ air \subseteq AirFrames /\ got' \subseteq [key : Keys, pn : Nat]
  BY DEF KeyInv, TypeInv, TypeOK, StaType
<1>2. /\ ApInv(ap, fresh, sta.joins)
      /\ \A m \in air : AirOk(ap, fresh, sta.joins, m)
      /\ \A g \in got' : GotOk(ap, fresh, sta.joins, g)
  BY DEF KeyInv
<1>3. /\ ApInv(ap, fresh, sta'.joins)
      /\ \A m \in air : AirOk(ap, fresh, sta'.joins, m)
      /\ \A g \in got' : GotOk(ap, fresh, sta'.joins, g)
  BY <1>1, <1>2, MoreJoins
<1> QED BY <1>3 DEF KeyInv

\* Every answer that the station gives under the PTK is honest.
LEMMA ProtectedReply ==
    ASSUME KeyInv, NEW m \in air, ReceiveProtected(m)
    PROVE  /\ HearsProtected(sta, m.body, sta') /\ Keyed(sta) /\ m.body \in EapolKeys
           /\ SupInv(sta') /\ AnswersInv(sta') /\ sta'.joins = sta.joins
           /\ m.key.snonce = sta.joins /\ sta.joins >= 1
           /\ Told(sta, m.body)
           /\ \A f \in Frames :
                f = Frame(sta, "Eapol", eapol_reply(sta, m.body).out) /\ f.body # NoReply
                => AnswerOk(sta', f.body) /\ Honest(f, sta.joins)
<1>1. /\ sta' \in StaType /\ m.body \in EapolKeys
      /\ (~ Keyed(sta) /\ Rests(sta, sta')) \/ HearsProtected(sta, m.body, sta')
      /\ connected(sta) /\ m.key # NoKey /\ m.key = sta.sup.ptk
  BY ReceiveProtectedFields DEF KeyInv
<1>2. TypeInv /\ StaOk(sta) /\ sta \in StaType /\ SupInv(sta) /\ AnswersInv(sta)
  BY DEF KeyInv, TypeInv, StaOk
<1>3. ptk_valid(sta.sup) BY <1>1 DEF ptk_valid
<1>4. Keyed(sta) /\ m.key.snonce = sta.joins BY <1>1, <1>2, <1>3 DEF SupInv
<1>5. Told(sta, m.body) BY <1>1, ToldByAir
<1>6. HearsProtected(sta, m.body, sta') BY <1>1, <1>4
<1> DEFINE b == on_eapol(sta.sup, m.body).out
<1>7. /\ SupInv(sta') /\ AnswersInv(sta') /\ sta'.joins = sta.joins
      /\ b # NoReply => AnswerOk(sta', b)
  BY <1>1, <1>2, <1>5, <1>6, HearsAnswers
<1>8. sta.joins >= 1 /\ sta.joins \in Nat
  BY <1>2, <1>4 DEF StaOk, HomeInv, Listening, Keyed, StaType
<1>9. eapol_reply(sta, m.body).out = b BY <1>1, <1>2, <1>4, ReplyFields
<1> HIDE DEF b
<1>10. ASSUME NEW f \in Frames, f = Frame(sta, "Eapol", b), f.body # NoReply
       PROVE  AnswerOk(sta', f.body) /\ Honest(f, sta.joins)
  <2>1. f.body = b BY <1>10 DEF Frame
  <2>2. AnswerOk(sta', f.body) BY <1>7, <1>10, <2>1
  <2>3. f.body.mic.snonce = sta.joins BY <1>7, <2>2 DEF AnswerOk
  <2>4. sta.joins \in 1..sta.joins BY <1>8
  <2> QED BY <2>2, <2>3, <2>4 DEF Honest
<1> QED BY <1>1, <1>4, <1>5, <1>6, <1>7, <1>8, <1>9, <1>10

LEMMA KeyNext == KeyInv /\ [Next]_vars => KeyInv'
<1> SUFFICES ASSUME KeyInv, [Next]_vars PROVE KeyInv' OBVIOUS
<1>1. TypeInv /\ TypeInv' BY TypeNext DEF KeyInv
<1>2. /\ sta \in StaType /\ sta' \in StaType /\ StaOk(sta) /\ SupInv(sta) /\ AnswersInv(sta)
      /\ sta.joins \in Nat /\ air \subseteq AirFrames /\ ap \in [Aps -> ApType] /\ fresh \in Nat
  BY <1>1 DEF KeyInv, TypeInv, TypeOK, StaType
<1>3. ASSUME sta' = sta, UNCHANGED <<ap, fresh>>, air' \subseteq air,
             \A g \in got' : g \in got \/ GotOk(ap, fresh, sta.joins, g)
      PROVE  KeyInv'
  BY <1>1, <1>2, <1>3, KeyParts
<1>4. ASSUME Calm(sta, sta'), UNCHANGED <<ap, fresh, got>>, air' \subseteq air
      PROVE  KeyInv'
  <2>1. SupInv(sta') /\ AnswersInv(sta') /\ sta.joins <= sta'.joins
    BY <1>2, <1>4, CalmKeys
  <2> QED BY <1>1, <1>4, <2>1, KeyParts
<1>5. ASSUME NEW k \in EapolKeys, HearsClear(sta, k, sta'), Told(sta, k),
             UNCHANGED <<ap, fresh, got>>, air' \subseteq air
      PROVE  KeyInv'
  <2>1. SupInv(sta') /\ AnswersInv(sta') /\ sta'.joins = sta.joins
    BY <1>2, <1>5, HearsAnswers
  <2>2. sta.joins <= sta'.joins BY <1>2, <2>1
  <2> QED BY <1>1, <1>5, <2>1, <2>2, KeyParts
<1>6. CASE \/ Configure \/ Leave \/ LinkLost \/ Clock
           \/ \E e \in Entries : Join(e)
           \/ \E a \in Aps : Beacon(a)
  BY <1>1, <1>4, <1>6, CalmActions
<1>7. CASE Transmit
  <2>1. /\ Pops(sta, sta') /\ UNCHANGED got /\ Head(sta.tx) \in Frames
    BY <1>1, <1>7, TransmitFields
  <2>2. SupInv(sta') /\ AnswersInv(sta') /\ sta'.joins = sta.joins
    BY <1>2, <2>1, CalmKeys DEF Pops, SameJoin
  <2>3. CASE UNCHANGED <<ap, air, fresh>>
    <3>1. sta.joins <= sta'.joins BY <1>2, <2>2
    <3> QED BY <1>1, <2>1, <2>2, <2>3, <3>1, KeyParts
  <2>4. CASE ~ UNCHANGED <<ap, air, fresh>>
    <3> DEFINE f == Head(sta.tx)
    <3>1. PICK q : ApMoves(f.to, q, air) /\ HeardBy(f.to, ap[f.to], f, q, fresh, fresh')
      BY <1>1, <1>7, <2>4, TransmitFields
    <3>2. Honest(f, sta.joins) BY <2>1, HeadHonest DEF Pops
    <3>3. f \in Frames /\ f.to \in Aps BY <2>1 DEF Frames
    <3> HIDE DEF f
    <3>4. Turns(f.to, ap[f.to], q, fresh, fresh', sta.joins) BY <3>1, <3>2, <3>3 DEF Turns
    <3>5. /\ ApInv(ap', fresh', sta.joins)
          /\ \A m \in air' : AirOk(ap', fresh', sta.joins, m)
          /\ \A g \in got : GotOk(ap', fresh', sta.joins, g)
      BY <3>1, <3>3, <3>4, ApKeys
    <3> QED BY <1>1, <2>1, <2>2, <3>5 DEF KeyInv
  <2> QED BY <2>3, <2>4
<1>8. ASSUME NEW a \in Aps,
             ApRetransmit(a) \/ ApDeauth(a) \/ ApRekey(a) \/ ApData(a) \/ ApOff(a)
      PROVE  KeyInv'
  <2>1. PICK q : ApMoves(a, q, air) /\ Alone(ap[a], q, fresh, fresh')
    BY <1>2, <1>8, ApAloneFields
  <2>2. UNCHANGED <<sta, got>>
    BY <1>8 DEF ApRetransmit, ApDeauth, ApRekey, ApData, ApOff
  <2>3. Turns(a, ap[a], q, fresh, fresh', sta.joins) BY <2>1 DEF Turns
  <2>4. /\ ApInv(ap', fresh', sta.joins)
        /\ \A m \in air' : AirOk(ap', fresh', sta.joins, m)
        /\ \A g \in got : GotOk(ap', fresh', sta.joins, g)
    BY <2>1, <2>3, ApKeys
  <2> QED BY <1>1, <1>2, <2>2, <2>4 DEF KeyInv
<1>9. ASSUME NEW a \in Aps, Stray(a)
      PROVE  KeyInv'
  <2>1. PICK k \in EapolKeys : /\ k.kind = "Msg1"
                               /\ Calm(sta, sta') \/ HearsClear(sta, k, sta')
    BY <1>1, <1>9, StrayFields
  <2>2. UNCHANGED <<ap, fresh, got>> /\ air' \subseteq air BY <1>1, <1>9, StrayFields
  <2>3. HearsClear(sta, k, sta') => Told(sta, k)
    BY <2>1 DEF HearsClear, cleartext_eapol_allowed, is_installed_msg3, Told
  <2> QED BY <1>4, <1>5, <2>1, <2>2, <2>3
<1>10. ASSUME NEW m \in air, Receive(m)
       PROVE  KeyInv'
  <2>1. /\ Calm(sta, sta') \/ HearsClear(sta, m.body, sta')
        /\ UNCHANGED <<ap, fresh, got>> /\ air' \subseteq air
    BY <1>1, <1>10, ReceiveFields
  <2>2. m.body \in EapolKeys BY <1>2 DEF AirFrames
  <2>3. HearsClear(sta, m.body, sta') => Told(sta, m.body) BY ToldByAir
  <2> QED BY <1>4, <1>5, <2>1, <2>2, <2>3
<1>11. ASSUME NEW m \in air, ReceiveGroup(m)
       PROVE  KeyInv'
  <2> DEFINE g == [key |-> m.key, pn |-> m.pn]
  <2>1. /\ m.key # NoKey /\ m.key = GroupKey(sta.sup.gtk) /\ m.pn \in Nat \ {0}
        /\ got' = got \cup {g} /\ air' \subseteq air /\ UNCHANGED <<sta, ap, fresh>>
    BY <1>1, <1>11, ReceiveGroupFields
  <2>2. m.key.snonce <= sta.joins BY <1>2, <2>1 DEF GroupKey
  <2>3. GotOk(ap, fresh, sta.joins, g) BY <2>1, <2>2, GotKeys
  <2> QED BY <1>3, <2>1, <2>3
<1>12. ASSUME NEW m \in air, ReceiveProtected(m)
       PROVE  KeyInv'
  <2> DEFINE g == [key |-> m.key, pn |-> m.pn]
  <2>1. /\ SupInv(sta') /\ AnswersInv(sta') /\ sta'.joins = sta.joins
        /\ m.key.snonce = sta.joins
    BY <1>12, ProtectedReply
  <2>2. m.key # NoKey /\ m.pn \in Nat \ {0} /\ got' = got \cup {g}
    BY <1>1, <1>12, ReceiveProtectedFields
  <2>3. m.key.snonce <= sta.joins /\ sta.joins <= sta'.joins BY <1>2, <2>1
  <2>4. GotOk(ap, fresh, sta.joins, g) BY <2>2, <2>3, GotKeys
  <2> HIDE DEF g
  <2>5. CASE air' \subseteq air /\ UNCHANGED <<ap, fresh>>
    BY <1>1, <2>1, <2>2, <2>3, <2>4, <2>5, KeyParts
  <2>6. CASE ~ (air' \subseteq air /\ UNCHANGED <<ap, fresh>>)
    <3>1. PICK f, q :
            /\ f \in Frames
            /\ f = Frame(sta, "Eapol", eapol_reply(sta, m.body).out)
            /\ f.body # NoReply
            /\ ApMoves(f.to, q, air \ {m})
            /\ HeardBy(f.to, ap[f.to], f, q, fresh, fresh')
      BY <1>1, <1>12, <2>6, ReceiveProtectedFields
    <3> f \in Frames BY <3>1
    <3>2. Honest(f, sta.joins) BY <1>12, <3>1, ProtectedReply
    <3>3. f.to \in Aps /\ air \ {m} \in SUBSET air BY DEF Frames
    <3>4. Turns(f.to, ap[f.to], q, fresh, fresh', sta.joins) BY <3>1, <3>2 DEF Turns
    <3>5. /\ ApInv(ap', fresh', sta.joins)
          /\ \A x \in air' : AirOk(ap', fresh', sta.joins, x)
          /\ \A x \in got : GotOk(ap', fresh', sta.joins, x)
      BY <3>1, <3>3, <3>4, ApKeys
    <3>6. GotOk(ap', fresh', sta.joins, g)
      <4>1. ap' = [ap EXCEPT ![f.to] = q] /\ q \in ApType BY <3>1 DEF ApMoves
      <4>2. ApInv(ap, fresh, sta.joins) BY DEF KeyInv
      <4>3. g.key \in Keys /\ g.pn \in Nat
        <5>1. m \in AirFrames BY <1>2
        <5> QED BY <5>1 DEF g, AirFrames
      <4>4. GroupOk(ap, fresh, g) BY <2>4 DEF GotOk
      <4>5. GroupOk(ap', fresh', g)
        BY <1>2, <3>3, <3>4, <4>1, <4>2, <4>3, <4>4, ApInvStep
      <4> QED BY <2>4, <4>5 DEF GotOk
    <3>7. \A x \in got' : GotOk(ap', fresh', sta.joins, x) BY <2>2, <3>5, <3>6
    <3> QED BY <1>1, <2>1, <3>5, <3>7 DEF KeyInv
  <2> QED BY <2>5, <2>6
<1>13. ASSUME NEW m \in air, Lose(m)
       PROVE  KeyInv'
  BY <1>3, <1>13 DEF Lose
<1>14. ASSUME NEW m \in air, ReceiveUnread(m)
       PROVE  KeyInv'
  BY <1>1, <1>4, <1>14, UnreadFields
<1>15. CASE UNCHANGED vars BY <1>3, <1>15 DEF vars
<1> QED BY <1>6, <1>7, <1>8, <1>9, <1>10, <1>11, <1>12, <1>13, <1>14, <1>15
        DEF Next, CallerStep, RadioStep, ApStep

LEMMA KeyInvariant == Spec => []KeyInv
BY KeyInit, KeyNext, PTL DEF Spec

\* A message in the clear that completes the handshake is answered with a
\* message 4 for the key it left installed.
LEMMA PromotedInTheClear ==
    ASSUME NEW s \in StaType, SupInv(s), NEW k \in EapolKeys, NEW t, HearsClear(s, k, t),
           s.state = "FourWay", t.state = "Connected"
    PROVE  LET n == Len(t.tx)
           IN  /\ n = Len(s.tx) + 1
               /\ t.tx[n].body.kind = "Msg4" /\ t.tx[n].body.mic = t.sup.ptk
<1> DEFINE r == on_eapol(s.sup, k)
           f == Frame(s, "Eapol", r.out)
<1>1. /\ t.sup = r.s /\ cleartext_eapol_allowed(s, k) /\ Keyed(s)
      /\ r.out # NoReply /\ t.tx = Append(s.tx, f) /\ t.state = Promoted(s, t.sup)
  BY DEF HearsClear, Hears
<1>2. t.sup.st = "Done" /\ ptk_valid(t.sup) BY <1>1 DEF Promoted
<1>3. s.sup \in SupType /\ s.tx \in Seq(Frames) BY DEF StaType
<1>4. \/ Unmoved(s.sup, k, r) \/ Derives(s.sup, k, r)
      \/ Installs(s.sup, k, r) \/ Regroups(s.sup, k, r)
  BY <1>3, EapolFields
<1>5. /\ k.kind # "Group1"
      /\ ptk_valid(s.sup) => k.kind = "Msg3"
  BY <1>1 DEF cleartext_eapol_allowed, is_installed_msg3
<1> HIDE DEF r
<1>6. r.out.kind = "Msg4" /\ r.out.mic = t.sup.ptk
  <2>1. CASE Unmoved(s.sup, k, r)
    <3>1. ptk_valid(s.sup) /\ k.kind = "Msg3" BY <1>1, <1>2, <1>5, <2>1 DEF Unmoved
    <3>2. r.out = s.sup.last /\ s.sup.last.kind = AnswerKind[k.kind]
      BY <1>1, <2>1, <3>1 DEF Unmoved
    <3>3. AnswerKind[k.kind] = "Msg4" BY <3>1 DEF AnswerKind
    <3>4. s.sup.last.mic = s.sup.ptk BY <3>1 DEF SupInv
    <3> QED BY <1>1, <2>1, <3>2, <3>3, <3>4 DEF Unmoved
  <2>2. CASE Derives(s.sup, k, r)
    BY <1>1, <1>2, <1>5, <2>2 DEF Derives, ptk_valid
  <2>3. CASE Installs(s.sup, k, r) BY <1>1, <2>3 DEF Installs
  <2>4. CASE Regroups(s.sup, k, r) BY <1>5, <2>4 DEF Regroups
  <2> QED BY <1>4, <2>1, <2>2, <2>3, <2>4
<1>7. f.body = r.out BY DEF Frame
<1> HIDE DEF f
<1>8. Len(t.tx) = Len(s.tx) + 1 /\ t.tx[Len(t.tx)] = f
  <2> DEFINE n == Len(s.tx)
  <2>1. s.tx \in Seq(Frames \cup {f}) /\ f \in Frames \cup {f}
    BY <1>3, SeqMonotonic
  <2>2. Len(t.tx) = n + 1 /\ t.tx[n + 1] = f BY <1>1, <2>1, AppendProperties
  <2> QED BY <2>2
<1> QED BY <1>6, <1>7, <1>8

\* Nothing else takes the machine from the handshake to the data plane.
LEMMA PromotedStep ==
    ASSUME KeyInv, [Next]_vars, sta.state = "FourWay", sta'.state = "Connected"
    PROVE  LET n == Len(sta'.tx)
           IN  /\ n = Len(sta.tx) + 1
               /\ sta'.tx[n].body.kind = "Msg4" /\ sta'.tx[n].body.mic = sta'.sup.ptk
<1>1. TypeInv /\ sta \in StaType /\ SupInv(sta) /\ air \subseteq AirFrames
  BY DEF KeyInv, TypeInv, StaOk, TypeOK
<1>2. ~ Calm(sta, sta') /\ ~ Pops(sta, sta') /\ sta' # sta
  BY DEF Calm, Rests, Ends, Starts, Requests, Associates, Pops, Listening, Asking
<1>3. CASE \/ Configure \/ Leave \/ LinkLost \/ Clock
           \/ \E e \in Entries : Join(e)
           \/ \E a \in Aps : Beacon(a)
  BY <1>1, <1>2, <1>3, CalmActions
<1>4. CASE Transmit BY <1>1, <1>2, <1>4, TransmitFields
<1>5. ASSUME NEW a \in Aps,
             ApRetransmit(a) \/ ApDeauth(a) \/ ApRekey(a) \/ ApData(a) \/ ApOff(a)
      PROVE  FALSE
  BY <1>2, <1>5 DEF ApRetransmit, ApDeauth, ApRekey, ApData, ApOff
<1>6. CASE \E a \in Aps : Stray(a)
  <2>1. \E k \in EapolKeys : HearsClear(sta, k, sta') BY <1>1, <1>2, <1>6, StrayFields
  <2> QED BY <1>1, <2>1, PromotedInTheClear
<1>7. CASE \E m \in air : Receive(m)
  <2>1. PICK m \in air : HearsClear(sta, m.body, sta') BY <1>1, <1>2, <1>7, ReceiveFields
  <2>2. m.body \in EapolKeys BY <1>1 DEF AirFrames
  <2> QED BY <1>1, <2>1, <2>2, PromotedInTheClear
<1>8. ASSUME NEW m \in air,
             ReceiveGroup(m) \/ ReceiveProtected(m) \/ ReceiveUnread(m) \/ Lose(m)
      PROVE  FALSE
  <2>1. CASE ReceiveGroup(m) BY <1>2, <2>1 DEF ReceiveGroup
  <2>2. CASE ReceiveProtected(m) BY <2>2 DEF ReceiveProtected, Accepts, connected
  <2>3. CASE ReceiveUnread(m) BY <1>1, <1>2, <2>3, UnreadFields
  <2>4. CASE Lose(m) BY <1>2, <2>4 DEF Lose
  <2> QED BY <1>8, <2>1, <2>2, <2>3, <2>4
<1>9. CASE UNCHANGED vars BY <1>2, <1>9 DEF vars
<1> QED BY <1>3, <1>4, <1>5, <1>6, <1>7, <1>8, <1>9 DEF Next, CallerStep, RadioStep, ApStep

\* A WPA2 station starts to carry traffic (promote_if_keyed) only in the step
\* that queues the message 4 for the key it installed, for any number of APs,
\* joins, rekeys and stray messages 1.
THEOREM ConnectedWithMsg4 == Spec => PromotedWithMsg4
<1>1. ASSUME KeyInv, [Next]_vars
      PROVE  [sta.state = "FourWay" /\ sta'.state = "Connected" =>
                LET n == Len(sta'.tx)
                IN  /\ n = Len(sta.tx) + 1
                    /\ sta'.tx[n].body.kind = "Msg4"
                    /\ sta'.tx[n].body.mic = sta'.sup.ptk]_vars
  BY <1>1, PromotedStep
<1> QED BY <1>1, KeyInvariant, PTL DEF Spec, PromotedWithMsg4

------------------------------------------------------------------------------
(* The station and the AP it has joined hold keys of the same exchange, and *)
(* nothing under way can make the station go back: the part of the          *)
(* invariant that NoFrameTwice, KeysAgree and AskedIsAnswered need.         *)

\* An AP that no longer knows the station.
Dead(p) == p.key = NoKey /\ p.wait = "None"

\* No request can reach the AP any more in this join.
Engaged(s) ==
    ~ Asking(s) /\ \A i \in 1..Len(s.tx) : s.tx[i].type \notin {"Auth", "Assoc"}

\* A message that carries keys, made with a PTK of the join under way.
Current(s, m) ==
    /\ m.from = s.bssid /\ m.body.kind \in {"Msg3", "Group1"}
    /\ m.body.mic.snonce = s.joins

\* Message k is not ahead of AP p.
Behind(k, p) ==
    /\ k.replay <= p.replay /\ k.gtk <= p.gtk
    /\ k.replay = p.replay => k.gtk = p.gtk

\* A GTK that k would install is one under which nothing beyond the sequence
\* counter that k carries has been accepted.
Advances(s, k, G) ==
    Keyed(s) /\ k.replay > s.sup.rx_replay =>
        /\ k.gtk >= s.sup.gtk
        /\ k.gtk # s.sup.gtk => \A g \in G : g.key = GroupKey(k.gtk) => g.pn <= k.rsc

CurOk(s, p, k, G) ==
    /\ Engaged(s) /\ Advances(s, k, G)
    /\ Dead(p) \/ Behind(k, p)
    /\ k.kind = "Msg3" /\ Keyed(s) =>
         \/ Dead(p) \/ (p.wait = "Msg4" /\ p.ptk = k.mic)
         \/ ptk_valid(s.sup) /\ k.mic.anonce <= s.sup.ptk.anonce
    /\ k.kind = "Group1" => Dead(p) \/ p.key # NoKey

\* Of two messages the later one never has the older GTK.
GtksInOrder(s, sky) ==
    \A m, n \in sky :
        Current(s, m) /\ Current(s, n) /\ m.body.replay <= n.body.replay
        => m.body.gtk <= n.body.gtk

CurInv(s, p, sky, G) ==
    /\ \A m \in sky : Current(s, m) => CurOk(s, p, m.body, G)
    /\ GtksInOrder(s, sky)

PeerInv(s, p) ==
    /\ p.wait = "Msg4" /\ p.ptk.snonce = s.joins => Engaged(s)
    /\ p.key # NoKey /\ p.key.snonce = s.joins => Engaged(s)
    /\ ptk_valid(s.sup) =>
         /\ Engaged(s)
         /\ Dead(p) \/ p.key = s.sup.ptk \/ (p.wait = "Msg4" /\ p.ptk = s.sup.ptk)
         /\ Dead(p) \/ (s.sup.rx_replay <= p.replay /\ s.sup.gtk <= p.gtk)
         /\ s.sup.last.kind = "Group2" => Dead(p) \/ p.key # NoKey

LinkInv(s, A, sky, G) ==
    s.bssid \in Aps => PeerInv(s, A[s.bssid]) /\ CurInv(s, A[s.bssid], sky, G)

\* A frame that has been accepted is one that the windows refuse from now on.
Spent(s, W, g) ==
    /\ g.key.snonce >= 1 /\ g.key.snonce = s.joins /\ Listening(s) =>
         /\ ptk_valid(s.sup) /\ g.key.anonce <= s.sup.ptk.anonce
         /\ g.key = s.sup.ptk => ~ Acceptable(W.pair[Tid], g.pn)
    /\ g.key = GroupKey(s.sup.gtk) => ~ Acceptable(W.group[Tid], g.pn)

LEMMA BodyTypes ==
    ASSUME NEW k \in EapolKeys
    PROVE  /\ k.replay \in Nat /\ k.gtk \in Nat /\ k.rsc \in Nat /\ k.anonce \in Nat
           /\ k.mic \in Keys /\ k.mic.anonce \in Nat /\ k.mic.snonce \in Nat
BY DEF EapolKeys, Keys

LEMMA FewerUnderWay ==
    ASSUME NEW s, NEW A, NEW G, NEW sky, LinkInv(s, A, sky, G), NEW less \in SUBSET sky
    PROVE  LinkInv(s, A, less, G)
BY DEF LinkInv, CurInv, GtksInOrder

\* What is engaged stays engaged, but for a new join.
LEMMA EngagedStays ==
    ASSUME NEW s, StaOk(s), Engaged(s), NEW t \in StaType,
           Rests(s, t) \/ Ends(s, t) \/ Pops(s, t)
    PROVE  Engaged(t)
<1>1. s.tx \in Seq(Frames) BY DEF StaOk, StaType
<1>2. CASE Rests(s, t) BY <1>2 DEF Rests, Engaged, Asking
<1>3. CASE Ends(s, t)
  <2> DEFINE d == Frame(s, "Deauth", NoReply)
  <2>1. ~ Asking(t) BY <1>3 DEF Ends, Listening, Asking
  <2>2. t.tx = <<>> \/ t.tx = <<d>> BY <1>3 DEF Ends
  <2>3. d.type = "Deauth" BY DEF Frame
  <2> HIDE DEF d
  <2>4. Len(<<d>>) = 1 /\ <<d>>[1] = d BY ShortQueues
  <2>5. \A i \in 1..Len(t.tx) : t.tx[i].type = "Deauth" BY <2>2, <2>3, <2>4
  <2> QED BY <2>1, <2>5 DEF Engaged
<1>4. CASE Pops(s, t)
  <2>1. s.tx # <<>> /\ t.tx = Tail(s.tx) /\ t.state = s.state BY <1>4 DEF Pops
  <2> DEFINE n == Len(s.tx)
  <2>2. /\ n \in Nat /\ Len(t.tx) = n - 1
        /\ \A i \in 1..n - 1 : t.tx[i] = s.tx[i + 1]
    BY <1>1, <2>1, HeadTailProperties, LenProperties, EmptySeq
  <2> HIDE DEF n
  <2>3. \A i \in 1..n - 1 : i + 1 \in 1..n BY <2>2
  <2>4. \A i \in 1..n : s.tx[i].type \notin {"Auth", "Assoc"} BY DEF Engaged, n
  <2> QED BY <2>1, <2>2, <2>3, <2>4 DEF Engaged, Asking
<1> QED BY <1>2, <1>3, <1>4

\* The keys of a supplicant and what it says of them.
Held(s, t) ==
    t.ptk = s.ptk /\ t.gtk = s.gtk /\ t.rx_replay = s.rx_replay /\ t.last = s.last

LEMMA SameLink ==
    ASSUME NEW s, NEW t, NEW A, NEW sky, NEW G, LinkInv(s, A, sky, G), SameJoin(s, t),
           Engaged(s) => Engaged(t), Keyed(t) => Keyed(s),
           Held(s.sup, t.sup) \/ (~ Keyed(t) /\ ~ ptk_valid(t.sup))
    PROVE  LinkInv(t, A, sky, G)
<1> SUFFICES ASSUME t.bssid \in Aps
             PROVE  PeerInv(t, A[t.bssid]) /\ CurInv(t, A[t.bssid], sky, G)
  BY DEF LinkInv
<1> DEFINE p == A[s.bssid]
<1>1. t.bssid = s.bssid /\ t.joins = s.joins BY DEF SameJoin
<1>2. PeerInv(s, p) /\ CurInv(s, p, sky, G) BY <1>1 DEF LinkInv
<1> HIDE DEF p
<1>3. PeerInv(t, p) BY <1>1, <1>2 DEF PeerInv, Held, ptk_valid
<1>4. \A m : Current(t, m) <=> Current(s, m) BY <1>1 DEF Current
<1>5. ASSUME NEW k, CurOk(s, p, k, G)
      PROVE  CurOk(t, p, k, G)
  BY <1>5 DEF CurOk, Advances, Held, ptk_valid
<1>6. CurInv(t, p, sky, G) BY <1>2, <1>4, <1>5 DEF CurInv, GtksInOrder
<1> QED BY <1>1, <1>3, <1>6 DEF p

LEMMA NothingCurrent ==
    ASSUME NEW t, NEW A, NEW sky, NEW G, ~ ptk_valid(t.sup),
           \A m \in sky : ~ Current(t, m),
           t.bssid \in Aps =>
             LET p == A[t.bssid]
             IN  /\ p.wait = "Msg4" => p.ptk.snonce # t.joins
                 /\ p.key # NoKey => p.key.snonce # t.joins
    PROVE  LinkInv(t, A, sky, G)
BY DEF LinkInv, PeerInv, CurInv, GtksInOrder

\* While a request may still reach the AP, it has no key of the join.
LEMMA NotEngaged ==
    ASSUME NEW s \in StaType, s.bssid \in Aps, NEW A, NEW sky, NEW G, LinkInv(s, A, sky, G),
           ~ Engaged(s)
    PROVE  /\ ~ ptk_valid(s.sup) /\ \A m \in sky : ~ Current(s, m)
           /\ A[s.bssid].wait = "Msg4" => A[s.bssid].ptk.snonce # s.joins
           /\ A[s.bssid].key # NoKey => A[s.bssid].key.snonce # s.joins
BY DEF LinkInv, PeerInv, CurInv, CurOk

LEMMA CalmLink ==
    ASSUME NEW s, StaOk(s), SupInv(s), NEW t \in StaType, SupInv(t), Calm(s, t) \/ Pops(s, t),
           NEW A \in [Aps -> ApType], NEW fr, ApInv(A, fr, s.joins),
           NEW sky \in SUBSET AirFrames, \A m \in sky : AirOk(A, fr, s.joins, m),
           NEW G, LinkInv(s, A, sky, G)
    PROVE  LinkInv(t, A, sky, G)
<1>1. s \in StaType /\ HomeInv(s) /\ s.joins \in Nat BY DEF StaOk, StaType
<1>2. CASE Rests(s, t) \/ Pops(s, t)
  <2>1. SameJoin(s, t) /\ t.sup = s.sup /\ t.state = s.state /\ t.security = s.security
    BY <1>2 DEF Rests, Pops
  <2>2. Held(s.sup, t.sup) /\ (Keyed(t) => Keyed(s)) BY <2>1 DEF Held, Keyed
  <2>3. Engaged(s) => Engaged(t) BY <1>2, EngagedStays
  <2> QED BY <2>1, <2>2, <2>3, SameLink
<1>3. CASE Ends(s, t)
  <2>1. SameJoin(s, t) /\ ~ Keyed(t) BY <1>3 DEF Ends, Listening, Keyed
  <2>2. ~ ptk_valid(t.sup) BY <2>1 DEF SupInv
  <2>3. Engaged(s) => Engaged(t) BY <1>3, EngagedStays
  <2> QED BY <2>1, <2>2, <2>3, SameLink
<1>4. CASE Starts(s, t)
  <2>1. t.joins = s.joins + 1 /\ t.bssid \in Aps /\ ~ Keyed(t) BY <1>4 DEF Starts, Keyed
  <2>2. ~ ptk_valid(t.sup) BY <2>1 DEF SupInv
  <2>3. ASSUME NEW m \in sky PROVE ~ Current(t, m)
    <3>1. m.body.kind \in {"Msg3", "Group1"} => m.body.mic.snonce <= s.joins BY DEF AirOk
    <3>2. m.body \in EapolKeys /\ m.body.mic.snonce \in Nat BY BodyTypes DEF AirFrames
    <3> QED BY <1>1, <2>1, <3>1, <3>2 DEF Current
  <2>4. ApOk(A[t.bssid], fr, s.joins) BY <2>1 DEF ApInv
  <2> DEFINE p == A[t.bssid]
  <2>5. /\ p.wait = "Msg4" => p.ptk.snonce # t.joins
        /\ p.key # NoKey => p.key.snonce # t.joins
    <3>1. /\ p.wait = "Msg4" => p.ptk.snonce \in 1..s.joins
          /\ p.key # NoKey => p.key.snonce \in 1..s.joins
      BY <2>4 DEF ApOk
    <3> HIDE DEF p
    <3>2. t.joins \notin 1..s.joins BY <1>1, <2>1
    <3> QED BY <3>1, <3>2
  <2> QED BY <2>2, <2>3, <2>5, NothingCurrent
<1>5. CASE Requests(s, t) \/ Associates(s, t)
  <2>1. SameJoin(s, t) /\ Asking(s) BY <1>5 DEF Requests, Associates, Asking
  <2>2. ~ Engaged(s) /\ s.bssid \in Aps BY <1>1, <2>1 DEF Engaged, HomeInv, Listening, Asking
  <2>3. t.bssid = s.bssid /\ t.joins = s.joins BY <2>1 DEF SameJoin
  <2>4. ~ ptk_valid(s.sup) BY <1>1, <2>2, NotEngaged
  <2>5. ~ ptk_valid(t.sup)
    <3>1. CASE t.sup = s.sup BY <2>4, <3>1
    <3>2. CASE t.sup = start(s.sup, s.joins, s.rsn)
      <4>1. s.sup \in SupType /\ s.joins \in Nat /\ s.rsn \in Rsns BY <1>1 DEF StaType
      <4>2. start(s.sup, s.joins, s.rsn).ptk = NoKey BY <4>1, StartFields
      <4> QED BY <3>2, <4>2 DEF ptk_valid
    <3> QED BY <1>5, <3>1, <3>2 DEF Requests, Associates
  <2>6. \A m \in sky : ~ Current(t, m) BY <1>1, <2>2, <2>3, NotEngaged DEF Current
  <2> QED BY <1>1, <2>2, <2>3, <2>5, <2>6, NotEngaged, NothingCurrent
<1> QED BY <1>2, <1>3, <1>4, <1>5 DEF Calm

LEMMA CalmSpent ==
    ASSUME NEW s, StaOk(s), SupInv(s), NEW t \in StaType, SupInv(t), Calm(s, t) \/ Pops(s, t),
           NEW W, NEW g \in [key : Keys, pn : Nat], g.key # NoKey, g.key.snonce <= s.joins,
           Spent(s, W, g)
    PROVE  Spent(t, W, g)
<1>1. s \in StaType /\ s.joins \in Nat /\ g.key \in Keys /\ g.key.snonce \in Nat
  BY DEF StaOk, StaType, Keys
<1>2. g.key # GroupKey(0) BY DEF GroupKey, NoKey
<1>3. CASE Rests(s, t) \/ Pops(s, t)
  BY <1>3 DEF Rests, Pops, SameJoin, Spent, Listening
<1>4. ASSUME ~ Keyed(t) PROVE g.key # GroupKey(t.sup.gtk)
  BY <1>2, <1>4 DEF SupInv, Forgotten
<1>5. CASE Ends(s, t) BY <1>4, <1>5 DEF Ends, Spent, Listening, Keyed
<1>6. CASE Starts(s, t)
  <2>1. t.joins = s.joins + 1 /\ ~ Keyed(t) BY <1>6 DEF Starts, Keyed
  <2> QED BY <1>1, <1>4, <2>1 DEF Spent
<1>7. CASE Requests(s, t) \/ Associates(s, t)
  <2>1. t.joins = s.joins /\ Asking(s) BY <1>7 DEF Requests, Associates, Asking, SameJoin
  <2>2. ~ Keyed(s) /\ Listening(s) BY <2>1 DEF Asking, Keyed, Listening
  <2>3. ~ ptk_valid(s.sup) BY <2>2 DEF SupInv
  <2>4. ~ (g.key.snonce >= 1 /\ g.key.snonce = s.joins) BY <2>2, <2>3 DEF Spent
  <2>5. t.sup.gtk = 0
    <3>1. CASE t.sup = s.sup BY <2>3, <3>1 DEF SupInv
    <3>2. CASE t.sup = start(s.sup, s.joins, s.rsn)
      <4>1. s.sup \in SupType /\ s.joins \in Nat /\ s.rsn \in Rsns BY <1>1 DEF StaType
      <4> QED BY <3>2, <4>1, StartFields
    <3> QED BY <1>7, <3>1, <3>2 DEF Requests, Associates
  <2> QED BY <1>2, <2>1, <2>4, <2>5 DEF Spent
<1> QED BY <1>3, <1>5, <1>6, <1>7 DEF Calm

\* The supplicant has taken the keys that message k carries.
Takes(s, k, t) ==
    /\ k.kind \in {"Msg3", "Group1"} /\ k.replay > s.sup.rx_replay
    /\ k.mic.snonce = s.joins
    /\ t.sup.ptk = k.mic /\ t.sup.rx_replay = k.replay /\ Groups(s.sup, k, t.sup)
    /\ t.sup.ptk_gen = IF s.sup.ptk = k.mic THEN s.sup.ptk_gen ELSE s.sup.ptk_gen + 1
    /\ t.sup.last.kind = "Group2" => k.kind = "Group1"
    /\ k.kind = "Group1" => ptk_valid(s.sup) /\ k.mic = s.sup.ptk
    /\ ptk_valid(s.sup) => k.mic = s.sup.ptk \/ k.mic.anonce > s.sup.ptk.anonce

LEMMA HearsTakes ==
    ASSUME NEW s \in StaType, SupInv(s), NEW k \in EapolKeys, NEW t, Hears(s, k, t)
    PROVE  (Held(s.sup, t.sup) /\ SameGens(s.sup, t.sup)) \/ Takes(s, k, t)
<1> DEFINE u == s.sup
           r == on_eapol(u, k)
<1>1. u \in SupType /\ t.sup = r.s BY DEF StaType, Hears
<1>2. Unmoved(u, k, r) \/ Derives(u, k, r) \/ Installs(u, k, r) \/ Regroups(u, k, r)
  BY <1>1, EapolFields
<1> HIDE DEF r
<1>3. CASE Unmoved(u, k, r) BY <1>1, <1>3 DEF Unmoved, Held, SameGens
<1>4. CASE Derives(u, k, r) BY <1>1, <1>4 DEF Derives, Held
<1>5. CASE Installs(u, k, r)
  <2> DEFINE key == PtkOf(u, k)
  <2>1. key # NoKey /\ k.mic = key BY <1>5 DEF Installs
  <2>2. key = u.cand \/ (key = u.ptk /\ ptk_valid(u)) BY <1>1, <2>1, PtkOfNames
  <2> HIDE DEF key
  <2>3. key.snonce = s.joins BY <2>1, <2>2 DEF SupInv
  <2>4. ptk_valid(u) => key = u.ptk \/ key.anonce > u.ptk.anonce BY <2>1, <2>2 DEF SupInv
  <2>5. /\ k.kind = "Msg3" /\ k.replay > u.rx_replay /\ r.s.ptk = key
        /\ r.s.ptk_gen = IF u.ptk = key THEN u.ptk_gen ELSE u.ptk_gen + 1
        /\ Groups(u, k, r.s) /\ r.s.rx_replay = k.replay /\ r.s.last.kind = "Msg4"
    BY <1>5 DEF Installs, key
  <2> QED BY <1>1, <2>1, <2>3, <2>4, <2>5 DEF Takes
<1>6. CASE Regroups(u, k, r)
  <2>1. u.ptk.snonce = s.joins BY <1>6 DEF Regroups, SupInv
  <2> QED BY <1>1, <1>6, <2>1 DEF Regroups, Takes
<1> QED BY <1>2, <1>3, <1>4, <1>5, <1>6

LEMMA HearsEngaged ==
    ASSUME NEW s, StaOk(s), Engaged(s), NEW k \in EapolKeys, NEW t \in StaType,
           HearsClear(s, k, t) \/ HearsProtected(s, k, t)
    PROVE  Engaged(t)
<1>1. s.tx \in Seq(Frames) /\ s \in StaType BY DEF StaOk, StaType
<1>2. Keyed(s) BY DEF HearsClear, HearsProtected, Hears
<1>3. ~ Asking(t) BY <1>2 DEF HearsClear, HearsProtected, Promoted, Keyed, Asking
<1>4. CASE t.tx = s.tx BY <1>3, <1>4 DEF Engaged
<1>5. CASE t.tx # s.tx
  <2> DEFINE f == Frame(s, "Eapol", on_eapol(s.sup, k).out)
             n == Len(s.tx)
  <2>1. t.tx = Append(s.tx, f) BY <1>5 DEF HearsClear, HearsProtected
  <2>2. f.type = "Eapol" BY DEF Frame
  <2> HIDE DEF f
  <2>3. s.tx \in Seq(Frames \cup {f}) /\ f \in Frames \cup {f} BY <1>1, SeqMonotonic
  <2>4. /\ n \in Nat /\ Len(t.tx) = n + 1 /\ t.tx[n + 1] = f
        /\ \A i \in 1..n : t.tx[i] = s.tx[i]
    BY <2>1, <2>3, AppendProperties, LenProperties
  <2>5. \A i \in 1..n : s.tx[i].type \notin {"Auth", "Assoc"} BY DEF Engaged
  <2> HIDE DEF n
  <2>6. \A i \in 1..n + 1 : i \in 1..n \/ i = n + 1 BY <2>4
  <2>7. \A i \in 1..n + 1 : t.tx[i].type \notin {"Auth", "Assoc"} BY <2>2, <2>4, <2>5, <2>6
  <2> QED BY <1>3, <2>4, <2>7 DEF Engaged
<1> QED BY <1>4, <1>5

\* The keys of a message that is current are taken: the AP is as far, and
\* what else is under way is still of use or will be refused.
LEMMA TakesLink ==
    ASSUME NEW s \in StaType, SupInv(s), NEW k \in EapolKeys, NEW t \in StaType,
           SameJoin(s, t), Keyed(s), Engaged(s) => Engaged(t), Takes(s, k, t), s.bssid \in Aps,
           NEW A \in [Aps -> ApType], NEW sky \in SUBSET AirFrames, NEW G,
           LinkInv(s, A, sky, G), NEW m \in sky, m.body = k, m.from = s.bssid
    PROVE  LinkInv(t, A, sky, G)
<1> DEFINE p == A[s.bssid]
<1>1. t.bssid = s.bssid /\ t.joins = s.joins BY DEF SameJoin
<1>2. PeerInv(s, p) /\ CurInv(s, p, sky, G) /\ p \in ApType BY DEF LinkInv
<1> HIDE DEF p
<1>3. Current(s, m) BY DEF Takes, Current
<1>4. CurOk(s, p, k, G) BY <1>2, <1>3 DEF CurInv
<1>5. Engaged(t) BY <1>4 DEF CurOk
<1>6. /\ k.replay \in Nat /\ k.gtk \in Nat /\ k.mic.anonce \in Nat
      /\ s.sup.rx_replay \in Int /\ s.sup.gtk \in Nat /\ s.sup.ptk.anonce \in Nat
      /\ p.replay \in Nat /\ p.gtk \in Nat
  BY <1>2, BodyTypes, SupTypes, KeyTypes
<1>7. /\ k.replay > s.sup.rx_replay /\ t.sup.rx_replay = k.replay /\ t.sup.gtk = k.gtk
      /\ t.sup.ptk = k.mic
  BY DEF Takes, Groups
<1>8. k.gtk >= s.sup.gtk BY <1>4, <1>7 DEF CurOk, Advances
<1>9. PeerInv(t, p)
  <2>1. Dead(p) \/ p.key = k.mic \/ (p.wait = "Msg4" /\ p.ptk = k.mic)
    <3>1. CASE k.mic = s.sup.ptk /\ ptk_valid(s.sup) BY <1>2, <3>1 DEF PeerInv
    <3>2. CASE ~ (k.mic = s.sup.ptk /\ ptk_valid(s.sup))
      <4>1. k.kind = "Msg3" BY <3>2 DEF Takes
      <4>2. ptk_valid(s.sup) => k.mic.anonce > s.sup.ptk.anonce BY <3>2 DEF Takes
      <4>3. ~ (ptk_valid(s.sup) /\ k.mic.anonce <= s.sup.ptk.anonce) BY <1>6, <4>2
      <4> QED BY <1>4, <4>1, <4>3 DEF CurOk
    <3> QED BY <3>1, <3>2
  <2>2. Dead(p) \/ (k.replay <= p.replay /\ k.gtk <= p.gtk) BY <1>4 DEF CurOk, Behind
  <2>3. t.sup.last.kind = "Group2" => Dead(p) \/ p.key # NoKey BY <1>4 DEF Takes, CurOk
  <2> QED BY <1>5, <1>7, <2>1, <2>2, <2>3 DEF PeerInv
<1>10. ASSUME NEW n \in sky, Current(s, n)
       PROVE  CurOk(t, p, n.body, G)
  <2> DEFINE l == n.body
  <2>1. CurOk(s, p, l, G) BY <1>2, <1>10 DEF CurInv
  <2>2. l \in EapolKeys BY DEF AirFrames
  <2>3. l.replay \in Nat /\ l.gtk \in Nat /\ l.mic.anonce \in Nat BY <2>2, BodyTypes
  <2>4. k.replay <= l.replay => k.gtk <= l.gtk
    BY <1>2, <1>3, <1>10 DEF CurInv, GtksInOrder
  <2> HIDE DEF l
  <2>5. Advances(t, l, G)
    <3> SUFFICES ASSUME l.replay > k.replay
                 PROVE  /\ l.gtk >= k.gtk
                        /\ l.gtk # k.gtk =>
                             \A g \in G : g.key = GroupKey(l.gtk) => g.pn <= l.rsc
      BY <1>7 DEF Advances
    <3>1. l.replay > s.sup.rx_replay /\ l.gtk >= k.gtk BY <1>6, <1>7, <2>3, <2>4
    <3>2. /\ l.gtk >= s.sup.gtk
          /\ l.gtk # s.sup.gtk => \A g \in G : g.key = GroupKey(l.gtk) => g.pn <= l.rsc
      BY <2>1, <3>1 DEF CurOk, Advances
    <3>3. l.gtk # k.gtk => l.gtk # s.sup.gtk BY <1>6, <1>8, <2>3, <3>1
    <3> QED BY <3>1, <3>2, <3>3
  <2>6. l.kind = "Msg3" =>
           \/ Dead(p) \/ (p.wait = "Msg4" /\ p.ptk = l.mic)
           \/ ptk_valid(t.sup) /\ l.mic.anonce <= t.sup.ptk.anonce
    <3>1. CASE ptk_valid(s.sup) /\ l.mic.anonce <= s.sup.ptk.anonce
      <4>1. k.mic = s.sup.ptk \/ k.mic.anonce > s.sup.ptk.anonce BY <3>1 DEF Takes
      <4>2. l.mic.anonce <= k.mic.anonce BY <1>6, <2>3, <3>1, <4>1
      <4>3. k.mic # NoKey
        <5>1. CASE k.mic = s.sup.ptk BY <3>1, <5>1 DEF ptk_valid
        <5>2. CASE k.mic.anonce > s.sup.ptk.anonce
          <6>1. k.mic.anonce # 0 BY <1>6, <5>2
          <6> QED BY <6>1, SupConstants
        <5> QED BY <4>1, <5>1, <5>2
      <4> QED BY <1>7, <4>2, <4>3 DEF ptk_valid
    <3>2. CASE ~ (ptk_valid(s.sup) /\ l.mic.anonce <= s.sup.ptk.anonce)
      BY <2>1, <3>2 DEF CurOk
    <3> QED BY <3>1, <3>2
  <2>7. CurOk(t, p, l, G) BY <1>5, <2>1, <2>5, <2>6 DEF CurOk
  <2> QED BY <2>7 DEF l
<1>11. \A n : Current(t, n) <=> Current(s, n) BY <1>1 DEF Current
<1>12. CurInv(t, p, sky, G) BY <1>2, <1>10, <1>11 DEF CurInv, GtksInOrder
<1> QED BY <1>1, <1>9, <1>12 DEF LinkInv, p

LEMMA HearsLink ==
    ASSUME NEW s, StaOk(s), SupInv(s), NEW k \in EapolKeys, NEW t \in StaType,
           HearsClear(s, k, t) \/ HearsProtected(s, k, t),
           NEW A \in [Aps -> ApType], NEW sky \in SUBSET AirFrames, NEW G,
           LinkInv(s, A, sky, G),
           k.kind \in {"Msg3", "Group1"} => \E m \in sky : m.body = k /\ m.from = s.bssid
    PROVE  /\ LinkInv(t, A, sky, G)
           /\ Takes(s, k, t) => Advances(s, k, G)
<1>1. s \in StaType /\ HomeInv(s) BY DEF StaOk
<1>2. Hears(s, k, t) /\ SameJoin(s, t) /\ Keyed(s) BY DEF HearsClear, HearsProtected, Hears
<1>3. s.bssid \in Aps BY <1>1, <1>2 DEF HomeInv, Keyed, Listening
<1>4. Engaged(s) => Engaged(t) BY HearsEngaged
<1>5. CASE Takes(s, k, t)
  <2>1. PICK m \in sky : m.body = k /\ m.from = s.bssid BY <1>5 DEF Takes
  <2>2. LinkInv(t, A, sky, G) BY <1>1, <1>2, <1>3, <1>4, <1>5, <2>1, TakesLink
  <2>3. Current(s, m) BY <1>5, <2>1 DEF Takes, Current
  <2>4. Advances(s, k, G) BY <1>3, <2>1, <2>3 DEF LinkInv, CurInv, CurOk
  <2> QED BY <2>2, <2>4
<1>6. CASE ~ Takes(s, k, t)
  <2>1. Held(s.sup, t.sup) BY <1>1, <1>2, <1>6, HearsTakes
  <2> QED BY <1>2, <1>4, <1>6, <2>1, SameLink
<1> QED BY <1>5, <1>6

\* note_keys: the windows of new keys have seen what was accepted under them.
LEMMA HearsSpent ==
    ASSUME NEW s \in StaType, SupInv(s), NEW k \in EapolKeys, NEW t \in StaType,
           Hears(s, k, t), NEW G, Takes(s, k, t) => Advances(s, k, G), NEW W \in WinType,
           NEW g \in G, g \in [key : Keys, pn : Nat], Spent(s, W, g)
    PROVE  Spent(t, Rekeyed(W, s.sup, t.sup), g)
<1> DEFINE V == Rekeyed(W, s.sup, t.sup)
<1>1. /\ t.joins = s.joins /\ Keyed(s) /\ Listening(s)
  BY DEF Hears, SameJoin, Keyed, Listening
<1>2. /\ s.sup \in SupType /\ t.sup \in SupType /\ s.sup.ptk.anonce \in Nat
      /\ s.sup.ptk_gen \in Nat /\ s.sup.gtk_gen \in Nat
      /\ k.mic.anonce \in Nat /\ k.rsc \in Nat
      /\ g.key \in Keys /\ g.pn \in Nat /\ g.key.anonce \in Nat
  BY SupTypes, BodyTypes DEF Keys
<1>3. /\ t.sup.ptk_gen = s.sup.ptk_gen => V.pair = W.pair
      /\ t.sup.gtk_gen = s.sup.gtk_gen => V.group = W.group
      /\ t.sup.gtk_gen # s.sup.gtk_gen => V.group = seed(t.sup.gtk_rsc)
  BY DEF Rekeyed
<1> HIDE DEF V
<1>4. CASE Held(s.sup, t.sup) /\ SameGens(s.sup, t.sup)
  <2>1. V.pair = W.pair /\ V.group = W.group BY <1>3, <1>4 DEF SameGens
  <2>2. Spent(t, V, g) BY <1>1, <1>4, <2>1 DEF Spent, Held, ptk_valid
  <2> QED BY <2>2 DEF V
<1>5. CASE Takes(s, k, t)
  <2>1. ASSUME g.key.snonce >= 1, g.key.snonce = t.joins
        PROVE  /\ ptk_valid(t.sup) /\ g.key.anonce <= t.sup.ptk.anonce
               /\ g.key = t.sup.ptk => ~ Acceptable(V.pair[Tid], g.pn)
    <3>1. /\ ptk_valid(s.sup) /\ g.key.anonce <= s.sup.ptk.anonce
          /\ g.key = s.sup.ptk => ~ Acceptable(W.pair[Tid], g.pn)
      BY <1>1, <2>1 DEF Spent
    <3>2. t.sup.ptk = k.mic BY <1>5 DEF Takes
    <3>3. CASE k.mic = s.sup.ptk
      <4>1. V.pair = W.pair BY <1>3, <1>5, <3>3 DEF Takes
      <4> QED BY <3>1, <3>2, <3>3, <4>1 DEF ptk_valid
    <3>4. CASE k.mic.anonce > s.sup.ptk.anonce
      <4>1. /\ k.mic.anonce # 0 /\ g.key.anonce <= k.mic.anonce
            /\ g.key.anonce # k.mic.anonce
        BY <1>2, <3>1, <3>4
      <4>2. k.mic # NoKey BY <4>1, SupConstants
      <4> QED BY <3>2, <4>1, <4>2 DEF ptk_valid
    <3> QED BY <1>5, <3>1, <3>3, <3>4 DEF Takes
  <2>2. ASSUME g.key = GroupKey(t.sup.gtk)
        PROVE  ~ Acceptable(V.group[Tid], g.pn)
    <3>1. t.sup.gtk = k.gtk BY <1>5 DEF Takes, Groups
    <3>2. CASE k.gtk = s.sup.gtk
      <4>1. t.sup.gtk_gen = s.sup.gtk_gen BY <1>5, <3>2 DEF Takes, Groups
      <4> QED BY <1>3, <2>2, <3>1, <3>2, <4>1 DEF Spent
    <3>3. CASE k.gtk # s.sup.gtk
      <4>1. t.sup.gtk_gen = s.sup.gtk_gen + 1 /\ t.sup.gtk_rsc = k.rsc
        BY <1>5, <3>3 DEF Takes, Groups
      <4>2. t.sup.gtk_gen # s.sup.gtk_gen BY <1>2, <4>1
      <4>3. V.group = seed(k.rsc) BY <1>3, <4>1, <4>2
      <4>4. k.replay > s.sup.rx_replay BY <1>5 DEF Takes
      <4>5. g.pn <= k.rsc BY <1>1, <1>5, <2>2, <3>1, <3>3, <4>4 DEF Advances
      <4> QED BY <1>2, <4>3, <4>5, SeedCloses
    <3> QED BY <3>2, <3>3
  <2>3. Spent(t, V, g) BY <2>1, <2>2 DEF Spent
  <2> QED BY <2>3 DEF V
<1> QED BY <1>4, <1>5, HearsTakes

LEMMA PairSpent ==
    ASSUME NEW s \in StaType, SupInv(s), s.joins >= 1, ptk_valid(s.sup),
           NEW n \in Nat \ {0}, NEW W \in WinType, NEW V \in WinType, V.group = W.group,
           V.pair[Tid] = Accepted(W.pair[Tid], n), NEW g \in [key : Keys, pn : Nat],
           Spent(s, W, g) \/ (g.key = s.sup.ptk /\ g.pn = n)
    PROVE  Spent(s, V, g)
<1>1. W.pair[Tid] \in Slots /\ g.pn \in Nat BY TidType DEF WinType, Windows
<1>2. g.pn = n \/ ~ Acceptable(W.pair[Tid], g.pn) => ~ Acceptable(V.pair[Tid], g.pn)
  BY <1>1, WindowCloses
<1>3. CASE Spent(s, W, g) BY <1>2, <1>3 DEF Spent
<1>4. CASE g.key = s.sup.ptk /\ g.pn = n
  <2>1. g.key.snonce = s.joins /\ s.joins # 0 BY <1>4 DEF SupInv
  <2>2. g.key # GroupKey(s.sup.gtk) BY <2>1 DEF GroupKey
  <2>3. g.key.anonce <= s.sup.ptk.anonce BY <1>4, SupTypes
  <2> QED BY <1>2, <1>4, <2>2, <2>3 DEF Spent
<1> QED BY <1>3, <1>4

LEMMA GroupSpent ==
    ASSUME NEW s \in StaType, NEW n \in Nat \ {0}, NEW W \in WinType, NEW V \in WinType,
           V.pair = W.pair, V.group[Tid] = Accepted(W.group[Tid], n),
           NEW g \in [key : Keys, pn : Nat],
           Spent(s, W, g) \/ (g.key = GroupKey(s.sup.gtk) /\ g.pn = n)
    PROVE  Spent(s, V, g)
<1>1. W.group[Tid] \in Slots /\ g.pn \in Nat BY TidType DEF WinType, Windows
<1>2. g.pn = n \/ ~ Acceptable(W.group[Tid], g.pn) => ~ Acceptable(V.group[Tid], g.pn)
  BY <1>1, WindowCloses
<1>3. CASE Spent(s, W, g) BY <1>2, <1>3 DEF Spent
<1>4. CASE g.key = GroupKey(s.sup.gtk) /\ g.pn = n
  <2>1. g.key.snonce = 0 BY <1>4 DEF GroupKey
  <2> QED BY <1>2, <1>4, <2>1 DEF Spent
<1> QED BY <1>3, <1>4

\* A frame that is accepted is under a key in use.
LEMMA MoreAccepted ==
    ASSUME NEW s, NEW A, NEW sky \in SUBSET AirFrames, NEW G, LinkInv(s, A, sky, G),
           NEW g0, \A n \in Nat : n # s.sup.gtk => g0.key # GroupKey(n)
    PROVE  LinkInv(s, A, sky, G \cup {g0})
<1> DEFINE p == A[s.bssid]
<1> SUFFICES ASSUME s.bssid \in Aps, NEW m \in sky, Current(s, m)
             PROVE  CurOk(s, p, m.body, G \cup {g0})
  BY DEF LinkInv, CurInv
<1>1. CurOk(s, p, m.body, G) BY DEF LinkInv, CurInv
<1>2. m.body.gtk \in Nat BY DEF AirFrames, EapolKeys
<1>3. Advances(s, m.body, G \cup {g0}) BY <1>1, <1>2 DEF CurOk, Advances
<1> QED BY <1>1, <1>3 DEF CurOk

\* An AP that was p and is q has not gone back, or has let station s go.
Goes(s, p, q) ==
    \/ Dead(q)
    \/ /\ ~ Dead(p)
       /\ \/ q.replay = p.replay /\ q.gtk = p.gtk
          \/ q.replay > p.replay /\ q.gtk >= p.gtk
       /\ p.wait = "Msg4" =>
            \/ q.wait = "Msg4" /\ q.ptk = p.ptk
            \/ ptk_valid(s.sup) /\ p.ptk.anonce <= s.sup.ptk.anonce
       /\ p.key # NoKey => q.key # NoKey

\* What frame f of station s may make its AP do, when sky is under way.
Fits(s, sky, f) ==
    /\ f.type = "Assoc" => ~ ptk_valid(s.sup) /\ \A m \in sky : ~ Current(s, m)
    /\ f.body.kind = "Msg2" => Engaged(s)
    /\ f.body.kind = "Msg4" =>
         ptk_valid(s.sup) /\ f.body.mic.anonce <= s.sup.ptk.anonce

LEMMA GoesPeer ==
    ASSUME NEW s \in StaType, NEW p \in ApType, NEW q \in ApType, NEW fr \in Nat, NEW gr,
           ApOk(p, fr, s.joins), PeerInv(s, p), NEW a, NEW sky,
           \/ Alone(p, q, fr, gr)
           \/ \E f \in Frames : Fits(s, sky, f) /\ HeardBy(a, p, f, q, fr, gr)
    PROVE  /\ PeerInv(s, q)
           /\ Goes(s, p, q) \/ \A m \in sky : ~ Current(s, m)
<1>1. /\ p.replay \in Nat /\ q.replay \in Nat /\ p.gtk \in Nat /\ q.gtk \in Nat
      /\ p.key.anonce \in Nat /\ p.ptk.anonce \in Nat
      /\ s.sup.rx_replay \in Int /\ s.sup.gtk \in Nat /\ s.sup.ptk.anonce \in Nat
  BY KeyTypes, SupTypes
<1>2. ASSUME q.wait = "None", q.key = NoKey
      PROVE  PeerInv(s, q) /\ Goes(s, p, q)
  BY <1>2 DEF PeerInv, Goes, Dead
<1>3. CASE Quits(p, q) BY <1>2, <1>3 DEF Quits
<1>4. ASSUME q.wait = p.wait \/ (p.wait # "Msg4" /\ q.wait # "Msg4" /\ p.key # NoKey),
             SameKeys(p, q), q.replay >= p.replay,
             (q.replay = p.replay /\ q.gtk = p.gtk) \/ (q.replay > p.replay /\ q.gtk >= p.gtk)
      PROVE  PeerInv(s, q) /\ Goes(s, p, q)
  <2>1. Dead(p) => Dead(q) BY <1>4 DEF Dead, SameKeys
  <2>2. q.wait = "Msg4" <=> p.wait = "Msg4" BY <1>4
  <2>3. s.sup.rx_replay <= p.replay => s.sup.rx_replay <= q.replay BY <1>1, <1>4
  <2>4. s.sup.gtk <= p.gtk => s.sup.gtk <= q.gtk BY <1>1, <1>4
  <2>5. PeerInv(s, q) BY <1>4, <2>1, <2>2, <2>3, <2>4 DEF PeerInv, SameKeys
  <2> QED BY <1>4, <2>1, <2>2, <2>5 DEF Goes, SameKeys
<1>5. CASE Again(p, q) \/ SendsData(p, q) \/ Opens(a, p, q)
  BY <1>1, <1>4, <1>5 DEF Again, SendsData, Opens, SameGroup
<1>6. CASE gr = fr + 1 /\ (RekeysGroup(p, q, fr) \/ RekeysPair(p, q, fr))
  <2>1. p.gtk < fr BY DEF ApOk
  <2>2. q.gtk >= p.gtk /\ q.replay > p.replay /\ q.replay >= p.replay
    BY <1>1, <1>6, <2>1 DEF RekeysGroup, RekeysPair, SameGroup
  <2> QED BY <1>4, <1>6, <2>2 DEF RekeysGroup, RekeysPair
<1>7. CASE Alone(p, q, fr, gr) BY <1>3, <1>5, <1>6, <1>7 DEF Alone
<1>8. ASSUME NEW f \in Frames, Fits(s, sky, f), f.type = "Assoc", Restarts(a, p, q, fr)
      PROVE  PeerInv(s, q) /\ \A m \in sky : ~ Current(s, m)
  BY <1>8 DEF Fits, Restarts, PeerInv
<1>9. ASSUME NEW f \in Frames, Fits(s, sky, f), Derived(p, q, f.body)
      PROVE  PeerInv(s, q) /\ Goes(s, p, q)
  <2>1. /\ Engaged(s) /\ p.wait = "Msg2" /\ q.wait = "Msg4" /\ q.key = p.key
        /\ q.replay = p.replay + 1 /\ q.gtk = p.gtk
    BY <1>9 DEF Fits, Derived, SameGroup
  <2>2. ~ Dead(p) BY <2>1 DEF Dead
  <2>3. q.replay > p.replay /\ (s.sup.rx_replay <= p.replay => s.sup.rx_replay <= q.replay)
    BY <1>1, <2>1
  <2>4. PeerInv(s, q) BY <2>1, <2>2, <2>3 DEF PeerInv
  <2>5. q.gtk >= p.gtk BY <1>1, <2>1
  <2> QED BY <2>1, <2>2, <2>3, <2>4, <2>5 DEF Goes
<1>10. ASSUME NEW f \in Frames, Fits(s, sky, f), Installed(p, q, f.body)
       PROVE  PeerInv(s, q) /\ Goes(s, p, q)
  <2>1. /\ ptk_valid(s.sup) /\ p.ptk.anonce <= s.sup.ptk.anonce /\ p.wait = "Msg4"
        /\ q.key = p.ptk /\ q.replay = p.replay /\ q.gtk = p.gtk /\ q.wait = "None"
    BY <1>10 DEF Fits, Installed, SameGroup
  <2>2. ~ Dead(p) BY <2>1 DEF Dead
  <2>3. p.key # NoKey => p.key.anonce < p.ptk.anonce BY <2>1 DEF ApOk
  <2>4. p.key # s.sup.ptk
    <3>1. CASE p.key = NoKey BY <2>1, <3>1 DEF ptk_valid
    <3>2. CASE p.key # NoKey
      <4>1. p.key.anonce # s.sup.ptk.anonce BY <1>1, <2>1, <2>3, <3>2
      <4> QED BY <4>1
    <3> QED BY <3>1, <3>2
  <2>5. q.key = s.sup.ptk BY <2>1, <2>2, <2>4 DEF PeerInv
  <2>6. q.key # NoKey BY <2>1, <2>5 DEF ptk_valid
  <2>7. PeerInv(s, q) BY <2>1, <2>2, <2>5, <2>6 DEF PeerInv
  <2> QED BY <2>1, <2>2, <2>6, <2>7 DEF Goes
<1>11. ASSUME NEW f \in Frames, GroupDone(p, q, f.body)
       PROVE  PeerInv(s, q) /\ Goes(s, p, q)
  <2>1. p.wait = "Group2" /\ p.key # NoKey BY <1>11 DEF GroupDone, ApOk
  <2> QED BY <1>1, <1>4, <1>11, <2>1 DEF GroupDone, SameGroup
<1> QED BY <1>3, <1>5, <1>7, <1>8, <1>9, <1>10, <1>11 DEF HeardBy

\* What was current is current after the AP's step.
LEMMA GoesOld ==
    ASSUME NEW s \in StaType, NEW p \in ApType, NEW q \in ApType, NEW k \in EapolKeys, NEW G,
           Goes(s, p, q), CurOk(s, p, k, G)
    PROVE  CurOk(s, q, k, G)
<1>1. /\ p.replay \in Nat /\ q.replay \in Nat /\ p.gtk \in Nat /\ q.gtk \in Nat
      /\ k.replay \in Nat /\ k.gtk \in Nat
  BY KeyTypes, BodyTypes
<1>2. CASE Dead(q) BY <1>2 DEF CurOk
<1>3. CASE ~ Dead(q)
  <2>1. /\ ~ Dead(p)
        /\ \/ q.replay = p.replay /\ q.gtk = p.gtk
           \/ q.replay > p.replay /\ q.gtk >= p.gtk
        /\ p.wait = "Msg4" =>
             \/ q.wait = "Msg4" /\ q.ptk = p.ptk
             \/ ptk_valid(s.sup) /\ p.ptk.anonce <= s.sup.ptk.anonce
        /\ p.key # NoKey => q.key # NoKey
    BY <1>3 DEF Goes
  <2>2. Behind(k, p) BY <2>1 DEF CurOk
  <2>3. Behind(k, q) BY <1>1, <2>1, <2>2 DEF Behind
  <2> QED BY <2>1, <2>3 DEF CurOk
<1> QED BY <1>2, <1>3

\* A message that carries keys, as AP q sends it.
LEMMA GoesNew ==
    ASSUME NEW s \in StaType, SupInv(s), NEW a \in Aps, s.bssid = a, NEW q \in ApType,
           PeerInv(s, q), NEW fr, ApOk(q, fr, s.joins), NEW m \in AirFrames, Airs(a, q, m),
           Current(s, m), NEW G,
           \A g \in G : g.key = GroupKey(q.gtk) => g.pn <= q.gpn
    PROVE  /\ CurOk(s, q, m.body, G) /\ ~ Dead(q)
           /\ m.body.replay = q.replay /\ m.body.gtk = q.gtk
<1>1. m.body.kind \in {"Msg3", "Group1"} /\ m.body.mic.snonce = s.joins BY DEF Current
<1>2. NoBody.kind = "None" BY DEF NoBody
<1>3. q.wait # "None" /\ Says(a, q, m) BY <1>1, <1>2 DEF Airs, Plain, Carries
<1>4. q.wait \in {"Msg4", "Group2"} BY <1>1, <1>3 DEF Says, ApType
<1>5. /\ m.body.replay = q.replay /\ m.body.gtk = q.gtk /\ m.body.rsc = q.gpn
      /\ q.wait = "Msg4" => m.body.kind = "Msg3" /\ m.body.mic = q.ptk
      /\ q.wait = "Group2" => m.body.kind = "Group1" /\ m.body.mic = q.key
  BY <1>3, <1>4 DEF Says
<1>6. q.wait = "Group2" => q.key # NoKey BY DEF ApOk
<1>7. Engaged(s) BY <1>1, <1>4, <1>5, <1>6 DEF PeerInv
<1>8. ~ Dead(q) BY <1>3 DEF Dead
<1>9. q.gtk \in Nat /\ q.replay \in Nat /\ s.sup.gtk \in Nat BY KeyTypes, SupTypes
<1>10. q.gtk >= s.sup.gtk
  <2>1. CASE ptk_valid(s.sup) BY <1>8, <1>9, <2>1 DEF PeerInv
  <2>2. CASE ~ ptk_valid(s.sup) BY <1>9, <2>2 DEF SupInv
  <2> QED BY <2>1, <2>2
<1>11. Advances(s, m.body, G) BY <1>5, <1>10 DEF Advances
<1>12. Behind(m.body, q) BY <1>5, <1>9 DEF Behind
<1> QED BY <1>4, <1>5, <1>6, <1>7, <1>8, <1>11, <1>12 DEF CurOk

\* AP a, one of A, becomes q: more is under way then, and sky was.
Meets(s, A, a, q, fr, gr, sky, more) ==
    /\ \/ Alone(A[a], q, fr, gr)
       \/ \E f \in Frames : Fits(s, sky, f) /\ HeardBy(a, A[a], f, q, fr, gr)
    /\ \A m \in more : m \in sky \/ (m \in AirFrames /\ Airs(a, q, m))

LEMMA ApLink ==
    ASSUME NEW s \in StaType, SupInv(s), NEW A \in [Aps -> ApType], NEW a \in Aps,
           NEW q \in ApType, NEW fr \in Nat, NEW gr, ApInv(A, fr, s.joins),
           NEW B, B = [A EXCEPT ![a] = q], ApInv(B, gr, s.joins),
           NEW sky \in SUBSET AirFrames, NEW G \in SUBSET [key : Keys, pn : Nat],
           \A g \in G : GotOk(B, gr, s.joins, g), LinkInv(s, A, sky, G),
           NEW more, Meets(s, A, a, q, fr, gr, sky, more)
    PROVE  LinkInv(s, B, more, G)
<1> SUFFICES ASSUME s.bssid \in Aps
             PROVE  PeerInv(s, B[s.bssid]) /\ CurInv(s, B[s.bssid], more, G)
  BY DEF LinkInv
<1>1. PeerInv(s, A[s.bssid]) /\ CurInv(s, A[s.bssid], sky, G) BY DEF LinkInv
<1>2. CASE s.bssid # a
  <2>1. B[s.bssid] = A[s.bssid] BY <1>2
  <2>2. \A m : Airs(a, q, m) => m.from = a BY DEF Airs, Plain, Says, Carries
  <2>3. \A m \in more : Current(s, m) => m \in sky BY <1>2, <2>2 DEF Current, Meets
  <2> QED BY <1>1, <2>1, <2>3 DEF CurInv, GtksInOrder
<1>3. CASE s.bssid = a
  <2> DEFINE p == A[a]
  <2>1. p \in ApType /\ ApOk(p, fr, s.joins) BY DEF ApInv
  <2>2. B[a] = q BY DEF ApInv
  <2>3. ApOk(q, gr, s.joins) BY <2>2 DEF ApInv
  <2>4. /\ PeerInv(s, q)
        /\ Goes(s, p, q) \/ \A m \in sky : ~ Current(s, m)
    <3> HIDE DEF p
    <3>1. PeerInv(s, p) BY <1>1, <1>3 DEF p
    <3>2. \/ Alone(p, q, fr, gr)
          \/ \E f \in Frames : Fits(s, sky, f) /\ HeardBy(a, p, f, q, fr, gr)
      BY DEF p, Meets
    <3> QED BY <2>1, <3>1, <3>2, GoesPeer
  <2>5. \A g \in G : g.key = GroupKey(q.gtk) => g.pn <= q.gpn
    <3> SUFFICES ASSUME NEW g \in G, g.key = GroupKey(q.gtk)
                 PROVE  g.pn <= q.gpn
      OBVIOUS
    <3>1. g.key.snonce = 0 /\ g.key.anonce = q.gtk BY DEF GroupKey
    <3>2. GroupOk(B, gr, g) /\ g.key # NoKey BY DEF GotOk
    <3> QED BY <2>2, <3>1, <3>2 DEF GroupOk
  <2>6. ASSUME NEW m \in sky, Current(s, m)
        PROVE  m.body \in EapolKeys /\ CurOk(s, q, m.body, G)
    <3>1. m.body \in EapolKeys BY DEF AirFrames
    <3>2. CurOk(s, p, m.body, G) BY <1>1, <1>3, <2>6 DEF CurInv
    <3>3. Goes(s, p, q) BY <2>4, <2>6
    <3> HIDE DEF p
    <3> QED BY <2>1, <3>1, <3>2, <3>3, GoesOld
  <2>7. ASSUME NEW m \in AirFrames, Airs(a, q, m), Current(s, m)
        PROVE  /\ CurOk(s, q, m.body, G) /\ ~ Dead(q)
               /\ m.body.replay = q.replay /\ m.body.gtk = q.gtk
    BY <1>3, <2>3, <2>4, <2>5, <2>7, GoesNew
  <2> USE DEF Meets
  <2>8. \A m \in more : Current(s, m) => CurOk(s, q, m.body, G) BY <2>6, <2>7
  <2>9. GtksInOrder(s, more)
    <3> SUFFICES ASSUME NEW m \in more, NEW n \in more, Current(s, m), Current(s, n),
                        m.body.replay <= n.body.replay
                 PROVE  m.body.gtk <= n.body.gtk
      BY DEF GtksInOrder
    <3>1. q.replay \in Nat /\ q.gtk \in Nat BY KeyTypes
    <3>2. CASE m \in sky /\ n \in sky BY <1>1, <3>2 DEF CurInv, GtksInOrder
    <3>3. CASE m \in sky /\ n \notin sky
      <4>1. n.body.gtk = q.gtk /\ ~ Dead(q) BY <2>7, <3>3
      <4>2. CurOk(s, q, m.body, G) BY <2>6, <3>3
      <4> QED BY <4>1, <4>2 DEF CurOk, Behind
    <3>4. CASE m \notin sky /\ n \in sky
      <4>1. m.body.gtk = q.gtk /\ m.body.replay = q.replay /\ ~ Dead(q) BY <2>7, <3>4
      <4>2. CurOk(s, q, n.body, G) /\ n.body \in EapolKeys BY <2>6, <3>4
      <4>3. n.body.replay \in Nat BY <4>2, BodyTypes
      <4>4. Behind(n.body, q) BY <4>1, <4>2 DEF CurOk
      <4>5. n.body.replay = q.replay BY <3>1, <4>1, <4>3, <4>4 DEF Behind
      <4>6. n.body.gtk = q.gtk BY <4>4, <4>5 DEF Behind
      <4> QED BY <3>1, <4>1, <4>6
    <3>5. CASE m \notin sky /\ n \notin sky
      <4>1. m.body.gtk = q.gtk /\ n.body.gtk = q.gtk BY <2>7, <3>5
      <4> QED BY <3>1, <4>1
    <3> QED BY <3>2, <3>3, <3>4, <3>5
  <2> QED BY <1>3, <2>2, <2>4, <2>8, <2>9 DEF CurInv
<1> QED BY <1>2, <1>3

\* The frame that the caller sends, and what is left behind it.
LEMMA HeadFits ==
    ASSUME NEW s, StaOk(s), SupInv(s), AnswersInv(s), NEW t \in StaType, Pops(s, t),
           NEW A, NEW sky, NEW G, LinkInv(s, A, sky, G)
    PROVE  Fits(t, sky, Head(s.tx))
<1> DEFINE f == Head(s.tx)
           n == Len(s.tx)
<1>1. s \in StaType /\ s.tx \in Seq(Frames) /\ HomeInv(s) BY DEF StaOk, StaType
<1>2. /\ s.tx # <<>> /\ t.tx = Tail(s.tx) /\ t.sup = s.sup /\ t.state = s.state
      /\ t.bssid = s.bssid /\ t.joins = s.joins
  BY DEF Pops, SameJoin
<1>3. /\ n \in Nat /\ n >= 1 /\ Len(t.tx) = n - 1 /\ f = s.tx[1]
      /\ \A i \in 1..n - 1 : t.tx[i] = s.tx[i + 1]
  BY <1>1, <1>2, HeadTailProperties, LenProperties, EmptySeq
<1>4. /\ Placed(s, s.tx[1], 1) /\ AnswersLast(s.tx)
      /\ IF f.type = "Eapol" THEN AnswerOk(s, f.body) ELSE f.body = NoReply
  <2>1. 1 \in 1..Len(s.tx) BY <1>3
  <2> QED BY <1>3, <2>1 DEF StaOk, QueueInv, AnswersInv
<1> HIDE DEF f
<1>5. f.type = "Assoc" => ~ ptk_valid(t.sup) /\ \A m \in sky : ~ Current(t, m)
  <2> SUFFICES ASSUME f.type = "Assoc"
               PROVE  ~ ptk_valid(s.sup) /\ \A m \in sky : ~ Current(s, m)
    BY <1>2 DEF Current
  <2>1. ~ Engaged(s)
    <3>1. 1 \in 1..Len(s.tx) BY <1>3
    <3> QED BY <1>3, <3>1 DEF Engaged
  <2>2. s.bssid \in Aps BY <1>1, <1>3, <1>4 DEF Placed, HomeInv
  <2> QED BY <1>1, <2>1, <2>2, NotEngaged
<1>6. f.body.kind \in {"Msg2", "Msg4"} => f.type = "Eapol" BY <1>4, SupConstants
<1>7. ASSUME f.type = "Eapol"
      PROVE  Engaged(t)
  <2>1. ~ Asking(t) BY <1>2, <1>3, <1>4, <1>7 DEF Placed, Asking
  <2>2. ASSUME NEW i \in 1..n - 1
        PROVE  t.tx[i].type = "Eapol"
    <3> HIDE DEF n
    <3>1. i + 1 \in 1..n /\ 1 \in 1..n /\ 1 < i + 1 BY <1>3
    <3>2. s.tx[i + 1].type = "Eapol" BY <1>3, <1>4, <1>7, <3>1 DEF AnswersLast, n
    <3> QED BY <1>3, <3>2
  <2> QED BY <1>3, <2>1, <2>2 DEF Engaged
<1>8. f.body.kind = "Msg4" => ptk_valid(t.sup) /\ f.body.mic.anonce <= t.sup.ptk.anonce
  BY <1>2, <1>4, <1>6 DEF AnswerOk
<1>9. Fits(t, sky, f) BY <1>5, <1>6, <1>7, <1>8 DEF Fits
<1> QED BY <1>9 DEF f

\* The whole inductive invariant.
SafeInv ==
    /\ KeyInv /\ LinkInv(sta, ap, air, got)
    /\ \A g \in got : Spent(sta, win, g)
    /\ NoFrameTwice

LEMMA SafeInit == Init => SafeInv
<1> SUFFICES ASSUME Init PROVE SafeInv OBVIOUS
<1>1. KeyInv BY KeyInit
<1>2. sta.bssid \notin Aps BY StationAssumption DEF Init, NewStation
<1>3. LinkInv(sta, ap, air, got) BY <1>2 DEF LinkInv
<1>4. got = {} /\ ~ twice BY DEF Init
<1> QED BY <1>1, <1>3, <1>4 DEF SafeInv, NoFrameTwice

\* The station takes a message; nothing else moves.
LEMMA HearsSafe ==
    ASSUME SafeInv, NEW k \in EapolKeys, HearsClear(sta, k, sta') \/ HearsProtected(sta, k, sta'),
           sta' \in StaType, NEW G \in SUBSET [key : Keys, pn : Nat], LinkInv(sta, ap, air, G),
           k.kind \in {"Msg3", "Group1"} => \E m \in air : m.body = k /\ m.from = sta.bssid,
           NEW W \in WinType, \A g \in G : Spent(sta, W, g)
    PROVE  /\ LinkInv(sta', ap, air, G)
           /\ \A g \in G : Spent(sta', Rekeyed(W, sta.sup, sta'.sup), g)
<1>1. /\ StaOk(sta) /\ SupInv(sta) /\ sta \in StaType /\ ap \in [Aps -> ApType]
      /\ air \in SUBSET AirFrames
  BY DEF SafeInv, KeyInv, TypeInv, StaOk, TypeOK
<1>2. LinkInv(sta', ap, air, G) /\ (Takes(sta, k, sta') => Advances(sta, k, G))
  BY <1>1, HearsLink
<1>3. Hears(sta, k, sta') BY DEF HearsClear, HearsProtected
<1> QED BY <1>1, <1>2, <1>3, HearsSpent

LEMMA ProtectedSafe ==
    ASSUME SafeInv, KeyInv', NEW m \in air, ReceiveProtected(m)
    PROVE  SafeInv'
<1> DEFINE g == [key |-> m.key, pn |-> m.pn]
           G == got \cup {g}
<1>1. /\ TypeInv /\ StaOk(sta) /\ SupInv(sta) /\ sta \in StaType /\ ap \in [Aps -> ApType]
      /\ air \in SUBSET AirFrames /\ win \in WinType /\ sta.joins \in Nat /\ fresh \in Nat
      /\ got \subseteq [key : Keys, pn : Nat] /\ ApInv(ap, fresh, sta.joins) /\ KeyInv
  BY DEF SafeInv, KeyInv, TypeInv, StaOk, TypeOK, WinType, StaType
<1>2. /\ sta' \in StaType /\ connected(sta) /\ m.from = sta.bssid
      /\ m.key # NoKey /\ m.key = sta.sup.ptk /\ m.pn \in Nat \ {0}
      /\ Acceptable(win.pair[Tid], m.pn) /\ got' = G /\ twice' = (twice \/ g \in got)
  BY <1>1, ReceiveProtectedFields
<1>3. PICK w \in WinType : /\ w.group = win.group
                           /\ w.pair[Tid] = Accepted(win.pair[Tid], m.pn)
                           /\ win' = Rekeyed(w, sta.sup, sta'.sup)
  BY <1>1, ReceiveProtectedFields
<1>4. /\ HearsProtected(sta, m.body, sta') /\ m.body \in EapolKeys
      /\ sta'.joins = sta.joins /\ sta.joins >= 1 /\ m.key.snonce = sta.joins
      /\ SupInv(sta')
  BY <1>1, ProtectedReply
<1>5. ptk_valid(sta.sup) BY <1>2 DEF ptk_valid
<1>6. g.key = sta.sup.ptk /\ g.pn = m.pn /\ g \in [key : Keys, pn : Nat]
  BY <1>1, <1>2, SupTypes
<1> HIDE DEF g
<1>7. G \in SUBSET [key : Keys, pn : Nat] BY <1>1, <1>6
<1>8. ~ twice'
  <2>1. ~ twice /\ (g \in got => Spent(sta, win, g)) BY DEF SafeInv, NoFrameTwice
  <2>2. Listening(sta) /\ g.key.snonce = sta.joins
    BY <1>2, <1>4, <1>6 DEF connected, Listening
  <2>3. g \notin got BY <1>2, <1>4, <1>6, <2>1, <2>2 DEF Spent
  <2> QED BY <1>2, <2>1, <2>3
<1>9. LinkInv(sta, ap, air, G)
  <2>1. \A n \in Nat : g.key # GroupKey(n) BY <1>2, <1>4, <1>6 DEF GroupKey
  <2> QED BY <1>1, <2>1, MoreAccepted DEF SafeInv
<1>10. \A x \in G : Spent(sta, w, x)
  <2> SUFFICES ASSUME NEW x \in G PROVE Spent(sta, w, x) OBVIOUS
  <2>1. Spent(sta, win, x) \/ (x.key = sta.sup.ptk /\ x.pn = m.pn) BY <1>6 DEF SafeInv
  <2>2. x \in [key : Keys, pn : Nat] BY <1>7
  <2> QED BY <1>1, <1>2, <1>3, <1>4, <1>5, <2>1, <2>2, PairSpent
<1> HIDE DEF G
<1>11. /\ LinkInv(sta', ap, air, G)
       /\ \A x \in G : Spent(sta', win', x)
  <2>1. m.body = m.body /\ m.from = sta.bssid BY <1>2
  <2> QED BY <1>2, <1>3, <1>4, <1>7, <1>9, <1>10, <2>1, HearsSafe
<1>12. CASE air' \subseteq air /\ UNCHANGED <<ap, fresh>>
  <2>1. LinkInv(sta', ap', air', got') BY <1>2, <1>11, <1>12, FewerUnderWay
  <2> QED BY <1>2, <1>8, <1>11, <2>1 DEF SafeInv, NoFrameTwice
<1>13. CASE ~ (air' \subseteq air /\ UNCHANGED <<ap, fresh>>)
  <2> DEFINE sky == air \ {m}
  <2>1. PICK f, q :
          /\ f \in Frames
          /\ f = Frame(sta, "Eapol", eapol_reply(sta, m.body).out)
          /\ f.body # NoReply
          /\ ApMoves(f.to, q, sky)
          /\ HeardBy(f.to, ap[f.to], f, q, fresh, fresh')
    BY <1>1, <1>13, ReceiveProtectedFields
  <2> f \in Frames BY <2>1
  <2>2. AnswerOk(sta', f.body) /\ Honest(f, sta.joins) BY <1>1, <2>1, ProtectedReply
  <2>3. f.to \in Aps /\ f.type = "Eapol"
    <3>1. f.to \in Aps BY DEF Frames
    <3>2. f.type = "Eapol" BY <2>1 DEF Frame
    <3> QED BY <3>1, <3>2
  <2>4. sky \in SUBSET air OBVIOUS
  <2> HIDE DEF sky
  <2>5. LinkInv(sta', ap, sky, G) BY <1>11, <2>4, FewerUnderWay
  <2>6. Engaged(sta')
    <3>1. sta.bssid \in Aps BY <1>1, <1>2 DEF StaOk, HomeInv, connected, Listening
    <3>2. Engaged(sta) BY <1>5, <1>9, <3>1 DEF LinkInv, PeerInv
    <3> QED BY <1>1, <1>2, <1>4, <3>2, HearsEngaged
  <2>7. Fits(sta', sky, f) BY <2>2, <2>3, <2>6 DEF Fits, AnswerOk
  <2>8. Turns(f.to, ap[f.to], q, fresh, fresh', sta.joins) BY <2>1, <2>2 DEF Turns
  <2>9. \A x \in air' : x \in sky \/ (x \in AirFrames /\ Airs(f.to, q, x))
    BY <1>1, <2>1, <2>3, <2>4, <2>8, ApKeys
  <2>10. /\ ap' = [ap EXCEPT ![f.to] = q] /\ q \in ApType BY <2>1 DEF ApMoves
  <2>11. /\ ApInv(ap', fresh', sta'.joins)
         /\ \A x \in got' : GotOk(ap', fresh', sta'.joins, x)
    BY DEF KeyInv
  <2>12. LinkInv(sta', ap', air', G)
    <3>1. ApInv(ap, fresh, sta'.joins) BY <1>1, <1>4
    <3>2. \A x \in G : GotOk(ap', fresh', sta'.joins, x) BY <1>2, <2>11
    <3>3. sky \in SUBSET AirFrames BY <1>1, <2>4
    <3>4. Meets(sta', ap, f.to, q, fresh, fresh', sky, air') BY <2>1, <2>7, <2>9 DEF Meets
    <3>5. /\ sta' \in StaType /\ SupInv(sta') /\ ap \in [Aps -> ApType] /\ fresh \in Nat
          /\ ApInv(ap', fresh', sta'.joins)
      BY <1>1, <1>2, <1>4, <2>11
    <3> QED BY <1>7, <2>3, <2>5, <2>10, <3>1, <3>2, <3>3, <3>4, <3>5, ApLink
  <2> QED BY <1>2, <1>8, <1>11, <2>12 DEF SafeInv, NoFrameTwice
<1> QED BY <1>12, <1>13

\* The station is calm, or its caller takes a frame.
LEMMA CalmSafe ==
    ASSUME SafeInv, KeyInv', Calm(sta, sta') \/ Pops(sta, sta')
    PROVE  /\ LinkInv(sta', ap, air, got)
           /\ \A g \in got : Spent(sta', win, g)
<1>1. /\ StaOk(sta) /\ SupInv(sta) /\ ap \in [Aps -> ApType] /\ air \in SUBSET AirFrames
      /\ ApInv(ap, fresh, sta.joins) /\ sta' \in StaType /\ SupInv(sta')
      /\ LinkInv(sta, ap, air, got) /\ \A m \in air : AirOk(ap, fresh, sta.joins, m)
  BY DEF SafeInv, KeyInv, TypeInv, TypeOK
<1>2. LinkInv(sta', ap, air, got) BY <1>1, CalmLink
<1>3. ASSUME NEW g \in got
      PROVE  Spent(sta', win, g)
  <2>1. g \in [key : Keys, pn : Nat] /\ g.key # NoKey /\ g.key.snonce <= sta.joins
    BY DEF SafeInv, KeyInv, TypeInv, TypeOK, GotOk
  <2>2. Spent(sta, win, g) BY DEF SafeInv
  <2> QED BY <1>1, <2>1, <2>2, CalmSpent
<1> QED BY <1>2, <1>3

LEMMA ApSafe ==
    ASSUME SafeInv, KeyInv', sta'.joins = sta.joins, LinkInv(sta', ap, air, got),
           UNCHANGED got, NEW a \in Aps, NEW q, ApMoves(a, q, air),
           Turns(a, ap[a], q, fresh, fresh', sta.joins),
           \/ Alone(ap[a], q, fresh, fresh')
           \/ \E f \in Frames : Fits(sta', air, f) /\ HeardBy(a, ap[a], f, q, fresh, fresh')
    PROVE  LinkInv(sta', ap', air', got)
<1>1. /\ sta' \in StaType /\ SupInv(sta') /\ ap \in [Aps -> ApType] /\ fresh \in Nat
      /\ ApInv(ap', fresh', sta'.joins) /\ ApInv(ap, fresh, sta'.joins)
      /\ air \in SUBSET AirFrames /\ got \in SUBSET [key : Keys, pn : Nat]
  BY DEF SafeInv, KeyInv, TypeInv, TypeOK
<1>2. \A g \in got : GotOk(ap', fresh', sta'.joins, g) BY DEF KeyInv
<1>3. ap' = [ap EXCEPT ![a] = q] /\ q \in ApType BY DEF ApMoves
<1>4. \A m \in air' : m \in air \/ (m \in AirFrames /\ Airs(a, q, m))
  BY ApKeys DEF SafeInv
<1>5. Meets(sta', ap, a, q, fresh, fresh', air, air') BY <1>4 DEF Meets
<1> QED BY <1>1, <1>2, <1>3, <1>5, ApLink

LEMMA SafeNext == SafeInv /\ [Next]_vars => SafeInv'
<1> SUFFICES ASSUME SafeInv, [Next]_vars PROVE SafeInv' OBVIOUS
<1>1. KeyInv /\ KeyInv' /\ TypeInv BY KeyNext DEF SafeInv, KeyInv
<1>2. /\ StaOk(sta) /\ SupInv(sta) /\ AnswersInv(sta) /\ sta \in StaType /\ sta' \in StaType
      /\ ap \in [Aps -> ApType] /\ air \in SUBSET AirFrames /\ win \in WinType
      /\ got \in SUBSET [key : Keys, pn : Nat] /\ fresh \in Nat
  BY <1>1 DEF KeyInv, TypeInv, TypeOK, StaOk, WinType
<1>3. /\ LinkInv(sta, ap, air, got) /\ ~ twice
      /\ \A g \in got : Spent(sta, win, g)
  BY DEF SafeInv, NoFrameTwice
<1>4. ASSUME UNCHANGED <<ap, got, twice>>, air' \subseteq air,
             LinkInv(sta', ap, air, got), \A g \in got : Spent(sta', win', g)
      PROVE  SafeInv'
  <2>1. LinkInv(sta', ap', air', got') BY <1>4, FewerUnderWay
  <2> QED BY <1>1, <1>3, <1>4, <2>1 DEF SafeInv, NoFrameTwice
<1>5. ASSUME Calm(sta, sta'), UNCHANGED <<ap, got, twice>>, air' \subseteq air, win' = win
      PROVE  SafeInv'
  BY <1>1, <1>4, <1>5, CalmSafe
<1>6. ASSUME NEW k \in EapolKeys, HearsClear(sta, k, sta'),
             UNCHANGED <<ap, got, twice>>, air' \subseteq air,
             win' = Rekeyed(win, sta.sup, sta'.sup),
             k.kind \in {"Msg3", "Group1"} => \E m \in air : m.body = k /\ m.from = sta.bssid
      PROVE  SafeInv'
  <2>1. LinkInv(sta', ap, air, got) /\ \A g \in got : Spent(sta', win', g)
    BY <1>2, <1>3, <1>6, HearsSafe
  <2> QED BY <1>4, <1>6, <2>1
<1>7. ASSUME Calm(sta, sta'), win' = Rekeyed(win, sta.sup, sta'.sup)
      PROVE  win' = win
  <2>1. sta.sup \in SupType /\ sta'.sup \in SupType BY <1>2 DEF StaType
  <2> QED BY <1>2, <1>7, <2>1, CalmGens, RekeyedType
<1>8. CASE \/ Configure \/ Leave \/ LinkLost \/ Clock
           \/ \E e \in Entries : Join(e)
           \/ \E a \in Aps : Beacon(a)
  BY <1>1, <1>5, <1>8, CalmActions
<1>9. CASE Transmit
  <2> DEFINE f == Head(sta.tx)
  <2>1. Pops(sta, sta') /\ win' = win /\ f \in Frames /\ UNCHANGED <<got, twice>>
    BY <1>1, <1>9, TransmitFields
  <2>2. LinkInv(sta', ap, air, got) /\ \A g \in got : Spent(sta', win, g)
    BY <1>1, <2>1, CalmSafe
  <2>3. CASE UNCHANGED <<ap, air, fresh>> BY <1>4, <2>1, <2>2, <2>3
  <2>4. CASE ~ UNCHANGED <<ap, air, fresh>>
    <3>1. PICK q : ApMoves(f.to, q, air) /\ HeardBy(f.to, ap[f.to], f, q, fresh, fresh')
      BY <1>1, <1>9, <2>4, TransmitFields
    <3>2. Honest(f, sta.joins) BY <1>1, <2>1, HeadHonest DEF Pops
    <3>3. Fits(sta', air, f) BY <1>2, <1>3, <2>1, HeadFits
    <3>4. f.to \in Aps BY <2>1 DEF Frames
    <3> HIDE DEF f
    <3>5. Turns(f.to, ap[f.to], q, fresh, fresh', sta.joins) BY <2>1, <3>1, <3>2 DEF Turns
    <3>6. sta'.joins = sta.joins BY <2>1 DEF Pops, SameJoin
    <3>7. \E x \in Frames : Fits(sta', air, x) /\ HeardBy(f.to, ap[f.to], x, q, fresh, fresh')
      BY <2>1, <3>1, <3>3
    <3>8. LinkInv(sta', ap', air', got)
      BY <1>1, <2>1, <2>2, <3>1, <3>4, <3>5, <3>6, <3>7, ApSafe
    <3> QED BY <1>1, <1>3, <2>1, <2>2, <3>8 DEF SafeInv, NoFrameTwice
  <2> QED BY <2>3, <2>4
<1>10. ASSUME NEW a \in Aps,
              ApRetransmit(a) \/ ApDeauth(a) \/ ApRekey(a) \/ ApData(a) \/ ApOff(a)
       PROVE  SafeInv'
  <2>1. PICK q : ApMoves(a, q, air) /\ Alone(ap[a], q, fresh, fresh')
    BY <1>2, <1>10, ApAloneFields
  <2>2. UNCHANGED <<sta, got, win, twice>>
    BY <1>10 DEF ApRetransmit, ApDeauth, ApRekey, ApData, ApOff
  <2>3. Turns(a, ap[a], q, fresh, fresh', sta.joins) BY <2>1 DEF Turns
  <2>4. LinkInv(sta', ap', air', got) BY <1>1, <1>3, <2>1, <2>2, <2>3, ApSafe
  <2> QED BY <1>1, <1>3, <2>2, <2>4 DEF SafeInv, NoFrameTwice
<1>11. ASSUME NEW a \in Aps, Stray(a)
       PROVE  SafeInv'
  <2>1. PICK k \in EapolKeys : /\ k.kind = "Msg1"
                               /\ Calm(sta, sta') \/ HearsClear(sta, k, sta')
    BY <1>1, <1>11, StrayFields
  <2>2. /\ UNCHANGED <<ap, got, twice>> /\ air' \subseteq air
        /\ win' = Rekeyed(win, sta.sup, sta'.sup)
    BY <1>1, <1>11, StrayFields
  <2> QED BY <1>5, <1>6, <1>7, <2>1, <2>2
<1>12. ASSUME NEW m \in air, Receive(m)
       PROVE  SafeInv'
  <2>1. /\ Calm(sta, sta') \/ HearsClear(sta, m.body, sta')
        /\ UNCHANGED <<ap, got, twice>> /\ air' \subseteq air /\ m.from = sta.bssid
        /\ win' = Rekeyed(win, sta.sup, sta'.sup)
    BY <1>1, <1>12, ReceiveFields
  <2>2. m.body \in EapolKeys BY <1>2 DEF AirFrames
  <2> QED BY <1>5, <1>6, <1>7, <2>1, <2>2
<1>13. ASSUME NEW m \in air, ReceiveGroup(m)
       PROVE  SafeInv'
  <2> DEFINE g == [key |-> m.key, pn |-> m.pn]
             G == got \cup {g}
  <2>1. /\ m.key = GroupKey(sta.sup.gtk) /\ m.pn \in Nat \ {0}
        /\ Acceptable(win.group[Tid], m.pn) /\ win' \in WinType /\ win'.pair = win.pair
        /\ win'.group[Tid] = Accepted(win.group[Tid], m.pn)
        /\ got' = G /\ twice' = (twice \/ g \in got)
        /\ air' \subseteq air /\ UNCHANGED <<sta, ap, fresh>>
    BY <1>1, <1>13, ReceiveGroupFields
  <2>2. g.key = GroupKey(sta.sup.gtk) /\ g.pn = m.pn BY <2>1
  <2>3. got' \in SUBSET [key : Keys, pn : Nat] BY <1>1 DEF KeyInv, TypeInv, TypeOK
  <2> HIDE DEF g
  <2>4. ~ twice' BY <1>3, <2>1, <2>2 DEF Spent
  <2>5. LinkInv(sta, ap, air, G)
    <3>1. \A n \in Nat : n # sta.sup.gtk => g.key # GroupKey(n) BY <2>2 DEF GroupKey
    <3> QED BY <1>2, <1>3, <3>1, MoreAccepted
  <2>6. LinkInv(sta', ap', air', got') BY <2>1, <2>5, FewerUnderWay
  <2>7. ASSUME NEW x \in got'
        PROVE  Spent(sta', win', x)
    <3>1. Spent(sta, win, x) \/ (x.key = GroupKey(sta.sup.gtk) /\ x.pn = m.pn)
      BY <1>3, <2>1, <2>2
    <3>2. x \in [key : Keys, pn : Nat] BY <2>3
    <3>3. Spent(sta, win', x) BY <1>2, <2>1, <3>1, <3>2, GroupSpent
    <3> QED BY <2>1, <3>3
  <2> QED BY <1>1, <2>4, <2>6, <2>7 DEF SafeInv, NoFrameTwice
<1>14. ASSUME NEW m \in air, ReceiveProtected(m)
       PROVE  SafeInv'
  BY <1>1, <1>14, ProtectedSafe
<1>15. ASSUME NEW m \in air, Lose(m)
       PROVE  SafeInv'
  BY <1>3, <1>4, <1>15 DEF Lose
<1>16. ASSUME NEW m \in air, ReceiveUnread(m)
       PROVE  SafeInv'
  BY <1>1, <1>5, <1>16, UnreadFields
<1>17. CASE UNCHANGED vars BY <1>3, <1>4, <1>17 DEF vars
<1> QED BY <1>8, <1>9, <1>10, <1>11, <1>12, <1>13, <1>14, <1>15, <1>16, <1>17
        DEF Next, CallerStep, RadioStep, ApStep

LEMMA SafeInvariant == Spec => []SafeInv
BY SafeInit, SafeNext, PTL DEF Spec

\* No frame is accepted twice by the data plane (CcmpReplay with install_ptk
\* and install_gtk), whatever is lost, repeated, delayed or rekeyed.
THEOREM NothingTwice == Spec => []NoFrameTwice
<1>1. SafeInv => NoFrameTwice BY DEF SafeInv
<1> QED BY <1>1, SafeInvariant, PTL

\* A station with a PTK holds the one its AP has installed, or is about to
\* install, and has taken the AP's own advertisement (on_msg3's comparison).
THEOREM KeysAlwaysAgree == Spec => []KeysAgree
<1>1. SafeInv => KeysAgree
  <2> SUFFICES ASSUME SafeInv, ptk_valid(sta.sup), ap[sta.bssid].key # NoKey
               PROVE  /\ \/ sta.sup.ptk = ap[sta.bssid].key
                         \/ sta.sup.ptk = ap[sta.bssid].ptk /\ ap[sta.bssid].wait = "Msg4"
                      /\ sta.rsn = "real"
    BY DEF KeysAgree
  <2>1. SupInv(sta) /\ HomeInv(sta) /\ LinkInv(sta, ap, air, got)
    BY DEF SafeInv, KeyInv, TypeInv, StaOk
  <2>2. Keyed(sta) /\ sta.rsn = "real" BY <2>1 DEF SupInv
  <2>3. sta.bssid \in Aps BY <2>1, <2>2 DEF HomeInv, Keyed, Listening
  <2>4. PeerInv(sta, ap[sta.bssid]) BY <2>1, <2>3 DEF LinkInv
  <2> QED BY <2>2, <2>4 DEF PeerInv, Dead
<1> QED BY <1>1, SafeInvariant, PTL

\* A message 3 under the PTK its ANonce names is answered.
LEMMA Msg3Answered ==
    ASSUME NEW s \in SupType, NEW k \in EapolKeys, s.st # "Idle", k.kind = "Msg3",
           ~ Stale(s, k), PtkOf(s, k) # NoKey, k.mic = PtkOf(s, k), k.rsn = s.rsn
    PROVE  on_eapol(s, k).v = "Reply"
<1>1. ~ Repeated1(s, k) BY DEF Repeated1
<1>2. on_eapol(s, k) = on_msg3(s, k) BY <1>1 DEF on_eapol
<1>3. on_msg3(s, k).v = "Reply" BY DEF on_msg3, MicOk, Result
<1> QED BY <1>2, <1>3

\* The AP of the first handshake is answered.
LEMMA AnswersAp ==
    ASSUME SafeInv, NEW a \in Aps, NEW k, k = KeyMessage(a, ap[a]).body,
           ap[a].wait # "None", ap[a].key = NoKey, sta.bssid = a, Keyed(sta),
           sta.rsn = "real", ap[a].ptk.snonce \in {0, sta.joins},
           k.kind = "Msg3" => k.anonce \in {sta.sup.cand.anonce, sta.sup.ptk.anonce}
    PROVE  /\ cleartext_eapol_allowed(sta, k)
           /\ on_eapol(sta.sup, k).v \in {"Reply", "Retransmit"}
<1> DEFINE u == sta.sup
           p == ap[a]
<1>1. /\ sta \in StaType /\ SupInv(sta) /\ LinkInv(sta, ap, air, got) /\ p \in ApType
      /\ ApOk(p, fresh, sta.joins)
  BY DEF SafeInv, KeyInv, TypeInv, StaOk, TypeOK, ApInv
<1>2. PeerInv(sta, p) /\ ~ Dead(p) BY <1>1 DEF LinkInv, Dead
<1>3. Says(a, p, KeyMessage(a, p)) BY <1>1, KeyMessageFields
<1>4. p.wait \in {"Msg2", "Msg4"} BY <1>1 DEF ApOk, ApType
<1>5. k \in EapolKeys /\ k.replay = p.replay /\ k.rsn = "real" /\ k.anonce = p.anonce
  BY <1>3, <1>4 DEF Says, AirFrames
<1>6. /\ u \in SupType /\ u.rx_replay \in Int /\ u.ptk \in Keys /\ u.cand \in Keys
      /\ u.ptk.anonce \in Nat /\ u.cand.anonce \in Nat /\ k.replay \in Nat
      /\ p.ptk \in Keys /\ p.anonce \in Nat
  BY <1>1, <1>5, SupTypes, BodyTypes, KeyTypes
<1>7. u.st # "Idle" /\ u.rsn = "real" BY <1>1 DEF SupInv
<1>8. ~ ptk_valid(u) => u.rx_replay = -1 BY <1>1 DEF SupInv
<1>9. ~ ptk_valid(u) => ~ Stale(u, k) BY <1>6, <1>8 DEF Stale
<1>10. CASE p.wait = "Msg2"
  <2>1. k.kind = "Msg1" BY <1>3, <1>10 DEF Says
  <2>2. ~ ptk_valid(u) BY <1>2, <1>10 DEF PeerInv, ptk_valid
  <2>3. cleartext_eapol_allowed(sta, k) BY <2>1, <2>2 DEF cleartext_eapol_allowed
  <2>4. CASE Repeated1(u, k)
    <3>1. on_eapol(u, k) = Result("Retransmit", u, u.m1)
      BY <1>7, <1>9, <2>1, <2>2, <2>4 DEF on_eapol
    <3> QED BY <2>3, <3>1 DEF Result
  <2>5. CASE ~ Repeated1(u, k)
    <3>1. on_eapol(u, k) = on_msg1(u, k) BY <1>7, <1>9, <2>1, <2>2, <2>5 DEF on_eapol
    <3>2. Derives(u, k, on_msg1(u, k)) BY <1>5, <1>6, <1>7, <2>1, Msg1Fields
    <3>3. on_msg1(u, k).v = "Reply" BY ONLY <3>2 DEF Derives
    <3> QED BY <2>3, <3>1, <3>3
  <2> QED BY <2>4, <2>5
<1>11. CASE p.wait = "Msg4"
  <2>1. k.kind = "Msg3" /\ k.mic = p.ptk BY <1>3, <1>11 DEF Says
  <2>2. p.ptk.anonce = p.anonce /\ p.ptk.snonce \in 1..sta.joins /\ p.anonce >= 1
    BY <1>1, <1>11 DEF ApOk
  <2>3. p.ptk.snonce = sta.joins BY <2>2
  <2>4. CASE ptk_valid(u)
    <3>1. p.ptk = u.ptk
      <4>1. p.key # u.ptk BY <2>4 DEF ptk_valid
      <4> QED BY <1>2, <2>4, <4>1 DEF PeerInv
    <3>2. cleartext_eapol_allowed(sta, k)
      BY <1>5, <2>1, <2>2, <2>4, <3>1 DEF cleartext_eapol_allowed, is_installed_msg3
    <3>3. CASE Stale(u, k)
      <4>1. u.rx_replay <= p.replay BY <1>2, <2>4 DEF PeerInv
      <4>2. k.replay = u.rx_replay BY <1>5, <1>6, <3>3, <4>1 DEF Stale
      <4>3. u.last.replay = k.replay /\ u.last.kind \in {"Msg4", "Group2"}
        BY <1>1, <2>4, <4>2 DEF SupInv
      <4>4. u.last.kind = "Msg4" BY <1>2, <2>4, <4>3 DEF PeerInv
      <4>5. AnswerKind[k.kind] = "Msg4" BY <2>1 DEF AnswerKind
      <4>6. retransmit_or_replay(u, k) = Result("Retransmit", u, u.last)
        BY <4>2, <4>3, <4>4, <4>5 DEF retransmit_or_replay
      <4>7. on_eapol(u, k) = retransmit_or_replay(u, k) BY <1>7, <2>1, <3>3 DEF on_eapol
      <4> QED BY <3>2, <4>6, <4>7 DEF Result
    <3>4. CASE ~ Stale(u, k)
      <4>1. u.cand # NoKey => u.cand.anonce > u.ptk.anonce BY <1>1, <2>4 DEF SupInv
      <4>2. u.cand # NoKey => u.cand.anonce # k.anonce BY <1>5, <1>6, <2>2, <3>1, <4>1
      <4>3. PtkOf(u, k) = u.ptk BY <1>5, <2>2, <2>4, <3>1, <4>2 DEF PtkOf
      <4>4. PtkOf(u, k) # NoKey /\ k.mic = PtkOf(u, k)
        BY <2>1, <2>4, <3>1, <4>3 DEF ptk_valid
      <4> QED BY <1>5, <1>6, <1>7, <2>1, <3>2, <3>4, <4>4, Msg3Answered
    <3> QED BY <3>3, <3>4
  <2>5. CASE ~ ptk_valid(u)
    <3>1. u.ptk.anonce = 0 BY <2>5, SupConstants DEF ptk_valid
    <3>2. u.cand.anonce = k.anonce /\ k.anonce # 0 BY <1>5, <1>6, <2>1, <2>2, <3>1
    <3>3. u.cand # NoKey BY <3>2, SupConstants
    <3>4. u.cand.snonce = sta.joins BY <1>1, <3>3 DEF SupInv
    <3>5. u.cand = p.ptk BY <1>5, <1>6, <2>2, <2>3, <3>2, <3>4, SameKey
    <3>6. PtkOf(u, k) = u.cand BY <3>2, <3>3 DEF PtkOf
    <3>7. on_eapol(u, k).v = "Reply"
      BY <1>5, <1>6, <1>7, <1>9, <2>1, <2>5, <3>3, <3>5, <3>6, Msg3Answered
    <3>8. cleartext_eapol_allowed(sta, k) BY <2>1, <2>5 DEF cleartext_eapol_allowed
    <3> QED BY <3>7, <3>8
  <2> QED BY <2>4, <2>5
<1> QED BY <1>4, <1>10, <1>11

\* The message an AP repeats in the first handshake is never one that the
\* station refuses (on_eapol's replay gate and its two caches, and
\* cleartext_eapol_allowed), whatever was lost or repeated before.
THEOREM AskedAlwaysAnswered == Spec => []AskedIsAnswered
<1>1. SafeInv => AskedIsAnswered
  <2> SUFFICES ASSUME SafeInv PROVE AskedIsAnswered OBVIOUS
  <2> SUFFICES ASSUME NEW a \in Aps, NEW k, k = KeyMessage(a, ap[a]).body,
                      ap[a].wait # "None", ap[a].key = NoKey, sta.bssid = a,
                      sta.security = "Wpa2Psk", sta.state \in {"FourWay", "Connected"},
                      sta.rsn = "real", ap[a].ptk.snonce \in {0, sta.joins},
                      k.kind = "Msg3" => k.anonce \in {sta.sup.cand.anonce, sta.sup.ptk.anonce}
               PROVE  /\ cleartext_eapol_allowed(sta, k)
                      /\ on_eapol(sta.sup, k).v \in {"Reply", "Retransmit"}
    BY DEF AskedIsAnswered
  <2>1. Keyed(sta) BY DEF Keyed
  <2> QED BY <2>1, AnswersAp
<1> QED BY <1>1, SafeInvariant, PTL
==============================================================================
