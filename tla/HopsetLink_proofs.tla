--------------------------- MODULE HopsetLink_proofs -------------------------
(***************************************************************************)
(* Theorems about the adaptive hopset for every choice of the constants:   *)
(* type correctness, one state per generation, and that the protocol with  *)
(* its losses, replays and restarts implements HopsetAbs; and, each under  *)
(* the conditions its statement names, that nobody swaps early, that the   *)
(* beacon rescues, that the tripwire is not set off by old markers, that   *)
(* changes keep their pace and that a proposal is granted once.            *)
(***************************************************************************)
EXTENDS HopsetLink, FiniteSetTheorems, TLAPS

------------------------------------------------------------------------------
(* Masks, rounds and slots. *)

\* The full mask is legal, and a legal mask is a finite, nonempty set.
LEMMA MaskFacts ==
    /\ FullMask \in LegalMasks /\ LegalMasks \subseteq AllMasks
    /\ \A m \in LegalMasks : Cardinality(m) \in Nat \ {0}
    /\ Cardinality(Base) \in Nat \ {0}
<1>1. Cardinality(Base) \in Nat BY HopsetAssumption, FS_CardinalityType DEF HopsetAssumption
<1>2. MinActive \in Nat /\ MinActive >= 1 /\ MinActive <= Cardinality(Base)
  BY <1>1, HopsetAssumption DEF HopsetAssumption
<1>3. FullMask \in LegalMasks
  BY <1>2 DEF FullMask, LegalMasks, AllMasks, mask_valid
<1>4. ASSUME NEW m \in LegalMasks PROVE Cardinality(m) \in Nat \ {0}
  <2>1. m \subseteq Base /\ Cardinality(m) >= MinActive
    BY DEF LegalMasks, mask_valid
  <2>2. IsFiniteSet(m) BY <2>1, HopsetAssumption, FS_Subset DEF HopsetAssumption
  <2>3. Cardinality(m) \in Nat BY <2>2, FS_CardinalityType
  <2> QED BY <2>1, <2>3, <1>2
<1> QED BY <1>1, <1>2, <1>3, <1>4 DEF LegalMasks

\* A round has at least one slot.
LEMMA RoundLengthType ==
    ASSUME NEW s \in States
    PROVE  RoundLength(s) \in Nat \ {0}
<1>1. s.mask \in LegalMasks BY DEF States
<1> QED BY <1>1, MaskFacts DEF RoundLength

\* The quotient rounds down: the next multiple is ahead.
LEMMA DivisionBound ==
    ASSUME NEW x \in Int, NEW n \in Nat \ {0}, NEW k \in Nat \ {0}
    PROVE  /\ x \div n \in Int
           /\ ((x \div n) + k) * n \in Int
           /\ x < ((x \div n) + k) * n
<1> DEFINE q == x \div n
<1>1. q \in Int /\ x < q * n + n OBVIOUS
<1> HIDE DEF q
<1>2. (q + k) * n = q * n + k * n BY <1>1
<1>3. k * n = (k - 1) * n + n OBVIOUS
<1>4. (k - 1) * n >= 0 OBVIOUS
<1>5. q * n \in Int /\ k * n \in Int /\ (k - 1) * n \in Int /\ (q + k) * n \in Int
  BY <1>1
<1>6. x < (q + k) * n BY <1>1, <1>2, <1>3, <1>4, <1>5
<1> QED BY <1>1, <1>5, <1>6 DEF q

\* round_of is an integer.
LEMMA RoundType ==
    ASSUME NEW s \in States, NEW now \in Int
    PROVE  round_of(s, now) \in Int
<1>1. now - s.activate_slot \in Int BY DEF States
<1> QED BY <1>1, RoundLengthType DEF round_of

\* A slot at or after the activation lies in a round that is not negative.
LEMMA RoundNotNegative ==
    ASSUME NEW s \in States, NEW now \in Int, s.activate_slot <= now
    PROVE  round_of(s, now) \in Nat
<1> DEFINE n == RoundLength(s)
           x == now - s.activate_slot
<1>1. n \in Nat \ {0} BY RoundLengthType
<1>2. x \in Nat BY DEF States
<1> HIDE DEF n, x
<1>3. x \div n \in Nat BY <1>1, <1>2
<1> QED BY <1>3 DEF round_of, n, x

\* A product grows with its factor.
LEMMA ProductGrows ==
    ASSUME NEW i \in Nat, NEW j \in Nat, i >= j, NEW n \in Nat
    PROVE  i * n >= j * n
<1>1. i * n = j * n + (i - j) * n OBVIOUS
<1>2. i - j \in Nat OBVIOUS
<1>3. (i - j) * n \in Nat BY <1>2
<1> QED BY <1>1, <1>3

\* The legacy state of a boot is a state.
LEMMA LegacyType ==
    ASSUME NEW e \in Nat
    PROVE  Legacy(e) \in States
BY MaskFacts DEF Legacy, States

------------------------------------------------------------------------------
(* The authority. *)

\* What follows a running state: the next generation of the same boot.
Follows(a) ==
    a.pend.epoch = a.epoch /\ a.pend.generation = a.cur.generation + 1

\* What a change that starts does to the authority.
Starts(a, b) ==
    /\ ~ a.committing /\ b.committing
    /\ b.epoch = a.epoch /\ b.cur = a.cur /\ Follows(b)

\* A pending state is ahead, LeadRounds whole rounds after the running one.
Leads(a, now) ==
    /\ a.pend.activate_slot > now
    /\ a.pend.activate_slot - a.cur.activate_slot >= LeadRounds * RoundLength(a.cur)

\* A handler that leaves the running and the pending state alone.
Keeps(a, b) ==
    /\ b.epoch = a.epoch /\ b.cur = a.cur /\ b.pend = a.pend
    /\ b.committing = a.committing

\* A mask the validation passes is legal.
LEMMA ReasonFacts ==
    ASSUME NEW a \in AuthorityType, NEW m \in AllMasks, NEW now \in Int
    PROVE  /\ mask_reason(a, m) = "None" => m \in LegalMasks
           /\ change_reason(a, m, now) = "None"
                => ~ a.committing /\ mask_reason(a, m) = "None"
<1>1. ASSUME mask_reason(a, m) = "None" PROVE m \in LegalMasks
  <2>1. m \subseteq Base /\ ~ (Cardinality(m) < MinActive)
    BY <1>1 DEF mask_reason
  <2>2. IsFiniteSet(m) BY <2>1, HopsetAssumption, FS_Subset DEF HopsetAssumption
  <2>3. Cardinality(m) \in Nat BY <2>2, FS_CardinalityType
  <2>4. MinActive \in Int BY MaskFacts, HopsetAssumption DEF HopsetAssumption
  <2> QED BY <2>1, <2>3, <2>4 DEF LegalMasks, mask_valid
<1>2. ASSUME change_reason(a, m, now) = "None"
      PROVE  ~ a.committing /\ mask_reason(a, m) = "None"
  <2>1. "Busy" # "None" OBVIOUS
  <2> HIDE DEF mask_reason
  <2> QED BY <1>2, <2>1 DEF change_reason
<1> QED BY <1>1, <1>2

\* The states an authority holds.
LEMMA AuthorityFields ==
    ASSUME NEW a \in AuthorityType
    PROVE  /\ a.epoch \in Nat /\ a.cur \in States /\ a.pend \in States
           /\ a.committing \in BOOLEAN /\ a.echo \in Exchanges
           /\ a.ring \in Seq(Exchanges)
BY DEF AuthorityType

\* start_commit: a well-typed change that lies in the future.
LEMMA StartCommitFacts ==
    ASSUME NEW a \in AuthorityType, NEW m \in LegalMasks, NEW x \in Exchanges,
           NEW now \in Int
    PROVE  LET b == start_commit(a, m, x, now) IN
           /\ b \in AuthorityType
           /\ b.committing /\ b.epoch = a.epoch /\ b.cur = a.cur /\ Follows(b)
           /\ b.pend.activate_slot > now
           /\ a.cur.activate_slot <= now => Leads(b, now)
<1> DEFINE at == a.cur.activate_slot
                   + (round_of(a.cur, now) + LeadRounds) * RoundLength(a.cur)
           p == [epoch |-> a.epoch, generation |-> a.cur.generation + 1,
                 mask |-> m, activate_slot |-> at]
<1>1. a.cur \in States /\ a.epoch \in Nat BY AuthorityFields
<1>2. a.cur.generation \in Nat /\ a.cur.activate_slot \in Int BY <1>1 DEF States
<1>3. LeadRounds \in Nat \ {0} BY HopsetAssumption DEF HopsetAssumption
<1>4. /\ at \in Int /\ at > now
      /\ a.cur.activate_slot <= now
           => at - a.cur.activate_slot >= LeadRounds * RoundLength(a.cur)
  <2> DEFINE c == a.cur.activate_slot
             n == RoundLength(a.cur)
             w == (((now - c) \div n) + LeadRounds) * n
  <2>1. n \in Nat \ {0} BY <1>1, RoundLengthType
  <2>2. c \in Int /\ now - c \in Int BY <1>2
  <2>3. w \in Int /\ now - c < w
    <3> HIDE DEF c, n
    <3> QED BY <2>1, <2>2, <1>3, DivisionBound
  <2>4. at = c + w BY DEF round_of
  <2>5. ASSUME c <= now PROVE w >= LeadRounds * n
    <3>1. round_of(a.cur, now) \in Nat BY <1>1, <2>5, RoundNotNegative
    <3>2. w = (round_of(a.cur, now) + LeadRounds) * n BY DEF round_of
    <3> HIDE DEF n, w
    <3>3. /\ round_of(a.cur, now) + LeadRounds \in Nat
          /\ round_of(a.cur, now) + LeadRounds >= LeadRounds
      BY <1>3, <3>1
    <3> QED BY <1>3, <2>1, <3>2, <3>3, ProductGrows
  <2>6. at - c = w
    <3> HIDE DEF c, w, at
    <3> QED BY <2>2, <2>3, <2>4
  <2> HIDE DEF w, at
  <2>7. at \in Int /\ at > now
    <3> HIDE DEF c
    <3> QED BY <2>2, <2>3, <2>4
  <2>8. c <= now => at - c >= LeadRounds * n BY <2>5, <2>6
  <2> QED BY <2>7, <2>8
<1> HIDE DEF at
<1>5. p \in States BY <1>1, <1>2, <1>4 DEF States
<1>6. start_commit(a, m, x, now)
        = [a EXCEPT !.pend = p, !.committing = TRUE, !.echo = x, !.last_commit = now]
  BY DEF start_commit, push_commit, at, AuthorityType
<1>7. /\ p.epoch = a.epoch /\ p.generation = a.cur.generation + 1
      /\ p.activate_slot > now
      /\ a.cur.activate_slot <= now
           => p.activate_slot - a.cur.activate_slot >= LeadRounds * RoundLength(a.cur)
  BY <1>4
<1> HIDE DEF p
<1>8. [a EXCEPT !.pend = p, !.committing = TRUE, !.echo = x, !.last_commit = now]
        \in AuthorityType
  BY <1>5 DEF AuthorityType
<1> DEFINE b == [a EXCEPT !.pend = p, !.committing = TRUE, !.echo = x, !.last_commit = now]
<1>9. b.pend = p /\ b.cur = a.cur /\ b.committing /\ b.epoch = a.epoch
  BY DEF AuthorityType
<1> HIDE DEF b
<1>10. Follows(b) /\ (a.cur.activate_slot <= now => Leads(b, now))
  BY <1>7, <1>9 DEF Follows, Leads
<1> QED BY <1>6, <1>7, <1>8, <1>9, <1>10 DEF b

\* The operator's change and the local one start like any other.
LEMMA ChangeFacts ==
    ASSUME NEW a \in AuthorityType, NEW masks \in SUBSET Masks, NEW now \in Int,
           NEW b \in start_change(a, masks, now) \cup start_local_change(a, masks, now)
    PROVE  /\ b \in AuthorityType /\ Starts(a, b) /\ b.pend.activate_slot > now
           /\ a.cur.activate_slot <= now => Leads(b, now)
<1>1. PICK m \in masks : /\ b = start_commit(a, m, NoExchange, now)
                         /\ ~ a.committing /\ mask_reason(a, m) = "None"
  <2>0. \A m \in masks : m \in AllMasks BY DEF AllMasks
  <2>1. CASE b \in start_change(a, masks, now) BY <2>1 DEF start_change
  <2>2. CASE b \in start_local_change(a, masks, now)
    BY <2>0, <2>2, ReasonFacts DEF start_local_change
  <2> QED BY <2>1, <2>2
<1>2. m \in LegalMasks BY <1>1, ReasonFacts DEF AllMasks
<1>3. NoExchange \in Exchanges BY DEF NoExchange, Exchanges
<1> QED BY <1>1, <1>2, <1>3, StartCommitFacts DEF Starts

\* Feedback, a repeated commit and the beacon's time stamp move no state.
LEMMA StampFacts ==
    ASSUME NEW a \in AuthorityType, NEW now \in Int
    PROVE  /\ note_feedback(a, now) \in AuthorityType /\ Keeps(a, note_feedback(a, now))
           /\ push_commit(a, now) \in AuthorityType /\ Keeps(a, push_commit(a, now))
           /\ [a EXCEPT !.last_status = now] \in AuthorityType
           /\ Keeps(a, [a EXCEPT !.last_status = now])
<1>1. round_of(a.cur, now) \in Int BY AuthorityFields, RoundType
<1>2. \A r \in Int : /\ [a EXCEPT !.last_feedback_round = r, !.have_feedback = TRUE]
                          \in AuthorityType
                     /\ Keeps(a, [a EXCEPT !.last_feedback_round = r, !.have_feedback = TRUE])
  BY DEF AuthorityType, Keeps
<1>3. /\ [a EXCEPT !.last_commit = now] \in AuthorityType
      /\ Keeps(a, [a EXCEPT !.last_commit = now])
  BY DEF AuthorityType, Keeps
<1>4. /\ [a EXCEPT !.last_status = now] \in AuthorityType
      /\ Keeps(a, [a EXCEPT !.last_status = now])
  BY DEF AuthorityType, Keeps
<1> QED BY <1>1, <1>2, <1>3, <1>4 DEF note_feedback, push_commit

\* The ring stays a sequence of exchanges.
LEMMA RememberType ==
    ASSUME NEW r \in Seq(Exchanges), NEW x \in Exchanges
    PROVE  remember(r, x) \in Seq(Exchanges)
<1>1. RingDepth \in Nat \ {0} BY HopsetAssumption DEF HopsetAssumption
<1>2. Append(r, x) \in Seq(Exchanges) OBVIOUS
<1>3. CASE Len(r) < RingDepth BY <1>2, <1>3 DEF remember
<1>4. CASE ~ (Len(r) < RingDepth)
  <2>1. r # <<>> BY <1>1, <1>4
  <2>2. Tail(r) \in Seq(Exchanges) BY <2>1
  <2> QED BY <1>4, <2>2 DEF remember
<1> QED BY <1>3, <1>4

\* What the swap at the activation slot does.
Swaps(a, b) ==
    /\ a.committing /\ ~ b.committing /\ b.epoch = a.epoch /\ b.cur = a.pend

LEMMA ActivateFacts ==
    ASSUME NEW a \in AuthorityType, NEW now \in Int
    PROVE  /\ Activate(a, now) \in AuthorityType
           /\ activates(a, now) => Swaps(a, Activate(a, now))
           /\ ~ activates(a, now) => Activate(a, now) = a
<1>1. a.pend \in States BY AuthorityFields
<1>2. round_of(a.pend, now) \in Int BY <1>1, RoundType
<1> DEFINE b(r) == [a EXCEPT !.cur = a.pend, !.committing = FALSE,
                             !.last_activation_round = r, !.have_activation = TRUE]
<1>3. \A r \in Int : b(r) \in AuthorityType /\ (a.committing => Swaps(a, b(r)))
  BY <1>1 DEF AuthorityType, Swaps
<1>4. activates(a, now) => Activate(a, now) = b(round_of(a.pend, now))
  BY DEF Activate, AuthorityType
<1>5. ~ activates(a, now) => Activate(a, now) = a BY DEF Activate
<1>6. activates(a, now) => a.committing BY DEF activates
<1> HIDE DEF b
<1> QED BY <1>2, <1>3, <1>4, <1>5, <1>6

\* on_tick is the swap, or nothing but time stamps.
LEMMA TickFacts ==
    ASSUME NEW a \in AuthorityType, NEW now \in Int
    PROVE  LET b == AfterTick(a, now) IN
           /\ b \in AuthorityType
           /\ activates(a, now) => Swaps(a, b)
           /\ ~ activates(a, now) => Keeps(a, b)
           /\ b.cur = Activate(a, now).cur
<1> DEFINE b == Activate(a, now)
           c == IF repeats(a, now) THEN push_commit(b, now) ELSE b
           d == IF beacons(a, now) THEN [c EXCEPT !.last_status = now] ELSE c
<1>1. b \in AuthorityType BY ActivateFacts
<1>2. c \in AuthorityType /\ Keeps(b, c)
  <2> HIDE DEF b
  <2>1. Keeps(b, b) BY DEF Keeps
  <2> QED BY <1>1, <2>1, StampFacts
<1>3. d \in AuthorityType /\ Keeps(c, d)
  <2> HIDE DEF c
  <2>1. Keeps(c, c) BY DEF Keeps
  <2> QED BY <1>2, <2>1, StampFacts
<1>4. AfterTick(a, now) = d BY DEF AfterTick
<1>5. activates(a, now) => Swaps(a, b) BY ActivateFacts
<1>6. ~ activates(a, now) => b = a BY ActivateFacts
<1> HIDE DEF b, c, d
<1>7. Keeps(b, d) BY <1>2, <1>3 DEF Keeps
<1>8. activates(a, now) => Swaps(a, d) BY <1>5, <1>7 DEF Swaps, Keeps
<1>9. ~ activates(a, now) => Keeps(a, d) BY <1>6, <1>7
<1>10. d.cur = b.cur BY <1>7 DEF Keeps
<1> QED BY <1>3, <1>4, <1>8, <1>9, <1>10 DEF b

\* The swap is followed by a change of the transmitter's own in one pass.
SwapsAndStarts(a, b) ==
    /\ a.committing /\ b.committing /\ b.epoch = a.epoch
    /\ b.cur = a.pend /\ Follows(b)

\* What a step that is no restart does to the authority.
AuthorityMoves(a, b) ==
    /\ b \in AuthorityType
    /\ Keeps(a, b) \/ Starts(a, b) \/ Swaps(a, b) \/ SwapsAndStarts(a, b)

\* The states an authority stands by.
Stated(a) == {a.cur} \cup (IF a.committing THEN {a.pend} ELSE {})

\* What an authority says is what it stands by, and a status tells of the
\* state it runs.
Says(a, ms) ==
    /\ ms \subseteq Commits \cup Statuses
    /\ \A m \in ms : m.state \in Stated(a)
    /\ \A m \in ms : m.type = "STATUS" => m.state = a.cur

\* The frames the authority builds.
LEMMA FrameFacts ==
    ASSUME NEW a \in AuthorityType
    PROVE  /\ \A x \in Exchanges : a.committing => Says(a, {Commit(a.pend, x)})
           /\ \A why \in Reasons, n \in Nat : Says(a, {status_msg(a, why, n)})
<1>1. a.cur \in States /\ a.pend \in States BY AuthorityFields
<1>2. ASSUME NEW x \in Exchanges, a.committing PROVE Says(a, {Commit(a.pend, x)})
  <2>1. /\ Commit(a.pend, x) \in Commits /\ Commit(a.pend, x).state = a.pend
        /\ Commit(a.pend, x).type # "STATUS"
    BY <1>1 DEF Commit, Commits
  <2> QED BY <1>2, <2>1 DEF Says, Stated
<1>3. ASSUME NEW why \in Reasons, NEW n \in Nat
      PROVE  Says(a, {status_msg(a, why, n)})
  <2>1. /\ status_msg(a, why, n) \in Statuses
        /\ status_msg(a, why, n).state = a.cur
    BY <1>1 DEF Status, Statuses, status_msg
  <2> HIDE DEF status_msg
  <2> QED BY <2>1 DEF Says, Stated
<1> QED BY <1>2, <1>3

\* Two authorities with the same states say the same.
LEMMA KeepsSays ==
    ASSUME NEW a, NEW b, NEW ms, Keeps(a, b), Says(a, ms)
    PROVE  Says(b, ms)
<1>1. Stated(a) = Stated(b) /\ a.cur = b.cur BY DEF Keeps, Stated
<1> QED BY <1>1 DEF Says

\* One pass of the transmit loop.
LEMMA TransmitFacts ==
    ASSUME auth \in AuthorityType, tick_slot \in Int,
           NEW ops \in SUBSET Masks, NEW locs \in SUBSET Masks,
           TransmitPass(ops, locs)
    PROVE  /\ AuthorityMoves(auth, auth')
           /\ auth'.cur = auth.cur \/ auth'.cur.activate_slot <= tick_slot
           /\ auth'.committing => auth'.pend.activate_slot > tick_slot
           /\ auth.cur.activate_slot <= tick_slot /\ auth'.committing
                => Keeps(auth, auth') \/ Leads(auth', tick_slot)
           /\ \E ms : air' = air \cup ms /\ Says(auth', ms)
<1>1. PICK a \in {auth} \cup start_change(auth, ops, tick_slot) :
        LET b == AfterTick(a, tick_slot) IN
        \E c \in {b} \cup start_local_change(b, locs, tick_slot) :
            /\ auth' = c
            /\ air' = air \cup StartSends(auth, a) \cup TickSends(a, tick_slot)
                          \cup StartSends(b, c)
  BY DEF TransmitPass
<1> DEFINE b == AfterTick(a, tick_slot)
<1>2. /\ auth' \in {b} \cup start_local_change(b, locs, tick_slot)
      /\ air' = air \cup StartSends(auth, a) \cup TickSends(a, tick_slot)
                    \cup StartSends(b, auth')
  BY <1>1
<1>3. /\ a \in AuthorityType
      /\ \/ a = auth
         \/ /\ Starts(auth, a) /\ a.pend.activate_slot > tick_slot
            /\ auth.cur.activate_slot <= tick_slot => Leads(a, tick_slot)
  BY <1>1, ChangeFacts
<1>4. /\ b \in AuthorityType
      /\ activates(a, tick_slot) => Swaps(a, b)
      /\ ~ activates(a, tick_slot) => Keeps(a, b)
      /\ b.cur = Activate(a, tick_slot).cur
  BY <1>3, TickFacts
<1>5. a # auth => ~ activates(a, tick_slot)
  <2>1. a.pend.activate_slot \in Int BY <1>3, AuthorityFields DEF States
  <2> QED BY <1>3, <2>1 DEF activates
<1> HIDE DEF b
<1>6. /\ auth' \in AuthorityType
      /\ \/ auth' = b
         \/ /\ Starts(b, auth') /\ auth'.pend.activate_slot > tick_slot
            /\ b.cur.activate_slot <= tick_slot => Leads(auth', tick_slot)
  BY <1>2, <1>4, ChangeFacts
<1>7. AuthorityMoves(auth, auth')
  <2>1. CASE a = auth /\ activates(a, tick_slot)
    BY <2>1, <1>4, <1>6 DEF AuthorityMoves, Swaps, Starts, SwapsAndStarts
  <2>2. CASE a = auth /\ ~ activates(a, tick_slot)
    BY <2>2, <1>4, <1>6 DEF AuthorityMoves, Keeps, Starts
  <2>3. CASE a # auth
    BY <2>3, <1>3, <1>4, <1>5, <1>6 DEF AuthorityMoves, Keeps, Starts, Follows
  <2> QED BY <2>1, <2>2, <2>3
<1>8. Says(auth', StartSends(auth, a))
  <2>1. CASE a = auth BY <2>1 DEF StartSends, Says
  <2>2. CASE a # auth
    <3>1. Keeps(a, auth')
      BY <2>2, <1>3, <1>4, <1>5, <1>6 DEF Keeps, Starts
    <3>2. StartSends(auth, a) = {Commit(a.pend, NoExchange)}
      BY <2>2, <1>3 DEF StartSends, Starts
    <3>3. NoExchange \in Exchanges BY DEF NoExchange, Exchanges
    <3>4. a.committing BY <2>2, <1>3 DEF Starts
    <3>5. Says(a, {Commit(a.pend, NoExchange)}) BY <1>3, <3>3, <3>4, FrameFacts
    <3> QED BY <3>1, <3>2, <3>5, KeepsSays
  <2> QED BY <2>1, <2>2
<1>9. Says(auth', StartSends(b, auth'))
  <2>1. CASE auth' = b BY <2>1 DEF StartSends, Says
  <2>2. CASE Starts(b, auth')
    <3>1. StartSends(b, auth') = {Commit(auth'.pend, NoExchange)}
      BY <2>2 DEF StartSends, Starts
    <3>2. NoExchange \in Exchanges BY DEF NoExchange, Exchanges
    <3> QED BY <2>2, <1>6, <3>1, <3>2, FrameFacts DEF Starts
  <2> QED BY <1>6, <2>1, <2>2
<1>10. Says(auth', TickSends(a, tick_slot))
  <2> DEFINE rep == IF repeats(a, tick_slot) THEN {Commit(a.pend, a.echo)} ELSE {}
             st == Activate(a, tick_slot)
             bea == IF beacons(a, tick_slot) THEN {status_msg(st, "None", 0)} ELSE {}
  <2>1. Says(auth', rep)
    <3>1. CASE repeats(a, tick_slot)
      <4>1. a.committing /\ ~ activates(a, tick_slot) BY <3>1 DEF repeats
      <4>2. Keeps(a, auth') BY <4>1, <1>4, <1>6 DEF Keeps, Starts
      <4>3. Says(a, {Commit(a.pend, a.echo)})
        BY <1>3, <4>1, FrameFacts, AuthorityFields
      <4> QED BY <3>1, <4>2, <4>3, KeepsSays
    <3>2. CASE ~ repeats(a, tick_slot) BY <3>2 DEF Says
    <3> QED BY <3>1, <3>2
  <2>2. Says(auth', bea)
    <3>1. st \in AuthorityType BY <1>3, ActivateFacts
    <3>2. auth'.cur = st.cur BY <1>4, <1>6 DEF Starts
    <3>3. "None" \in Reasons /\ 0 \in Nat BY DEF Reasons
    <3> HIDE DEF st
    <3>4. status_msg(st, "None", 0) = status_msg(auth', "None", 0)
      BY <3>2 DEF status_msg
    <3>5. Says(auth', {status_msg(auth', "None", 0)}) BY <1>6, <3>3, FrameFacts
    <3>6. Says(auth', {}) BY DEF Says
    <3> QED BY <3>4, <3>5, <3>6
  <2>3. TickSends(a, tick_slot) = rep \cup bea BY DEF TickSends
  <2> HIDE DEF rep, bea
  <2> QED BY <2>1, <2>2, <2>3 DEF Says
<1>11. Says(auth', StartSends(auth, a) \cup TickSends(a, tick_slot)
                     \cup StartSends(b, auth'))
  BY <1>8, <1>9, <1>10 DEF Says
<1>12. air' = air \cup (StartSends(auth, a) \cup TickSends(a, tick_slot)
                          \cup StartSends(b, auth'))
  BY <1>2
<1>13. auth'.cur = auth.cur \/ auth'.cur.activate_slot <= tick_slot
  <2>1. auth'.cur = b.cur /\ a.cur = auth.cur BY <1>3, <1>6 DEF Starts
  <2>2. CASE activates(a, tick_slot)
    <3>1. a.pend.activate_slot \in Int BY <1>3, AuthorityFields DEF States
    <3> QED BY <1>4, <2>1, <2>2, <3>1 DEF Swaps, activates
  <2>3. CASE ~ activates(a, tick_slot) BY <1>4, <2>1, <2>3 DEF Keeps
  <2> QED BY <2>2, <2>3
<1>14. auth'.committing =>
         /\ auth'.pend.activate_slot > tick_slot
         /\ auth.cur.activate_slot <= tick_slot
              => Keeps(auth, auth') \/ Leads(auth', tick_slot)
  <2>1. CASE Starts(b, auth')
    <3>1. auth'.pend.activate_slot > tick_slot BY <1>4, <1>6, <2>1 DEF Starts
    <3>2. b.cur.activate_slot <= tick_slot => Leads(auth', tick_slot)
      BY <1>4, <1>6, <2>1 DEF Starts
    <3>3. b.cur = auth.cur \/ b.cur.activate_slot <= tick_slot
      BY <1>13, <2>1 DEF Starts
    <3> QED BY <3>1, <3>2, <3>3
  <2>2. CASE auth' = b /\ auth'.committing
    <3>1. ~ activates(a, tick_slot) /\ Keeps(a, auth') BY <1>4, <2>2 DEF Swaps
    <3>2. a.pend.activate_slot \in Int BY <1>3, AuthorityFields DEF States
    <3>3. auth'.pend.activate_slot > tick_slot
      BY <2>2, <3>1, <3>2 DEF activates, Keeps
    <3>4. Leads(a, tick_slot) => Leads(auth', tick_slot) BY <3>1 DEF Keeps, Leads
    <3> QED BY <1>3, <3>1, <3>3, <3>4
  <2> QED BY <1>6, <2>1, <2>2
<1> QED BY <1>7, <1>11, <1>12, <1>13, <1>14

\* A proposal is answered, or starts a change and is answered with it.
LEMMA ProposalFacts ==
    ASSUME auth \in AuthorityType, tick_slot \in Int, NEW m \in Proposals,
           on_proposal(m)
    PROVE  /\ AuthorityMoves(auth, auth') /\ auth'.cur = auth.cur
           /\ auth.cur.activate_slot <= tick_slot /\ auth'.committing
                => Keeps(auth, auth') \/ Leads(auth', tick_slot)
           /\ \E ms : air' = air \cup ms /\ Says(auth', ms)
<1> DEFINE a == note_feedback(auth, tick_slot)
           why == proposal_reason(a, m, tick_slot)
<1>1. a \in AuthorityType /\ Keeps(auth, a) BY StampFacts
<1>2. m.exchange \in Exchanges /\ m.mask \in AllMasks /\ m.exchange.nonce \in Nat
  BY DEF Proposals, Exchanges
<1>3. CASE /\ reanswers(a, m)
           /\ auth' = push_commit(a, tick_slot)
           /\ air' = air \cup {Commit(a.pend, a.echo)}
  <2> HIDE DEF a
  <2>1. auth' \in AuthorityType /\ Keeps(a, auth') BY <1>1, <1>3, StampFacts
  <2>2. a.committing BY <1>3 DEF reanswers
  <2>3. Says(a, {Commit(a.pend, a.echo)})
    BY <1>1, <2>2, FrameFacts, AuthorityFields
  <2>4. Says(auth', {Commit(a.pend, a.echo)}) BY <2>1, <2>3, KeepsSays
  <2>5. Keeps(auth, auth') BY <1>1, <2>1 DEF Keeps
  <2> QED BY <1>3, <2>1, <2>4, <2>5 DEF AuthorityMoves, Keeps
<1>4. CASE /\ ~ reanswers(a, m) /\ why # "None"
           /\ auth' = a
           /\ air' = air \cup {status_msg(a, why, m.exchange.nonce)}
  <2>1. why \in Reasons
    BY DEF why, proposal_reason, change_reason, mask_reason, limit_reason, Reasons
  <2> HIDE DEF a, why
  <2>2. auth'.cur = auth.cur BY <1>1, <1>4 DEF Keeps
  <2> QED BY <1>1, <1>2, <1>4, <2>1, <2>2, FrameFacts DEF AuthorityMoves
<1>5. CASE /\ why = "None"
           /\ auth' = Accepts(a, m, tick_slot)
           /\ air' = air \cup {Commit(auth'.pend, m.exchange)}
  <2>1. change_reason(a, m.mask, tick_slot) = "None"
    <3>1. "ReplayGen" # "None" OBVIOUS
    <3> HIDE DEF a
    <3> QED BY <1>5, <3>1 DEF proposal_reason
  <2> HIDE DEF a, why
  <2>2. ~ a.committing /\ m.mask \in LegalMasks BY <1>1, <1>2, <2>1, ReasonFacts
  <2> DEFINE b == [a EXCEPT !.ring = remember(@, m.exchange)]
  <2>3. b \in AuthorityType /\ Keeps(a, b)
    <3>1. remember(a.ring, m.exchange) \in Seq(Exchanges)
      BY <1>1, <1>2, AuthorityFields, RememberType
    <3> QED BY <1>1, <3>1 DEF AuthorityType, Keeps
  <2>4. auth' = start_commit(b, m.mask, m.exchange, tick_slot)
    BY <1>5 DEF Accepts
  <2> HIDE DEF b
  <2>5. /\ auth' \in AuthorityType /\ auth'.committing /\ auth'.epoch = b.epoch
        /\ auth'.cur = b.cur /\ Follows(auth')
        /\ b.cur.activate_slot <= tick_slot => Leads(auth', tick_slot)
    BY <1>2, <2>2, <2>3, <2>4, StartCommitFacts
  <2>6. Starts(auth, auth') BY <1>1, <2>2, <2>3, <2>5 DEF Keeps, Starts
  <2>7. Says(auth', {Commit(auth'.pend, m.exchange)}) BY <1>2, <2>5, FrameFacts
  <2>8. auth'.cur = auth.cur BY <2>6 DEF Starts
  <2> QED BY <1>5, <2>5, <2>6, <2>7, <2>8 DEF AuthorityMoves
<1>6. \/ /\ reanswers(a, m)
         /\ auth' = push_commit(a, tick_slot)
         /\ air' = air \cup {Commit(a.pend, a.echo)}
      \/ /\ ~ reanswers(a, m) /\ why # "None"
         /\ auth' = a
         /\ air' = air \cup {status_msg(a, why, m.exchange.nonce)}
      \/ /\ why = "None"
         /\ auth' = Accepts(a, m, tick_slot)
         /\ air' = air \cup {Commit(auth'.pend, m.exchange)}
  BY DEF on_proposal
<1> QED BY <1>3, <1>4, <1>5, <1>6

------------------------------------------------------------------------------
(* The follower. *)

\* What an adoption does: it runs the state it is given, at once.
Adopts(f, g, s) ==
    /\ g \in FollowerType /\ g.cur = s /\ g.st = "Synced"
    /\ g.have_auth = f.have_auth /\ g.auth_epoch = f.auth_epoch
    /\ g.have_prev /\ g.activated_slot = s.activate_slot

\* A step that leaves the running state and the tracked boot alone.
Stays(f, g) ==
    /\ g \in FollowerType /\ g.cur = f.cur
    /\ g.have_auth = f.have_auth /\ g.auth_epoch = f.auth_epoch
    /\ g.st = "Pending" => f.st = "Pending" /\ g.pend = f.pend
    /\ g.have_prev = f.have_prev /\ g.activated_slot = f.activated_slot

\* The members of the follower are typed.
LEMMA FollowerFields ==
    ASSUME NEW f \in FollowerType
    PROVE  /\ f.epoch \in Nat /\ f.nonce \in Nat /\ f.tries \in Nat /\ f.mask \in AllMasks
           /\ f.cur \in States /\ f.pend \in States /\ f.auth_epoch \in Nat
           /\ f.st \in FollowerStates /\ f.have_auth \in BOOLEAN
BY DEF FollowerType

\* adopt_epoch and activate.
LEMMA AdoptFacts ==
    ASSUME NEW f \in FollowerType, NEW s \in States, NEW e \in Nat
    PROVE  /\ Adopts(f, FolActivate(f, s), s)
           /\ adopt_epoch(f, e) \in FollowerType
           /\ adopt_epoch(f, e).cur = f.cur /\ adopt_epoch(f, e).st = f.st
           /\ adopt_epoch(f, e).have_auth /\ adopt_epoch(f, e).auth_epoch = e
           /\ adopt_epoch(f, e).have_prev = f.have_prev
           /\ adopt_epoch(f, e).activated_slot = f.activated_slot
<1>1. s.activate_slot \in Int /\ f.cur.generation \in Nat
  BY FollowerFields DEF States
<1>2. \A n \in Nat, i \in Int : i = s.activate_slot =>
        Adopts(f, [f EXCEPT !.have_prev = TRUE, !.prev_generation = n,
                     !.activated_slot = i, !.pend = s, !.cur = s, !.st = "Synced"], s)
  BY ZenonT(60) DEF FollowerType, FollowerStates, Adopts
<1>3. Adopts(f, FolActivate(f, s), s) BY <1>1, <1>2 DEF FolActivate
<1>4. /\ adopt_epoch(f, e) \in FollowerType
      /\ adopt_epoch(f, e).cur = f.cur /\ adopt_epoch(f, e).st = f.st
      /\ adopt_epoch(f, e).have_auth /\ adopt_epoch(f, e).auth_epoch = e
      /\ adopt_epoch(f, e).have_prev = f.have_prev
      /\ adopt_epoch(f, e).activated_slot = f.activated_slot
  BY DEF FollowerType, adopt_epoch
<1> QED BY <1>3, <1>4

\* A state that is adopted or armed together with its boot.
Takes(f, g, s) ==
    /\ g \in FollowerType /\ g.have_auth /\ g.auth_epoch = s.epoch
    /\ \/ /\ g.cur = s /\ g.st = "Synced"
          /\ g.have_prev /\ g.activated_slot = s.activate_slot
       \/ /\ g.cur = f.cur /\ g.st = "Pending" /\ g.pend = s
          /\ g.have_prev = f.have_prev /\ g.activated_slot = f.activated_slot

\* An accepted commit is adopted or armed.
LEMMA CommitFacts ==
    ASSUME NEW f \in FollowerType, NEW s \in States, NEW now \in Int
    PROVE  /\ Takes(f, AfterCommit(f, s, now), s)
           /\ AfterCommit(f, s, now).cur = f.cur \/ s.activate_slot <= now
<1> DEFINE g == adopt_epoch(f, s.epoch)
<1>1. s.epoch \in Nat BY DEF States
<1>2. /\ g \in FollowerType /\ g.cur = f.cur
      /\ g.have_auth /\ g.auth_epoch = s.epoch
      /\ g.have_prev = f.have_prev /\ g.activated_slot = f.activated_slot
  BY <1>1, AdoptFacts
<1> HIDE DEF g
<1>3. Takes(f, FolActivate(g, s), s) BY <1>2, AdoptFacts DEF Takes, Adopts
<1>4. /\ Takes(f, [g EXCEPT !.pend = s, !.st = "Pending"], s)
      /\ [g EXCEPT !.pend = s, !.st = "Pending"].cur = f.cur
  BY <1>2 DEF Takes, FollowerType, FollowerStates
<1> QED BY <1>3, <1>4 DEF AfterCommit, g

\* A newer status is adopted.
LEMMA StatusFacts ==
    ASSUME NEW f \in FollowerType, NEW s \in States
    PROVE  Takes(f, FolActivate(adopt_epoch(f, s.epoch), s), s)
<1> DEFINE g == adopt_epoch(f, s.epoch)
<1>1. s.epoch \in Nat BY DEF States
<1>2. g \in FollowerType /\ g.have_auth /\ g.auth_epoch = s.epoch
  BY <1>1, AdoptFacts
<1> HIDE DEF g
<1> QED BY <1>2, AdoptFacts DEF Takes, Adopts, g

\* Leaving for Synced, and the marker's tripwire.
LEMMA StaysFacts ==
    ASSUME NEW f \in FollowerType
    PROVE  /\ Stays(f, f) /\ Stays(f, [f EXCEPT !.st = "Synced"])
           /\ \A n \in Nat :
                Stays(f, [f EXCEPT !.mismatch_gen = n, !.st = "Recovering"])
           /\ \A n \in Nat, m \in AllMasks, i \in Int :
                Stays(f, [f EXCEPT !.nonce = n, !.mask = m, !.tries = 1,
                                   !.last_prop = i, !.st = "Proposing"])
           /\ \A n \in Nat, i \in Int :
                Stays(f, [f EXCEPT !.tries = n, !.last_prop = i])
           /\ \A i \in Int :
                Stays(f, [f EXCEPT !.have_anchor = TRUE, !.last_status = i])
<1>1. Stays(f, f) /\ Stays(f, [f EXCEPT !.st = "Synced"])
  BY DEF Stays, FollowerType, FollowerStates
<1>2. ASSUME NEW n \in Nat
      PROVE  Stays(f, [f EXCEPT !.mismatch_gen = n, !.st = "Recovering"])
  BY DEF Stays, FollowerType, FollowerStates
<1>3. ASSUME NEW n \in Nat, NEW m \in AllMasks, NEW i \in Int
      PROVE  Stays(f, [f EXCEPT !.nonce = n, !.mask = m, !.tries = 1,
                                !.last_prop = i, !.st = "Proposing"])
  BY DEF Stays, FollowerType, FollowerStates
<1>4. ASSUME NEW n \in Nat, NEW i \in Int
      PROVE  Stays(f, [f EXCEPT !.tries = n, !.last_prop = i])
  BY DEF Stays, FollowerType, FollowerStates
<1>5. ASSUME NEW i \in Int
      PROVE  Stays(f, [f EXCEPT !.have_anchor = TRUE, !.last_status = i])
  BY DEF Stays, FollowerType, FollowerStates
<1> QED BY <1>1, <1>2, <1>3, <1>4, <1>5

\* The proposals and heartbeats the follower sends are messages.
LEMMA FollowerFrames ==
    ASSUME NEW f \in FollowerType
    PROVE  /\ \A m \in AllMasks : Proposal(Outstanding(f), m) \in Proposals
           /\ [type |-> "HEARTBEAT", epoch |-> f.epoch] \in Heartbeats
BY FollowerFields DEF Proposal, Outstanding, Proposals, Exchanges, Heartbeats

\* on_tick of the follower: the armed swap, or nothing that moves a state.
LEMMA FolTickFacts ==
    ASSUME fol \in FollowerType, fslot \in Int, fol_tick
    PROVE  /\ \/ /\ fol.st = "Pending" /\ fslot >= fol.pend.activate_slot
                 /\ Adopts(fol, fol', fol.pend)
              \/ Stays(fol, fol') /\ fol'.st \in {fol.st, "Synced"}
           /\ \E ms \in SUBSET (Proposals \cup Heartbeats) : air' = air \cup ms
<1> DEFINE f == AfterRetry(fol, fslot)
           g == AfterBeat(f, fslot)
           ms == (IF FolRetry(fol, fslot)
                  THEN {Proposal(Outstanding(fol), fol.mask)} ELSE {})
                 \cup (IF FolBeats(f, fslot)
                       THEN {[type |-> "HEARTBEAT", epoch |-> fol.epoch]} ELSE {})
<1>1. Stays(fol, f)
  <2>1. fol.tries + 1 \in Nat BY FollowerFields
  <2> QED BY <2>1, StaysFacts DEF AfterRetry
<1>2. Stays(f, g)
  <2>1. f \in FollowerType BY <1>1 DEF Stays
  <2> HIDE DEF f
  <2> QED BY <2>1, StaysFacts DEF AfterBeat
<1>3. Stays(fol, g) BY <1>1, <1>2 DEF Stays
<1>s. g.st = fol.st
  <2>1. f.st = fol.st BY DEF AfterRetry, FollowerType
  <2>2. f \in FollowerType BY <1>1 DEF Stays
  <2> HIDE DEF f
  <2> QED BY <2>1, <2>2 DEF AfterBeat, FollowerType
<1>4. ms \in SUBSET (Proposals \cup Heartbeats)
  BY FollowerFields, FollowerFrames
<1>0. UNCHANGED air => \E ns \in SUBSET (Proposals \cup Heartbeats) : air' = air \cup ns
  <2>1. air = air \cup {} /\ {} \in SUBSET (Proposals \cup Heartbeats) OBVIOUS
  <2> QED BY <2>1
<1>5. CASE FolSwap(fol, fslot) /\ fol' = FolActivate(fol, fol.pend) /\ UNCHANGED air
  <2>1. fol.pend \in States BY FollowerFields
  <2>2. Adopts(fol, fol', fol.pend) BY <1>5, <2>1, AdoptFacts
  <2> QED BY <1>0, <1>5, <2>2 DEF FolSwap
<1>6. CASE fol' = [fol EXCEPT !.st = "Synced"] /\ UNCHANGED air
  <2>1. Stays(fol, fol') BY <1>6, StaysFacts
  <2>2. fol'.st = "Synced" BY <1>6 DEF FollowerType
  <2> QED BY <1>0, <1>6, <2>1, <2>2
<1>7. CASE fol' = g /\ air' = air \cup ms
  <2> HIDE DEF g, ms
  <2> QED BY <1>3, <1>s, <1>4, <1>7
<1>8. \/ FolSwap(fol, fslot) /\ fol' = FolActivate(fol, fol.pend) /\ UNCHANGED air
      \/ fol' = [fol EXCEPT !.st = "Synced"] /\ UNCHANGED air
      \/ fol' = g /\ air' = air \cup ms
  BY DEF fol_tick
<1> QED BY <1>5, <1>6, <1>7, <1>8

------------------------------------------------------------------------------
(* Type correctness. *)

\* A fresh authority and a fresh follower are well typed.
LEMMA FreshTypes ==
    ASSUME NEW e \in Nat
    PROVE  /\ NewAuthority(e) \in AuthorityType /\ NewFollower(e) \in FollowerType
           /\ NoMarker \in Markers
<1>1. Legacy(e) \in States /\ Legacy(0) \in States BY LegacyType
<1>2. FullMask \in AllMasks BY DEF AllMasks
<1>3. NoExchange \in Exchanges BY DEF NoExchange, Exchanges
<1>4. <<>> \in Seq(Exchanges) OBVIOUS
<1>5. NewAuthority(e) \in AuthorityType
  BY <1>1, <1>3, <1>4 DEF NewAuthority, AuthorityType
<1>6. NewFollower(e) \in FollowerType
  BY <1>1, <1>2 DEF NewFollower, FollowerType, FollowerStates
<1>7. NoMarker \in Markers BY <1>1 DEF NoMarker, Markers
<1> QED BY <1>5, <1>6, <1>7

\* The initial state is well typed.
LEMMA InitType == Init => TypeOK
<1> SUFFICES ASSUME Init PROVE TypeOK OBVIOUS
<1>1. Legacy(0) \in States /\ Legacy(1) \in States BY LegacyType
<1> QED BY <1>1, FreshTypes DEF Init, TypeOK

\* The parts of TypeOK a step of the authority and of the follower move.
LEMMA AuthoritySideType ==
    ASSUME TypeOK, AuthorityMoves(auth, auth'), NEW ms, Says(auth', ms),
           air' = air \cup ms, Promise
    PROVE  /\ auth' \in AuthorityType /\ air' \subseteq Messages
           /\ promised' \subseteq States
<1>1. auth' \in AuthorityType BY DEF AuthorityMoves
<1>2. auth'.pend \in States BY <1>1, AuthorityFields
<1>3. promised' \subseteq States BY <1>2 DEF Promise, TypeOK
<1>4. air' \subseteq Messages BY DEF Says, Messages, TypeOK
<1> QED BY <1>1, <1>3, <1>4

\* A proposal on the air is a proposal, and so on.
LEMMA AirTypes ==
    ASSUME TypeOK, NEW m \in air
    PROVE  /\ m.type = "PROPOSAL" => m \in Proposals
           /\ m.type = "COMMIT" => m \in Commits
           /\ m.type = "STATUS" => m \in Statuses
BY DEF TypeOK, Messages, Proposals, Heartbeats, Commits, Statuses

\* The answers on_status gives in terms of what it does to the follower.
LEMMA OnStatusFacts ==
    ASSUME fol \in FollowerType, NEW m \in Statuses, on_status(m),
           m.state.generation = 0 => m.state.mask = FullMask
    PROVE  /\ \/ Stays(fol, fol')
              \/ StatusNewer(fol, m, fslot) /\ Takes(fol, fol', m.state)
           /\ fol'.st = "Synced"
<1>1. m.state \in States BY DEF Statuses
<1>2. StatusState(m) = m.state BY <1>1 DEF StatusState, States
<1>3. CASE fol' = [fol EXCEPT !.st = "Synced"]
  <2>1. fol'.st = "Synced" BY <1>3 DEF FollowerType
  <2> QED BY <1>3, <2>1, StaysFacts
<1>4. CASE /\ StatusNewer(fol, m, fslot)
           /\ fol' = FolActivate(adopt_epoch(fol, m.state.epoch), StatusState(m))
  <2>1. fol'.st = "Synced" BY <1>4 DEF FolActivate, adopt_epoch, FollowerType
  <2> QED BY <1>1, <1>2, <1>4, <2>1, StatusFacts
<1> QED BY <1>3, <1>4 DEF on_status

\* on_status keeps the type whatever the mask of generation 0.
LEMMA OnStatusType ==
    ASSUME fol \in FollowerType, NEW m \in Statuses, on_status(m)
    PROVE  fol' \in FollowerType
<1>1. m.state \in States BY DEF Statuses
<1>2. m.state.epoch \in Nat BY <1>1 DEF States
<1>3. StatusState(m) \in States BY <1>1, MaskFacts DEF StatusState, States
<1> DEFINE g == adopt_epoch(fol, m.state.epoch)
<1>4. g \in FollowerType BY <1>1, <1>2, AdoptFacts
<1> HIDE DEF g
<1>5. FolActivate(g, StatusState(m)) \in FollowerType
  <2> HIDE DEF StatusState
  <2> QED BY <1>3, <1>4, AdoptFacts DEF Adopts
<1>6. [fol EXCEPT !.st = "Synced"] \in FollowerType BY StaysFacts DEF Stays
<1> QED BY <1>5, <1>6 DEF on_status, g

\* What the marker does to the follower.
LEMMA MarkerFacts ==
    ASSUME fol \in FollowerType, NEW mk \in Markers
    PROVE  Stays(fol, marker_effect(fol, mk))
<1>1. mk.state.generation \in Nat BY DEF Markers, States
<1> QED BY <1>1, StaysFacts DEF marker_effect

\* Every step keeps the types.
LEMMA NextType == TypeOK /\ [Next]_vars => TypeOK'
<1> SUFFICES ASSUME TypeOK, [Next]_vars PROVE TypeOK' OBVIOUS
<1> USE DEF authVars, folVars, world, history
<1>0. /\ auth \in AuthorityType /\ fol \in FollowerType /\ tick_slot \in Int
      /\ fslot \in Int /\ slot \in Int /\ flight \in Markers
      /\ air \subseteq Messages /\ promised \subseteq States
  BY DEF TypeOK
<1>1. CASE HearProposal
  <2>1. PICK m \in air :
          /\ m.type = "PROPOSAL" /\ on_proposal(m)
          /\ grants' = IF ~ auth.committing /\ auth'.committing
                       THEN grants \cup {[epoch |-> auth.epoch, exchange |-> m.exchange,
                                          generation |-> auth'.pend.generation]}
                       ELSE grants
    BY <1>1 DEF HearProposal
  <2>2. m \in Proposals BY <2>1, AirTypes
  <2>3. PICK ms : air' = air \cup ms /\ Says(auth', ms)
    BY <1>0, <2>1, <2>2, ProposalFacts
  <2>4. AuthorityMoves(auth, auth') BY <1>0, <2>1, <2>2, ProposalFacts
  <2>5. Promise BY <1>1 DEF HearProposal
  <2>6. auth' \in AuthorityType /\ air' \subseteq Messages /\ promised' \subseteq States
    BY <2>3, <2>4, <2>5, AuthoritySideType
  <2>7. grants' \subseteq Grants
    <3>1. auth'.pend.generation \in Nat BY <2>6, AuthorityFields DEF States
    <3>2. m.exchange \in Exchanges /\ auth.epoch \in Nat
      BY <1>0, <2>2, AuthorityFields DEF Proposals
    <3> QED BY <2>1, <3>1, <3>2 DEF TypeOK, Grants
  <2> QED BY <1>1, <2>6, <2>7 DEF HearProposal, TypeOK
<1>2. CASE VetoProposal
  <2>1. PICK m \in air : m.type = "PROPOSAL" /\ reject_proposal(m)
    BY <1>2 DEF VetoProposal
  <2>2. m.exchange.nonce \in Nat BY <2>1, AirTypes DEF Proposals, Exchanges
  <2>3. "TxVeto" \in Reasons BY DEF Reasons
  <2>4. status_msg(auth, "TxVeto", m.exchange.nonce) \in Messages
    BY <1>0, <2>2, <2>3, FrameFacts DEF Says, Messages
  <2> QED BY <1>0, <1>2, <2>1, <2>4 DEF VetoProposal, reject_proposal, TypeOK
<1>3. CASE HearHeartbeat
  BY <1>0, <1>3, StampFacts DEF HearHeartbeat, on_heartbeat, TypeOK
<1>4. CASE NewSlot
  BY <1>4 DEF NewSlot, StoreSlot, TypeOK
<1>5. CASE AuthorityTick
  <2>1. OperatorMasks \in SUBSET Masks /\ LocalMasks \in SUBSET Masks
    BY LinkAssumption DEF LinkAssumption
  <2>2. TransmitPass(OperatorMasks, LocalMasks) /\ Promise BY <1>5 DEF AuthorityTick
  <2>3. PICK ms : air' = air \cup ms /\ Says(auth', ms)
    BY <1>0, <2>1, <2>2, TransmitFacts
  <2>4. AuthorityMoves(auth, auth') BY <1>0, <2>1, <2>2, TransmitFacts
  <2>5. auth' \in AuthorityType /\ air' \subseteq Messages /\ promised' \subseteq States
    BY <2>2, <2>3, <2>4, AuthoritySideType
  <2> QED BY <1>5, <2>5 DEF AuthorityTick, TransmitPass, TypeOK
<1>6. CASE StampMarker
  <2>1. [epoch |-> auth.epoch, slot |-> slot, state |-> auth.cur] \in Markers
    BY <1>0, AuthorityFields DEF Markers
  <2> QED BY <1>6, <2>1 DEF StampMarker, TypeOK
<1>7. CASE AuthorityRestart
  <2>1. auth.epoch + 1 \in Nat BY <1>0, AuthorityFields
  <2>2. auth' \in AuthorityType BY <1>7, <2>1, FreshTypes DEF AuthorityRestart
  <2>3. promised' \subseteq States
    BY <1>0, <1>7, <2>2, AuthorityFields DEF AuthorityRestart
  <2>4. air' \subseteq Messages BY <1>0, <1>7 DEF AuthorityRestart, OldFrames
  <2> QED BY <1>7, <2>2, <2>3, <2>4 DEF AuthorityRestart, TypeOK
<1>8. CASE AuthorityResume
  <2>1. auth.epoch + 1 \in Nat /\ auth.cur \in States BY <1>0, AuthorityFields
  <2>2. [auth.cur EXCEPT !.epoch = auth.epoch + 1] \in States BY <2>1 DEF States
  <2>3. auth' \in AuthorityType
    <3>1. \A a \in AuthorityType, s \in States : [a EXCEPT !.cur = s] \in AuthorityType
      BY DEF AuthorityType
    <3> QED BY <1>8, <2>1, <2>2, <3>1, FreshTypes DEF AuthorityResume, restore
  <2>4. promised' \subseteq States
    BY <1>0, <1>8, <2>3, AuthorityFields DEF AuthorityResume
  <2>5. air' \subseteq Messages BY <1>0, <1>8 DEF AuthorityResume, OldFrames
  <2> QED BY <1>8, <2>3, <2>4, <2>5 DEF AuthorityResume, TypeOK
<1>9. CASE FollowerPropose
  <2>1. PICK mask \in ProposedMasks : propose(mask, fol.nonce + 1)
    BY <1>9 DEF FollowerPropose
  <2>2. mask \in AllMasks BY LinkAssumption DEF LinkAssumption, AllMasks
  <2>3. fol.nonce + 1 \in Nat BY <1>0, FollowerFields
  <2>4. fol' \in FollowerType BY <1>0, <2>1, <2>2, <2>3, StaysFacts DEF propose, Stays
  <2>5. Proposal(Outstanding(fol'), mask) \in Messages
    BY <2>2, <2>4, FollowerFrames DEF Messages
  <2> QED BY <1>0, <1>9, <2>1, <2>4, <2>5 DEF FollowerPropose, propose, TypeOK
<1>10. CASE HearCommit
  <2>1. PICK m \in air : m.type = "COMMIT" /\ on_commit(m) BY <1>10 DEF HearCommit
  <2>2. m.state \in States BY <2>1, AirTypes DEF Commits
  <2>3. fol' \in FollowerType
    BY <1>0, <2>1, <2>2, CommitFacts DEF on_commit, Takes
  <2> QED BY <1>10, <2>1, <2>3 DEF HearCommit, on_commit, TypeOK
<1>11. CASE HearStatus
  <2>1. PICK m \in air : m.type = "STATUS" /\ on_status(m) BY <1>11 DEF HearStatus
  <2>2. fol' \in FollowerType BY <1>0, <2>1, AirTypes, OnStatusType
  <2>3. UNCHANGED <<fslot, hop_epoch, air>> BY <2>1 DEF on_status
  <2> QED BY <1>11, <2>2, <2>3 DEF HearStatus, TypeOK
<1>12. CASE HearMarker
  <2>1. fol' \in FollowerType
    BY <1>0, <1>12, MarkerFacts DEF HearMarker, on_marker, Stays
  <2>2. flight.slot \in Int /\ flight.epoch \in Nat BY <1>0 DEF Markers
  <2>3. fslot' \in Int /\ hop_epoch' \in Nat
    BY <1>0, <1>12, <2>2 DEF HearMarker, on_marker, Anchored
  <2>4. flight' \in Markers BY <1>12, FreshTypes DEF HearMarker
  <2> QED BY <1>12, <2>1, <2>3, <2>4 DEF HearMarker, on_marker, TypeOK
<1>13. CASE FollowerTick
  <2>1. fol_tick BY <1>13 DEF FollowerTick
  <2>2. fol' \in FollowerType BY <1>0, <2>1, FolTickFacts DEF Stays, Adopts
  <2>3. PICK ms \in SUBSET (Proposals \cup Heartbeats) : air' = air \cup ms
    BY <1>0, <2>1, FolTickFacts
  <2>4. air' \subseteq Messages BY <1>0, <2>3 DEF Messages
  <2>5. UNCHANGED <<fslot, hop_epoch>> BY <2>1 DEF fol_tick
  <2> QED BY <1>13, <2>2, <2>4, <2>5 DEF FollowerTick, TypeOK
<1>14. CASE FollowerRestart
  <2>1. fol.epoch + 1 \in Nat BY <1>0, FollowerFields
  <2> QED BY <1>14, <2>1, FreshTypes DEF FollowerRestart, TypeOK
<1>15. CASE SlotPasses
  <2>1. flight' \in Markers BY <1>0, <1>15, FreshTypes DEF SlotPasses
  <2> QED BY <1>0, <1>15, <2>1 DEF SlotPasses, TypeOK
<1>16. CASE UNCHANGED vars
  BY <1>16 DEF vars, TypeOK
<1> QED BY <1>1, <1>2, <1>3, <1>4, <1>5, <1>6, <1>7, <1>8, <1>9, <1>10, <1>11,
           <1>12, <1>13, <1>14, <1>15, <1>16 DEF Next

(***************************************************************************)
(* Type correctness of the hopset link: in particular every state that is  *)
(* committed, advertised or run has a legal mask, whatever masks the       *)
(* operator, the sensing or a proposal ask for.                            *)
(***************************************************************************)
THEOREM HopsetTypeCorrect == Spec => []TypeOK
BY InitType, NextType, PTL DEF Spec

------------------------------------------------------------------------------
(***************************************************************************)
(* The inductive invariant.  What is promised is ordered: nothing is newer *)
(* than what the live authority stands by, and a generation of a boot is   *)
(* one state.  Everything on the air and everything the follower runs or   *)
(* has armed is promised, and what is armed is a step forward.             *)
(***************************************************************************)
AuthorityInv ==
    /\ auth.epoch # 0
    /\ auth.cur \in promised /\ auth.cur.epoch = auth.epoch
    /\ auth.committing => auth.pend \in promised /\ Follows(auth)

Newest(a) == IF a.committing THEN a.pend ELSE a.cur

Unique(ss) ==
    \A s, t \in ss : s.epoch = t.epoch /\ s.generation = t.generation => s = t

PromisesInv ==
    /\ Unique(promised)
    /\ \A s \in promised :
        /\ s.epoch <= auth.epoch
        /\ s.epoch = auth.epoch => s.generation <= Newest(auth).generation
        /\ s.generation = 0 => s.mask = FullMask

AirInv ==
    \A m \in air : m.type \in {"COMMIT", "STATUS"} =>
        m.state \in promised /\ m.state.epoch # 0

\* HopsetAbs!Adopt allows the follower to go from c to s.
MayAdopt(c, s, official) ==
    s.epoch = c.epoch =>
        \/ s.generation > c.generation
        \/ \E t \in official : t.epoch # c.epoch /\ t.epoch # 0

FollowerInv ==
    /\ fol.cur \in promised /\ Legacy(0) \in promised
    /\ ~ fol.have_auth => fol.cur.epoch = 0 /\ fol.st # "Pending"
    /\ fol.have_auth =>
        fol.auth_epoch # 0 /\ \E t \in promised : t.epoch = fol.auth_epoch
    /\ fol.st = "Pending" =>
        fol.pend \in promised /\ MayAdopt(fol.cur, fol.pend, promised)

HopsetInv == TypeOK /\ AuthorityInv /\ PromisesInv /\ AirInv /\ FollowerInv

\* The follower's part survives a growing history.
LEMMA FollowerMonotone ==
    ASSUME FollowerInv, UNCHANGED fol, promised \subseteq promised'
    PROVE  FollowerInv'
BY DEF FollowerInv, MayAdopt

\* The air's part survives honest new frames and a growing history.
LEMMA AirMonotone ==
    ASSUME AirInv, promised \subseteq promised', NEW ms, air' \subseteq air \cup ms,
           \A m \in ms : m.type \in {"COMMIT", "STATUS"}
                           => m.state \in promised' /\ m.state.epoch # 0
    PROVE  AirInv'
BY DEF AirInv

\* A new state s that follows everything promised keeps the order.
LEMMA AnnounceFacts ==
    ASSUME TypeOK, PromisesInv, NEW s \in States, NEW c \in promised,
           s.epoch = auth.epoch, c.epoch = auth.epoch,
           s.generation = c.generation + 1,
           Newest(auth).generation = c.generation,
           promised' = promised \cup {s}, UNCHANGED fol
    PROVE  Unique(promised') /\ Abs!Announce
           /\ \A t \in promised' : t.epoch <= auth.epoch
                /\ (t.epoch = auth.epoch => t.generation <= s.generation)
                /\ (t.generation = 0 => t.mask = FullMask)
<1>1. /\ c \in States /\ c.generation \in Nat /\ s.generation \in Nat
      /\ s.epoch \in Nat /\ \A t \in promised : t \in States
      /\ \A t \in promised : t.epoch \in Nat /\ t.generation \in Nat
  BY DEF TypeOK, States
<1>2. \A t \in promised : t.epoch = s.epoch => t.generation < s.generation
  BY <1>1 DEF PromisesInv
<1>3. Unique(promised') BY <1>1, <1>2 DEF PromisesInv, Unique
<1>4. Abs!Announce BY <1>1, <1>2 DEF Abs!Announce
<1>5. \A t \in promised' : t.epoch <= auth.epoch
         /\ (t.epoch = auth.epoch => t.generation <= s.generation)
         /\ (t.generation = 0 => t.mask = FullMask)
  <2> SUFFICES ASSUME NEW t \in promised'
               PROVE  /\ t.epoch <= auth.epoch
                      /\ t.epoch = auth.epoch => t.generation <= s.generation
                      /\ t.generation = 0 => t.mask = FullMask
    OBVIOUS
  <2>1. CASE t = s BY <2>1, <1>1
  <2>2. CASE t \in promised BY <2>2, <1>1, <1>2 DEF PromisesInv
  <2> QED BY <2>1, <2>2
<1> QED BY <1>3, <1>4, <1>5

\* A step of the authority that is no restart.
LEMMA AuthorityStep ==
    ASSUME HopsetInv, AuthorityMoves(auth, auth'), Promise, UNCHANGED fol,
           NEW ms, air' = air \cup ms, Says(auth', ms)
    PROVE  /\ AuthorityInv' /\ PromisesInv' /\ AirInv' /\ FollowerInv'
           /\ Abs!Announce \/ UNCHANGED promised
<1>0. /\ auth \in AuthorityType /\ auth' \in AuthorityType
      /\ auth.cur \in promised /\ auth.cur.epoch = auth.epoch
      /\ auth.committing => auth.pend \in promised /\ Follows(auth)
      /\ auth.epoch # 0
  BY DEF HopsetInv, TypeOK, AuthorityInv, AuthorityMoves
<1>1. promised \subseteq promised' BY DEF Promise
<1>2. /\ AuthorityInv' /\ PromisesInv'
      /\ Abs!Announce \/ UNCHANGED promised
  <2>1. CASE Keeps(auth, auth')
    <3>1. UNCHANGED promised BY <1>0, <2>1 DEF Promise, Keeps
    <3>2. Newest(auth') = Newest(auth) BY <2>1 DEF Keeps, Newest
    <3>3. AuthorityInv' BY <1>0, <2>1, <3>1 DEF Keeps, Follows, AuthorityInv
    <3>4. PromisesInv' BY <2>1, <3>1, <3>2 DEF Keeps, HopsetInv, PromisesInv
    <3> QED BY <3>1, <3>3, <3>4
  <2>2. CASE Swaps(auth, auth')
    <3>1. UNCHANGED promised BY <2>2 DEF Promise, Swaps
    <3>2. Newest(auth') = Newest(auth) BY <2>2 DEF Swaps, Newest
    <3>3. AuthorityInv' BY <1>0, <2>2, <3>1 DEF Swaps, Follows, AuthorityInv
    <3>4. PromisesInv' BY <2>2, <3>1, <3>2 DEF Swaps, HopsetInv, PromisesInv
    <3> QED BY <3>1, <3>3, <3>4
  <2>3. CASE Starts(auth, auth') \/ SwapsAndStarts(auth, auth')
    <3> DEFINE s == auth'.pend
    <3>1. /\ auth'.committing /\ auth'.epoch = auth.epoch
          /\ auth'.cur = Newest(auth) /\ Follows(auth')
      BY <2>3 DEF Starts, SwapsAndStarts, Newest
    <3>2. Newest(auth) \in promised /\ Newest(auth).epoch = auth.epoch
      BY <1>0 DEF Newest, Follows
    <3>3. s \in States BY <1>0, AuthorityFields
    <3>4. /\ s.epoch = auth.epoch
          /\ s.generation = Newest(auth).generation + 1
      BY <3>1 DEF Follows
    <3>5. promised' = promised \cup {s} BY <3>1 DEF Promise
    <3>6. Newest(auth') = s BY <3>1 DEF Newest
    <3> DEFINE c == Newest(auth)
    <3> HIDE DEF s, c
    <3>7. /\ Unique(promised') /\ Abs!Announce
          /\ \A t \in promised' : /\ t.epoch <= auth.epoch
                                  /\ t.epoch = auth.epoch => t.generation <= s.generation
                                  /\ t.generation = 0 => t.mask = FullMask
      BY <3>2, <3>3, <3>4, <3>5, AnnounceFacts DEF HopsetInv, c
    <3>8. PromisesInv' BY <3>1, <3>6, <3>7 DEF PromisesInv
    <3>9. AuthorityInv' BY <1>0, <1>1, <3>1, <3>2, <3>5 DEF AuthorityInv, s
    <3> QED BY <3>7, <3>8, <3>9
  <2> QED BY <2>1, <2>2, <2>3 DEF AuthorityMoves
<1>3. FollowerInv' BY <1>1, FollowerMonotone DEF HopsetInv
<1>4. \A m \in ms : m.state \in promised' /\ m.state.epoch # 0
  <2>1. \A t \in Stated(auth') : t \in promised' /\ t.epoch # 0
    <3>1. /\ auth'.cur \in promised' /\ auth'.cur.epoch = auth'.epoch /\ auth'.epoch # 0
          /\ auth'.committing => auth'.pend \in promised' /\ auth'.pend.epoch = auth'.epoch
      BY <1>2 DEF AuthorityInv, Follows
    <3> QED BY <3>1 DEF Stated
  <2> QED BY <2>1 DEF Says
<1>5. AirInv' BY <1>1, <1>4, AirMonotone DEF HopsetInv
<1> QED BY <1>2, <1>3, <1>5

\* A restart of the authority, with or without its session.
LEMMA RestartStep ==
    ASSUME HopsetInv, auth' \in AuthorityType, auth'.epoch = auth.epoch + 1,
           ~ auth'.committing, auth'.cur.epoch = auth'.epoch,
           auth'.cur.generation = 0 => auth'.cur.mask = FullMask,
           promised' = promised \cup {auth'.cur}, air' \subseteq air, UNCHANGED fol
    PROVE  AuthorityInv' /\ PromisesInv' /\ AirInv' /\ FollowerInv' /\ Abs!Announce
<1> DEFINE s == auth'.cur
<1>1. /\ s \in States /\ auth.epoch \in Nat /\ auth'.epoch \in Nat
      /\ \A t \in promised : t.epoch \in Nat /\ t.generation \in Nat
      /\ s.generation \in Nat
  BY AuthorityFields DEF HopsetInv, TypeOK, States
<1>2. \A t \in promised : t.epoch < s.epoch /\ t.epoch <= auth'.epoch
  BY <1>1 DEF HopsetInv, PromisesInv
<1>3. Newest(auth') = s BY DEF Newest
<1>4. AuthorityInv' BY <1>1 DEF AuthorityInv
<1>5. Unique(promised') BY <1>1, <1>2 DEF HopsetInv, PromisesInv, Unique
<1>6. PromisesInv'
  <2> SUFFICES ASSUME NEW t \in promised'
               PROVE  /\ t.epoch <= auth'.epoch
                      /\ t.epoch = auth'.epoch => t.generation <= s.generation
                      /\ t.generation = 0 => t.mask = FullMask
    BY <1>3, <1>5 DEF PromisesInv
  <2>1. CASE t = s BY <1>1, <2>1
  <2>2. CASE t \in promised BY <1>1, <1>2, <2>2 DEF HopsetInv, PromisesInv
  <2> QED BY <2>1, <2>2
<1>7. AirInv' BY DEF HopsetInv, AirInv
<1>8. FollowerInv' BY FollowerMonotone DEF HopsetInv
<1>9. Abs!Announce BY <1>2 DEF Abs!Announce
<1> QED BY <1>4, <1>6, <1>7, <1>8, <1>9

\* The follower goes no other way than HopsetAbs allows.
FollowerMoves ==
    \/ Stays(fol, fol')
    \/ fol.st = "Pending" /\ Adopts(fol, fol', fol.pend)
    \/ \E s \in promised : /\ s.epoch # 0 /\ Takes(fol, fol', s)
                           /\ same_epoch(fol, s) => s.generation > fol.cur.generation
    \/ fol' \in FollowerType /\ fol'.cur = Legacy(0) /\ ~ fol'.have_auth
       /\ fol'.st = "Synced"

\* A step of the follower.
LEMMA FollowerStep ==
    ASSUME HopsetInv, FollowerMoves, UNCHANGED <<auth, promised>>,
           NEW ms \in SUBSET (Proposals \cup Heartbeats), air' = air \cup ms
    PROVE  /\ AuthorityInv' /\ PromisesInv' /\ AirInv' /\ FollowerInv'
           /\ Abs!Adopt \/ Abs!Forget \/ UNCHANGED fol.cur
<1>0. /\ fol.cur \in promised /\ Legacy(0) \in promised
      /\ ~ fol.have_auth => fol.cur.epoch = 0 /\ fol.st # "Pending"
      /\ fol.have_auth =>
          fol.auth_epoch # 0 /\ \E t \in promised : t.epoch = fol.auth_epoch
      /\ fol.st = "Pending" =>
          fol.pend \in promised /\ MayAdopt(fol.cur, fol.pend, promised)
  BY DEF HopsetInv, FollowerInv
<1>1. AuthorityInv' /\ PromisesInv' BY DEF HopsetInv, AuthorityInv, PromisesInv
<1>2. AirInv'
  <2>1. \A m \in ms : m.type \notin {"COMMIT", "STATUS"} BY DEF Proposals, Heartbeats
  <2> QED BY <2>1, AirMonotone DEF HopsetInv
<1>3. Legacy(0).epoch = 0 BY DEF Legacy
<1>4. \A s \in promised : MayAdopt(fol.cur, s, promised) /\ fol'.cur = s => Abs!Adopt
  BY <1>3 DEF MayAdopt, Abs!Adopt, Abs!OtherBoot
<1>5. CASE Stays(fol, fol')
  <2>1. FollowerInv' BY <1>0, <1>5 DEF Stays, FollowerInv
  <2> QED BY <1>1, <1>2, <1>5, <2>1 DEF Stays
<1>6. CASE fol.st = "Pending" /\ Adopts(fol, fol', fol.pend)
  <2>1. FollowerInv' BY <1>0, <1>6 DEF Adopts, FollowerInv
  <2>2. Abs!Adopt BY <1>0, <1>4, <1>6 DEF Adopts
  <2> QED BY <1>1, <1>2, <2>1, <2>2
<1>7. CASE \E s \in promised : /\ s.epoch # 0 /\ Takes(fol, fol', s)
                               /\ same_epoch(fol, s) => s.generation > fol.cur.generation
  <2>1. PICK s \in promised : /\ s.epoch # 0 /\ Takes(fol, fol', s)
                              /\ same_epoch(fol, s) => s.generation > fol.cur.generation
    BY <1>7
  <2>2. MayAdopt(fol.cur, s, promised)
    BY <1>0, <2>1 DEF MayAdopt, same_epoch
  <2>3. FollowerInv' BY <1>0, <2>1, <2>2 DEF Takes, FollowerInv
  <2>4. Abs!Adopt \/ UNCHANGED fol.cur BY <1>4, <2>1, <2>2 DEF Takes
  <2> QED BY <1>1, <1>2, <2>3, <2>4
<1>8. CASE fol' \in FollowerType /\ fol'.cur = Legacy(0) /\ ~ fol'.have_auth
           /\ fol'.st = "Synced"
  <2>1. FollowerInv' BY <1>0, <1>3, <1>8 DEF FollowerInv
  <2>2. Abs!Forget BY <1>8 DEF Abs!Forget
  <2> QED BY <1>1, <1>2, <2>1, <2>2
<1> QED BY <1>5, <1>6, <1>7, <1>8 DEF FollowerMoves

\* The invariant holds initially, and the initial states are abstract ones.
LEMMA InitInv == Init => HopsetInv /\ Abs!Init
<1> SUFFICES ASSUME Init PROVE HopsetInv /\ Abs!Init OBVIOUS
<1>1. TypeOK BY InitType
<1>2. /\ Legacy(0).epoch = 0 /\ Legacy(1).epoch = 1
      /\ Legacy(0).generation = 0 /\ Legacy(1).generation = 0
      /\ Legacy(0).mask = FullMask /\ Legacy(1).mask = FullMask
  BY DEF Legacy
<1>3. /\ auth.epoch = 1 /\ auth.cur = Legacy(1) /\ ~ auth.committing
      /\ fol.cur = Legacy(0) /\ ~ fol.have_auth /\ fol.st = "Synced"
      /\ promised = {Legacy(0), Legacy(1)} /\ air = {}
  BY DEF Init, NewAuthority, NewFollower
<1>4. AuthorityInv BY <1>2, <1>3 DEF AuthorityInv
<1>5. PromisesInv
  <2>1. Newest(auth) = Legacy(1) BY <1>3 DEF Newest
  <2>2. Unique(promised) BY <1>2, <1>3 DEF Unique
  <2> QED BY <1>2, <1>3, <2>1, <2>2 DEF PromisesInv
<1>6. AirInv BY <1>3 DEF AirInv
<1>7. FollowerInv BY <1>2, <1>3 DEF FollowerInv
<1>8. Abs!Init BY <1>3 DEF Abs!Init
<1> QED BY <1>1, <1>4, <1>5, <1>6, <1>7, <1>8 DEF HopsetInv

\* What one step does: it keeps the invariant and is a step of HopsetAbs.
Good == HopsetInv' /\ [Abs!Next]_<<promised, fol.cur>>

\* Steps that move neither machine's states.
LEMMA IdleStep ==
    ASSUME HopsetInv, TypeOK', UNCHANGED <<fol, promised, air>>, Keeps(auth, auth')
    PROVE  Good
<1>1. Newest(auth') = Newest(auth) BY DEF Keeps, Newest
<1>2. AuthorityInv' BY DEF HopsetInv, AuthorityInv, Keeps, Follows
<1>3. PromisesInv' BY <1>1 DEF HopsetInv, PromisesInv, Keeps
<1>4. AirInv' /\ FollowerInv' BY DEF HopsetInv, AirInv, FollowerInv
<1> QED BY <1>2, <1>3, <1>4 DEF HopsetInv, Good

\* Every step.
LEMMA NextGood == HopsetInv /\ [Next]_vars => Good
<1> SUFFICES ASSUME HopsetInv, [Next]_vars PROVE Good OBVIOUS
<1> USE DEF authVars, folVars, world, history
<1>t. TypeOK /\ TypeOK' BY NextType DEF HopsetInv
<1>0. /\ auth \in AuthorityType /\ fol \in FollowerType /\ tick_slot \in Int
      /\ fslot \in Int /\ flight \in Markers
      /\ auth.committing => auth.pend \in promised
      /\ AuthorityInv /\ PromisesInv /\ AirInv /\ FollowerInv
  BY DEF HopsetInv, TypeOK, AuthorityInv
<1>k. Keeps(auth, auth) BY DEF Keeps
<1>a. ASSUME AuthorityMoves(auth, auth'), Promise, UNCHANGED fol,
             NEW ms, air' = air \cup ms, Says(auth', ms)
      PROVE  Good
  <2>1. /\ AuthorityInv' /\ PromisesInv' /\ AirInv' /\ FollowerInv'
        /\ Abs!Announce \/ UNCHANGED promised
    BY <1>a, AuthorityStep
  <2> QED BY <1>t, <1>a, <2>1 DEF HopsetInv, Good, Abs!Next
<1>f. ASSUME FollowerMoves, UNCHANGED <<auth, promised>>,
             NEW ms \in SUBSET (Proposals \cup Heartbeats), air' = air \cup ms
      PROVE  Good
  <2>1. /\ AuthorityInv' /\ PromisesInv' /\ AirInv' /\ FollowerInv'
        /\ Abs!Adopt \/ Abs!Forget \/ UNCHANGED fol.cur
    BY <1>f, FollowerStep
  <2> QED BY <1>t, <1>f, <2>1 DEF HopsetInv, Good, Abs!Next
<1>e. UNCHANGED air => air' = air \cup {} OBVIOUS
<1>1. CASE HearProposal
  <2>1. PICK m \in air : m.type = "PROPOSAL" /\ on_proposal(m) BY <1>1 DEF HearProposal
  <2>2. m \in Proposals BY <1>t, <2>1, AirTypes
  <2>3. PICK ms : air' = air \cup ms /\ Says(auth', ms)
    BY <1>0, <2>1, <2>2, ProposalFacts
  <2>4. AuthorityMoves(auth, auth') BY <1>0, <2>1, <2>2, ProposalFacts
  <2>5. Promise /\ UNCHANGED fol BY <1>1 DEF HearProposal
  <2> QED BY <2>3, <2>4, <2>5, <1>a
<1>2. CASE VetoProposal
  <2>1. PICK m \in air : m.type = "PROPOSAL" /\ reject_proposal(m)
    BY <1>2 DEF VetoProposal
  <2>2. m.exchange.nonce \in Nat BY <1>t, <2>1, AirTypes DEF Proposals, Exchanges
  <2>3. "TxVeto" \in Reasons BY DEF Reasons
  <2>4. UNCHANGED <<auth, fol, promised>>
    BY <1>2, <2>1 DEF VetoProposal, reject_proposal
  <2>5. Says(auth', {status_msg(auth, "TxVeto", m.exchange.nonce)})
    BY <1>0, <2>2, <2>3, <2>4, FrameFacts
  <2>6. air' = air \cup {status_msg(auth, "TxVeto", m.exchange.nonce)}
    BY <2>1 DEF reject_proposal
  <2>7. Promise BY <1>0, <2>4 DEF Promise
  <2>8. AuthorityMoves(auth, auth') BY <1>0, <1>k, <2>4 DEF AuthorityMoves
  <2> QED BY <2>4, <2>5, <2>6, <2>7, <2>8, <1>a
<1>3. CASE HearHeartbeat
  BY <1>t, <1>0, <1>3, StampFacts, IdleStep DEF HearHeartbeat, on_heartbeat
<1>4. CASE NewSlot
  BY <1>t, <1>k, <1>4, IdleStep DEF NewSlot, StoreSlot
<1>5. CASE AuthorityTick
  <2>1. OperatorMasks \in SUBSET Masks /\ LocalMasks \in SUBSET Masks
    BY LinkAssumption DEF LinkAssumption
  <2>2. TransmitPass(OperatorMasks, LocalMasks) /\ Promise /\ UNCHANGED fol
    BY <1>5 DEF AuthorityTick
  <2>3. PICK ms : air' = air \cup ms /\ Says(auth', ms)
    BY <1>0, <2>1, <2>2, TransmitFacts
  <2>4. AuthorityMoves(auth, auth') BY <1>0, <2>1, <2>2, TransmitFacts
  <2> QED BY <2>2, <2>3, <2>4, <1>a
<1>6. CASE StampMarker
  BY <1>t, <1>k, <1>6, IdleStep DEF StampMarker
<1>7. CASE AuthorityRestart
  <2>1. auth.epoch + 1 \in Nat BY <1>0, AuthorityFields
  <2>2. /\ auth' \in AuthorityType
        /\ auth' = NewAuthority(auth.epoch + 1)
    BY <1>7, <2>1, FreshTypes DEF AuthorityRestart
  <2>3. /\ auth'.epoch = auth.epoch + 1 /\ ~ auth'.committing
        /\ auth'.cur.epoch = auth'.epoch /\ auth'.cur.mask = FullMask
    BY <2>2 DEF NewAuthority, Legacy
  <2>4. /\ promised' = promised \cup {auth'.cur} /\ air' \subseteq air
        /\ UNCHANGED fol
    BY <1>7 DEF AuthorityRestart, OldFrames
  <2>5. AuthorityInv' /\ PromisesInv' /\ AirInv' /\ FollowerInv' /\ Abs!Announce
    BY <2>2, <2>3, <2>4, RestartStep
  <2> QED BY <1>t, <2>5 DEF HopsetInv, Good, Abs!Next
<1>8. CASE AuthorityResume
  <2>1. auth.cur \in States /\ auth.cur \in promised
    BY <1>0, AuthorityFields DEF AuthorityInv
  <2>2. auth' \in AuthorityType /\ auth' = restore(auth.epoch + 1, auth.cur)
    BY <1>t, <1>8 DEF AuthorityResume, TypeOK
  <2>3. /\ auth'.epoch = auth.epoch + 1 /\ ~ auth'.committing
        /\ auth'.cur = [auth.cur EXCEPT !.epoch = auth.epoch + 1]
    BY <2>2 DEF restore, NewAuthority
  <2>4. /\ auth'.cur.epoch = auth'.epoch
        /\ auth'.cur.generation = auth.cur.generation
        /\ auth'.cur.mask = auth.cur.mask
    BY <2>1, <2>3 DEF States
  <2>5. auth'.cur.generation = 0 => auth'.cur.mask = FullMask
    BY <1>0, <2>1, <2>4 DEF PromisesInv
  <2>6. /\ promised' = promised \cup {auth'.cur} /\ air' \subseteq air
        /\ UNCHANGED fol
    BY <1>8 DEF AuthorityResume, OldFrames
  <2>7. AuthorityInv' /\ PromisesInv' /\ AirInv' /\ FollowerInv' /\ Abs!Announce
    BY <2>2, <2>3, <2>4, <2>5, <2>6, RestartStep
  <2> QED BY <1>t, <2>7 DEF HopsetInv, Good, Abs!Next
<1>9. CASE FollowerPropose
  <2>1. PICK mask \in ProposedMasks : propose(mask, fol.nonce + 1)
    BY <1>9 DEF FollowerPropose
  <2>2. mask \in AllMasks BY LinkAssumption DEF LinkAssumption, AllMasks
  <2>3. fol.nonce + 1 \in Nat BY <1>0, FollowerFields
  <2>4. Stays(fol, fol') BY <1>0, <2>1, <2>2, <2>3, StaysFacts DEF propose
  <2>5. {Proposal(Outstanding(fol'), mask)} \in SUBSET (Proposals \cup Heartbeats)
    BY <2>2, <2>4, FollowerFrames DEF Stays
  <2>6. air' = air \cup {Proposal(Outstanding(fol'), mask)} BY <2>1 DEF propose
  <2>7. UNCHANGED <<auth, promised>> BY <1>9 DEF FollowerPropose
  <2>8. FollowerMoves BY <2>4 DEF FollowerMoves
  <2> QED BY <2>5, <2>6, <2>7, <2>8, <1>f
<1>10. CASE HearCommit
  <2>1. PICK m \in air : m.type = "COMMIT" /\ on_commit(m) BY <1>10 DEF HearCommit
  <2>2. m.state \in States BY <1>t, <2>1, AirTypes DEF Commits
  <2>3. m.state \in promised /\ m.state.epoch # 0 BY <1>0, <2>1 DEF AirInv
  <2>4. Takes(fol, fol', m.state) BY <1>0, <2>1, <2>2, CommitFacts DEF on_commit
  <2>5. same_epoch(fol, m.state) => m.state.generation > fol.cur.generation
    BY <2>1 DEF on_commit, CommitAcceptable
  <2>6. FollowerMoves BY <2>3, <2>4, <2>5 DEF FollowerMoves
  <2>7. UNCHANGED <<auth, promised, air>> BY <1>10, <2>1 DEF HearCommit, on_commit
  <2> QED BY <1>e, <2>6, <2>7, <1>f
<1>11. CASE HearStatus
  <2>1. PICK m \in air : m.type = "STATUS" /\ on_status(m) BY <1>11 DEF HearStatus
  <2>2. m \in Statuses BY <1>t, <2>1, AirTypes
  <2>3. m.state \in promised /\ m.state.epoch # 0 BY <1>0, <2>1 DEF AirInv
  <2>4. m.state.generation = 0 => m.state.mask = FullMask
    BY <1>0, <2>3 DEF PromisesInv
  <2>5. \/ Stays(fol, fol')
        \/ StatusNewer(fol, m, fslot) /\ Takes(fol, fol', m.state)
    BY <1>0, <2>1, <2>2, <2>4, OnStatusFacts
  <2>6. FollowerMoves BY <2>3, <2>5 DEF FollowerMoves, StatusNewer
  <2>7. UNCHANGED <<auth, promised, air>> BY <1>11, <2>1 DEF HearStatus, on_status
  <2> QED BY <1>e, <2>6, <2>7, <1>f
<1>12. CASE HearMarker
  <2>1. Stays(fol, fol') BY <1>0, <1>12, MarkerFacts DEF HearMarker, on_marker
  <2>2. FollowerMoves BY <2>1 DEF FollowerMoves
  <2>3. UNCHANGED <<auth, promised, air>> BY <1>12 DEF HearMarker, on_marker
  <2> QED BY <1>e, <2>2, <2>3, <1>f
<1>13. CASE FollowerTick
  <2>1. fol_tick BY <1>13 DEF FollowerTick
  <2>2. FollowerMoves BY <1>0, <2>1, FolTickFacts DEF FollowerMoves
  <2>3. PICK ms \in SUBSET (Proposals \cup Heartbeats) : air' = air \cup ms
    BY <1>0, <2>1, FolTickFacts
  <2>4. UNCHANGED <<auth, promised>> BY <1>13 DEF FollowerTick
  <2> QED BY <2>2, <2>3, <2>4, <1>f
<1>14. CASE FollowerRestart
  <2>1. fol' = NewFollower(fol.epoch + 1) /\ fol' \in FollowerType
    BY <1>t, <1>14 DEF FollowerRestart, TypeOK
  <2>2. FollowerMoves BY <2>1 DEF FollowerMoves, NewFollower
  <2>3. UNCHANGED <<auth, promised, air>> BY <1>14 DEF FollowerRestart
  <2> QED BY <1>e, <2>2, <2>3, <1>f
<1>15. CASE SlotPasses
  BY <1>t, <1>k, <1>15, IdleStep DEF SlotPasses
<1>16. CASE UNCHANGED vars
  BY <1>t, <1>k, <1>16, IdleStep DEF vars
<1> QED BY <1>1, <1>2, <1>3, <1>4, <1>5, <1>6, <1>7, <1>8, <1>9, <1>10, <1>11,
           <1>12, <1>13, <1>14, <1>15, <1>16 DEF Next

\* The invariant says what the transmitter advertises is unambiguous.
LEMMA AdvertisedUnique == HopsetInv => OneStatePerGeneration
<1> SUFFICES ASSUME HopsetInv PROVE OneStatePerGeneration OBVIOUS
<1>1. Advertised \subseteq promised
  BY DEF HopsetInv, AuthorityInv, AirInv, Advertised
<1> QED BY <1>1 DEF HopsetInv, PromisesInv, Unique, OneStatePerGeneration

(***************************************************************************)
(* Within one boot of the authority a generation number names one state in *)
(* everything it says, through losses, replays and restarts, for every     *)
(* base hopset, every set of requested masks and every timing parameter.   *)
(***************************************************************************)
THEOREM HopsetUnambiguous == Spec => []OneStatePerGeneration
<1>1. HopsetInv /\ [Next]_vars => HopsetInv' BY NextGood DEF Good
<1> QED BY InitInv, <1>1, AdvertisedUnique, PTL DEF Spec

(***************************************************************************)
(* The protocol implements HopsetAbs: the follower runs only states an     *)
(* authority made official, moves forward within a boot, and every change  *)
(* of the authority is announced one generation at a time.                 *)
(***************************************************************************)
THEOREM HopsetRefines == Spec => ImplementsAbs
<1>1. HopsetInv /\ [Next]_vars => HopsetInv' /\ [Abs!Next]_<<promised, fol.cur>>
  BY NextGood DEF Good
<1> QED BY InitInv, <1>1, PTL DEF Spec, ImplementsAbs, Abs!Spec

------------------------------------------------------------------------------
(***************************************************************************)
(* The clocks of a transmitter that is not restarted (it may be resumed,   *)
(* which does not reset its clock).  Nobody is ahead of the slot clock:    *)
(* not the transmit loop, not a marker in flight, not the clock fitted to  *)
(* the markers; and whatever is run or told of in a status has come.       *)
(***************************************************************************)
ClockInv ==
    /\ 0 <= slot /\ tick_slot <= slot /\ fslot <= slot /\ flight.slot <= slot
    /\ auth.cur.activate_slot <= tick_slot
    /\ \A m \in air : m.type = "STATUS" => m.state.activate_slot <= slot
    /\ fol.cur.activate_slot <= slot

\* Both processes start at slot zero with the legacy schedule.
LEMMA ClockInit == Init => ClockInv
<1>1. NoMarker.slot = 0 /\ \A e : Legacy(e).activate_slot = 0
  BY DEF NoMarker, Legacy
<1> QED BY <1>1 DEF Init, ClockInv, NewAuthority, NewFollower

\* Every step keeps the clocks in order.
LEMMA ClockStep ==
    ASSUME MaxBoots <= 1, HopsetInv, ClockInv, [Next]_vars
    PROVE  ClockInv'
<1> USE DEF authVars, folVars, world, history
<1>t. TypeOK /\ TypeOK' BY NextType DEF HopsetInv
<1>0. /\ auth \in AuthorityType /\ fol \in FollowerType /\ tick_slot \in Int
      /\ fslot \in Int /\ slot \in Int /\ flight \in Markers
      /\ auth.epoch \in Nat /\ auth.epoch # 0
      /\ auth.cur \in States /\ fol.cur \in States
      /\ auth.cur.activate_slot \in Int /\ fol.cur.activate_slot \in Int
      /\ flight.slot \in Int
  BY <1>t, AuthorityFields, FollowerFields
  DEF HopsetInv, TypeOK, AuthorityInv, States, Markers
<1>c. /\ 0 <= slot /\ tick_slot <= slot /\ fslot <= slot /\ flight.slot <= slot
      /\ auth.cur.activate_slot <= tick_slot
      /\ \A m \in air : m.type = "STATUS" => m.state.activate_slot <= slot
      /\ fol.cur.activate_slot <= slot
  BY DEF ClockInv
<1>a. ASSUME auth'.cur = auth.cur \/ auth'.cur.activate_slot <= tick_slot,
             auth' \in AuthorityType, UNCHANGED <<tick_slot, fol, fslot, slot, flight>>,
             NEW ms, air' = air \cup ms, Says(auth', ms)
      PROVE  ClockInv'
  <2>1. auth'.cur.activate_slot \in Int BY <1>a, AuthorityFields DEF States
  <2>2. auth'.cur.activate_slot <= tick_slot BY <1>a, <1>c
  <2>3. auth'.cur.activate_slot <= slot BY <1>0, <1>c, <2>1, <2>2
  <2>4. \A m \in ms : m.type = "STATUS" => m.state.activate_slot <= slot
    BY <1>a, <2>3 DEF Says
  <2> QED BY <1>a, <1>c, <2>2, <2>4 DEF ClockInv
<1>f. ASSUME fol'.cur = fol.cur \/ fol'.cur.activate_slot <= slot,
             UNCHANGED <<auth, tick_slot, slot, flight, fslot>>,
             NEW ms \in SUBSET (Proposals \cup Heartbeats), air' = air \cup ms
      PROVE  ClockInv'
  <2>1. \A m \in ms : m.type # "STATUS" BY DEF Proposals, Heartbeats
  <2> QED BY <1>f, <1>c, <2>1 DEF ClockInv
<1>e. UNCHANGED air => air' = air \cup {} OBVIOUS
<1>n. Says(auth', {}) BY DEF Says
<1>1. CASE HearProposal
  <2>1. PICK m \in air : m.type = "PROPOSAL" /\ on_proposal(m) BY <1>1 DEF HearProposal
  <2>2. m \in Proposals BY <1>t, <2>1, AirTypes
  <2>3. PICK ms : air' = air \cup ms /\ Says(auth', ms)
    BY <1>0, <2>1, <2>2, ProposalFacts
  <2>4. AuthorityMoves(auth, auth') /\ auth'.cur = auth.cur
    BY <1>0, <2>1, <2>2, ProposalFacts
  <2>5. UNCHANGED <<tick_slot, fol, fslot, slot, flight>> BY <1>1 DEF HearProposal
  <2> QED BY <2>3, <2>4, <2>5, <1>a DEF AuthorityMoves
<1>2. CASE VetoProposal
  <2>1. PICK m \in air : m.type = "PROPOSAL" /\ reject_proposal(m)
    BY <1>2 DEF VetoProposal
  <2>2. m.exchange.nonce \in Nat BY <1>t, <2>1, AirTypes DEF Proposals, Exchanges
  <2>3. "TxVeto" \in Reasons BY DEF Reasons
  <2>4. UNCHANGED <<auth, tick_slot, fol, fslot, slot, flight>>
    BY <1>2, <2>1 DEF VetoProposal, reject_proposal
  <2>5. Says(auth', {status_msg(auth, "TxVeto", m.exchange.nonce)})
    BY <1>0, <2>2, <2>3, <2>4, FrameFacts
  <2>6. air' = air \cup {status_msg(auth, "TxVeto", m.exchange.nonce)}
    BY <2>1 DEF reject_proposal
  <2> QED BY <1>0, <2>4, <2>5, <2>6, <1>a
<1>3. CASE HearHeartbeat
  <2>1. auth' \in AuthorityType /\ auth'.cur = auth.cur
    BY <1>0, <1>3, StampFacts DEF HearHeartbeat, on_heartbeat, Keeps
  <2>2. UNCHANGED <<tick_slot, fol, fslot, slot, flight, air>>
    BY <1>3 DEF HearHeartbeat, on_heartbeat
  <2> QED BY <1>e, <1>n, <2>1, <2>2, <1>a
<1>4. CASE NewSlot
  <2>1. UNCHANGED <<auth, fol, fslot, slot, flight, air>> /\ tick_slot' = slot
    BY <1>4 DEF NewSlot, StoreSlot
  <2>2. auth.cur.activate_slot <= slot BY <1>0, <1>c
  <2> QED BY <1>0, <1>c, <2>1, <2>2 DEF ClockInv
<1>5. CASE AuthorityTick
  <2>1. OperatorMasks \in SUBSET Masks /\ LocalMasks \in SUBSET Masks
    BY LinkAssumption DEF LinkAssumption
  <2>2. TransmitPass(OperatorMasks, LocalMasks) BY <1>5 DEF AuthorityTick
  <2>3. PICK ms : air' = air \cup ms /\ Says(auth', ms)
    BY <1>0, <2>1, <2>2, TransmitFacts
  <2>4. /\ AuthorityMoves(auth, auth')
        /\ auth'.cur = auth.cur \/ auth'.cur.activate_slot <= tick_slot
    BY <1>0, <2>1, <2>2, TransmitFacts
  <2>5. UNCHANGED <<tick_slot, fol, fslot, slot, flight>>
    BY <1>5, <2>2 DEF AuthorityTick, TransmitPass
  <2> QED BY <2>3, <2>4, <2>5, <1>a DEF AuthorityMoves
<1>6. CASE StampMarker
  <2>1. UNCHANGED <<auth, tick_slot, fol, fslot, slot, air>> /\ flight'.slot = slot
    BY <1>6 DEF StampMarker
  <2> QED BY <1>0, <1>c, <2>1 DEF ClockInv
<1>7. CASE AuthorityRestart
  <2>1. auth.epoch < MaxBoots BY <1>7 DEF AuthorityRestart
  <2>2. MaxBoots \in Nat BY LinkAssumption DEF LinkAssumption
  <2> QED BY <1>0, <2>1, <2>2
<1>8. CASE AuthorityResume
  <2>1. auth'.cur.activate_slot = auth.cur.activate_slot
    BY <1>0, <1>8 DEF AuthorityResume, restore, NewAuthority, States
  <2>2. air' \subseteq air /\ UNCHANGED <<tick_slot, fol, fslot, slot, flight>>
    BY <1>8 DEF AuthorityResume, OldFrames
  <2> QED BY <1>c, <2>1, <2>2 DEF ClockInv
<1>9. CASE FollowerPropose
  <2>1. PICK mask \in ProposedMasks : propose(mask, fol.nonce + 1)
    BY <1>9 DEF FollowerPropose
  <2>2. mask \in AllMasks BY LinkAssumption DEF LinkAssumption, AllMasks
  <2>3. fol.nonce + 1 \in Nat BY <1>0, FollowerFields
  <2>4. Stays(fol, fol') BY <1>0, <2>1, <2>2, <2>3, StaysFacts DEF propose
  <2>5. {Proposal(Outstanding(fol'), mask)} \in SUBSET (Proposals \cup Heartbeats)
    BY <2>2, <2>4, FollowerFrames DEF Stays
  <2>6. air' = air \cup {Proposal(Outstanding(fol'), mask)} /\ UNCHANGED fslot
    BY <2>1 DEF propose
  <2>7. UNCHANGED <<auth, tick_slot, slot, flight>> BY <1>9 DEF FollowerPropose
  <2> QED BY <2>4, <2>5, <2>6, <2>7, <1>f DEF Stays
<1>10. CASE HearCommit
  <2>1. PICK m \in air : m.type = "COMMIT" /\ on_commit(m) BY <1>10 DEF HearCommit
  <2>2. m.state \in States BY <1>t, <2>1, AirTypes DEF Commits
  <2>3. /\ Takes(fol, fol', m.state)
        /\ fol'.cur = fol.cur \/ m.state.activate_slot <= fslot
    BY <1>0, <2>1, <2>2, CommitFacts DEF on_commit
  <2>4. fol'.cur = fol.cur \/ fol'.cur.activate_slot <= slot
    <3>1. m.state.activate_slot \in Int BY <2>2 DEF States
    <3>2. fol'.cur \in {fol.cur, m.state} BY <2>3 DEF Takes
    <3> QED BY <1>0, <1>c, <2>3, <3>1, <3>2
  <2>5. UNCHANGED <<auth, tick_slot, slot, flight, fslot, air>>
    BY <1>10, <2>1 DEF HearCommit, on_commit
  <2> QED BY <1>e, <2>4, <2>5, <1>f
<1>11. CASE HearStatus
  <2>1. PICK m \in air : m.type = "STATUS" /\ on_status(m) BY <1>11 DEF HearStatus
  <2>2. m \in Statuses BY <1>t, <2>1, AirTypes
  <2>3. m.state.generation = 0 => m.state.mask = FullMask
    BY <2>1 DEF HopsetInv, AirInv, PromisesInv
  <2>4. Stays(fol, fol') \/ Takes(fol, fol', m.state)
    BY <1>0, <2>1, <2>2, <2>3, OnStatusFacts
  <2>5. m.state.activate_slot <= slot BY <1>c, <2>1
  <2>6. fol'.cur = fol.cur \/ fol'.cur.activate_slot <= slot
    BY <2>4, <2>5 DEF Stays, Takes
  <2>7. UNCHANGED <<auth, tick_slot, slot, flight, fslot, air>>
    BY <1>11, <2>1 DEF HearStatus, on_status
  <2> QED BY <1>e, <2>6, <2>7, <1>f
<1>12. CASE HearMarker
  <2>1. fol'.cur = fol.cur
    BY <1>0, <1>12, MarkerFacts DEF HearMarker, on_marker, Stays
  <2>2. UNCHANGED <<auth, tick_slot, slot, air>> /\ flight' = NoMarker
    BY <1>12 DEF HearMarker, on_marker
  <2>3. fslot' <= slot
    <3>1. \/ fslot' = flight.slot \/ fslot' = fslot
          \/ fslot' = fslot - 1
          \/ flight.slot > fslot /\ fslot' = fslot + 1
      BY <1>12 DEF HearMarker, on_marker, Anchored
    <3> QED BY <1>0, <1>c, <3>1
  <2>4. flight'.slot = 0 BY <2>2 DEF NoMarker
  <2> QED BY <1>c, <2>1, <2>2, <2>3, <2>4 DEF ClockInv
<1>13. CASE FollowerTick
  <2>1. fol_tick BY <1>13 DEF FollowerTick
  <2>2. fol'.cur = fol.cur \/ fol'.cur.activate_slot <= slot
    <3>1. fol.pend.activate_slot \in Int BY <1>0, FollowerFields DEF States
    <3>2. \/ fslot >= fol.pend.activate_slot /\ fol'.cur = fol.pend
          \/ fol'.cur = fol.cur
      BY <1>0, <2>1, FolTickFacts DEF Stays, Adopts
    <3> QED BY <1>0, <1>c, <3>1, <3>2
  <2>3. PICK ms \in SUBSET (Proposals \cup Heartbeats) : air' = air \cup ms
    BY <1>0, <2>1, FolTickFacts
  <2>4. UNCHANGED <<auth, tick_slot, slot, flight, fslot>>
    BY <1>13, <2>1 DEF FollowerTick, fol_tick
  <2> QED BY <2>2, <2>3, <2>4, <1>f
<1>14. CASE FollowerRestart
  <2>1. fol'.cur.activate_slot = 0 /\ fslot' = 0
    BY <1>14 DEF FollowerRestart, NewFollower, Legacy
  <2>2. UNCHANGED <<auth, tick_slot, slot, flight, air>> BY <1>14 DEF FollowerRestart
  <2> QED BY <1>c, <2>1, <2>2 DEF ClockInv
<1>15. CASE SlotPasses
  <2>1. /\ slot' = slot + 1 /\ fslot' <= fslot + 1 /\ flight' \in {flight, NoMarker}
        /\ UNCHANGED <<auth, tick_slot, fol, air>>
    BY <1>0, <1>15 DEF SlotPasses
  <2>2. flight'.slot <= slot' BY <1>0, <1>c, <2>1 DEF NoMarker
  <2>3. tick_slot' <= slot' /\ fslot' <= slot' /\ 0 <= slot'
    BY <1>t, <1>0, <1>c, <2>1 DEF TypeOK
  <2>4. fol'.cur.activate_slot <= slot' BY <1>0, <1>c, <2>1
  <2>5. ASSUME NEW m \in air, m.type = "STATUS" PROVE m.state.activate_slot <= slot'
    <3>1. m.state.activate_slot \in Int BY <1>t, <2>5, AirTypes DEF Statuses, States
    <3>2. m.state.activate_slot <= slot BY <1>c, <2>5
    <3> QED BY <1>0, <2>1, <3>1, <3>2
  <2> QED BY <1>c, <2>1, <2>2, <2>3, <2>4, <2>5 DEF ClockInv
<1>16. CASE UNCHANGED vars
  BY <1>c, <1>16 DEF vars, ClockInv
<1> QED BY <1>1, <1>2, <1>3, <1>4, <1>5, <1>6, <1>7, <1>8, <1>9, <1>10, <1>11,
           <1>12, <1>13, <1>14, <1>15, <1>16 DEF Next

(***************************************************************************)
(* As long as the transmitter is not restarted with a fresh slot clock,    *)
(* the follower runs no state before its activation slot by the            *)
(* transmitter's own clock, whatever is lost, repeated or reordered, and   *)
(* however often the receiver restarts or the transmitter is resumed.      *)
(***************************************************************************)
THEOREM HopsetNeverEarly ==
    ASSUME MaxBoots <= 1
    PROVE  Spec => []NeverEarly
<1>1. HopsetInv /\ [Next]_vars => HopsetInv' BY NextGood DEF Good
<1>2. HopsetInv /\ ClockInv /\ [Next]_vars => ClockInv' BY ClockStep
<1>3. ClockInv => NeverEarly BY DEF ClockInv, NeverEarly
<1> QED BY InitInv, ClockInit, <1>1, <1>2, <1>3, PTL DEF Spec

------------------------------------------------------------------------------
(***************************************************************************)
(* The clocks in one session: a transmitter that is neither restarted nor  *)
(* resumed.  The fitted clock is behind by no more than a marker's flight, *)
(* and only a marker sends the follower to Recovering.                     *)
(***************************************************************************)
SessionInv ==
    /\ auth.epoch = 1
    /\ flight = NoMarker \/ (flight.epoch = 1 /\ slot - flight.slot <= MaxFlight)
    /\ hop_epoch # 0 => slot - fslot <= MaxFlight
    /\ fol.st = "Recovering" => hop_epoch # 0
    /\ \A s \in promised : s.epoch = 0 => s.generation = 0

\* The first boot, before any marker.
LEMMA SessionInit == Init => SessionInv
<1>1. \A e : Legacy(e).generation = 0 BY DEF Legacy
<1> QED BY <1>1 DEF Init, SessionInv, NewAuthority, NewFollower

\* Every step keeps the fitted clock close.
LEMMA SessionStep ==
    ASSUME MaxBoots <= 1, MaxResumes = 0, HopsetInv, HopsetInv', SessionInv, [Next]_vars
    PROVE  SessionInv'
<1> USE DEF authVars, folVars, world, history
<1>t. TypeOK /\ TypeOK' BY DEF HopsetInv
<1>0. /\ auth \in AuthorityType /\ fol \in FollowerType /\ tick_slot \in Int
      /\ fslot \in Int /\ slot \in Int /\ flight \in Markers /\ flight.slot \in Int
      /\ resumed \in Nat /\ hop_epoch \in Nat
  BY <1>t DEF TypeOK, Markers
<1>m. MaxFlight \in Nat /\ MaxBoots \in Nat BY LinkAssumption DEF LinkAssumption
<1>c. /\ auth.epoch = 1
      /\ flight = NoMarker \/ (flight.epoch = 1 /\ slot - flight.slot <= MaxFlight)
      /\ hop_epoch # 0 => slot - fslot <= MaxFlight
      /\ fol.st = "Recovering" => hop_epoch # 0
      /\ \A s \in promised : s.epoch = 0 => s.generation = 0
  BY DEF SessionInv
<1>a. ASSUME AuthorityMoves(auth, auth'), Promise,
             UNCHANGED <<fol, fslot, hop_epoch, slot, flight>>
      PROVE  SessionInv'
  <2>1. auth'.epoch = 1
    BY <1>a, <1>c DEF AuthorityMoves, Keeps, Starts, Swaps, SwapsAndStarts
  <2>2. auth'.committing => auth'.pend.epoch = 1
    BY <2>1 DEF HopsetInv, AuthorityInv, Follows
  <2>3. \A s \in promised' : s.epoch = 0 => s.generation = 0
    BY <1>a, <1>c, <2>2 DEF Promise
  <2> QED BY <1>a, <1>c, <2>1, <2>3 DEF SessionInv
<1>f. ASSUME fol'.st = "Recovering" => fol.st = "Recovering",
             UNCHANGED <<auth, promised, slot, flight, fslot, hop_epoch>>
      PROVE  SessionInv'
  BY <1>f, <1>c DEF SessionInv
<1>1. CASE HearProposal
  <2>1. PICK m \in air : m.type = "PROPOSAL" /\ on_proposal(m) BY <1>1 DEF HearProposal
  <2>2. m \in Proposals BY <1>t, <2>1, AirTypes
  <2>3. AuthorityMoves(auth, auth') BY <1>0, <2>1, <2>2, ProposalFacts
  <2>4. Promise /\ UNCHANGED <<fol, fslot, hop_epoch, slot, flight>>
    BY <1>1 DEF HearProposal
  <2> QED BY <2>3, <2>4, <1>a
<1>2. CASE VetoProposal
  BY <1>2, <1>f DEF VetoProposal, reject_proposal
<1>3. CASE HearHeartbeat
  <2>1. auth'.epoch = auth.epoch
    BY <1>0, <1>3, StampFacts DEF HearHeartbeat, on_heartbeat, Keeps
  <2>2. UNCHANGED <<promised, fol, fslot, hop_epoch, slot, flight>>
    BY <1>3 DEF HearHeartbeat
  <2> QED BY <1>c, <2>1, <2>2 DEF SessionInv
<1>4. CASE NewSlot
  BY <1>4, <1>f DEF NewSlot, StoreSlot
<1>5. CASE AuthorityTick
  <2>1. OperatorMasks \in SUBSET Masks /\ LocalMasks \in SUBSET Masks
    BY LinkAssumption DEF LinkAssumption
  <2>2. /\ TransmitPass(OperatorMasks, LocalMasks) /\ Promise
        /\ UNCHANGED <<fol, fslot, hop_epoch, slot, flight>>
    BY <1>5 DEF AuthorityTick
  <2>3. AuthorityMoves(auth, auth') BY <1>0, <2>1, <2>2, TransmitFacts
  <2> QED BY <2>2, <2>3, <1>a
<1>6. CASE StampMarker
  <2>1. /\ UNCHANGED <<auth, promised, fol, fslot, hop_epoch, slot>>
        /\ flight'.slot = slot /\ flight'.epoch = auth.epoch
    BY <1>6 DEF StampMarker
  <2> QED BY <1>0, <1>m, <1>c, <2>1 DEF SessionInv
<1>7. CASE AuthorityRestart
  <2>1. auth.epoch < MaxBoots BY <1>7 DEF AuthorityRestart
  <2> QED BY <1>m, <1>c, <2>1
<1>8. CASE AuthorityResume
  <2>1. resumed < MaxResumes BY <1>8 DEF AuthorityResume
  <2> QED BY <1>0, <2>1
<1>9. CASE FollowerPropose
  <2>1. PICK mask \in ProposedMasks : propose(mask, fol.nonce + 1)
    BY <1>9 DEF FollowerPropose
  <2>2. fol'.st = "Proposing" /\ UNCHANGED <<fslot, hop_epoch>>
    BY <1>0, <2>1 DEF propose, FollowerType
  <2>3. UNCHANGED <<auth, promised, slot, flight>> BY <1>9 DEF FollowerPropose
  <2> QED BY <2>2, <2>3, <1>f
<1>10. CASE HearCommit
  <2>1. PICK m \in air : m.type = "COMMIT" /\ on_commit(m) BY <1>10 DEF HearCommit
  <2>2. m.state \in States BY <1>t, <2>1, AirTypes DEF Commits
  <2>3. fol'.st # "Recovering" BY <1>0, <2>1, <2>2, CommitFacts DEF on_commit, Takes
  <2>4. UNCHANGED <<auth, promised, slot, flight, fslot, hop_epoch>>
    BY <1>10, <2>1 DEF HearCommit, on_commit
  <2> QED BY <2>3, <2>4, <1>f
<1>11. CASE HearStatus
  <2>1. PICK m \in air : m.type = "STATUS" /\ on_status(m) BY <1>11 DEF HearStatus
  <2>2. m \in Statuses BY <1>t, <2>1, AirTypes
  <2>3. m.state.generation = 0 => m.state.mask = FullMask
    BY <2>1 DEF HopsetInv, AirInv, PromisesInv
  <2>4. fol'.st = "Synced" BY <1>0, <2>1, <2>2, <2>3, OnStatusFacts
  <2>5. UNCHANGED <<auth, promised, slot, flight, fslot, hop_epoch>>
    BY <1>11, <2>1 DEF HearStatus, on_status
  <2> QED BY <2>4, <2>5, <1>f
<1>12. CASE HearMarker
  <2>1. /\ UNCHANGED <<auth, promised, slot>> /\ flight' = NoMarker
        /\ hop_epoch' = flight.epoch /\ flight # NoMarker
    BY <1>12 DEF HearMarker, on_marker
  <2>2. hop_epoch' = 1 /\ slot - flight.slot <= MaxFlight BY <1>c, <2>1
  <2>3. \/ fslot' = flight.slot
        \/ /\ hop_epoch = flight.epoch
           /\ \/ fslot' = fslot \/ fslot' = fslot + 1
              \/ flight.slot < fslot /\ fslot' = fslot - 1
    BY <1>12 DEF HearMarker, on_marker, Anchored
  <2>4. slot - fslot' <= MaxFlight BY <1>0, <1>m, <1>c, <2>1, <2>2, <2>3
  <2> QED BY <1>c, <2>1, <2>2, <2>4 DEF SessionInv
<1>13. CASE FollowerTick
  <2>1. fol_tick BY <1>13 DEF FollowerTick
  <2>2. fol'.st = "Recovering" => fol.st = "Recovering"
    BY <1>0, <2>1, FolTickFacts DEF Adopts
  <2>3. UNCHANGED <<auth, promised, slot, flight, fslot, hop_epoch>>
    BY <1>13, <2>1 DEF FollowerTick, fol_tick
  <2> QED BY <2>2, <2>3, <1>f
<1>14. CASE FollowerRestart
  <2>1. fol'.st = "Synced" /\ hop_epoch' = 0
    BY <1>14 DEF FollowerRestart, NewFollower
  <2>2. UNCHANGED <<auth, promised, slot, flight>> BY <1>14 DEF FollowerRestart
  <2> QED BY <1>c, <2>1, <2>2 DEF SessionInv
<1>15. CASE SlotPasses
  <2>1. /\ slot' = slot + 1 /\ fslot' = IF hop_epoch = 0 THEN fslot ELSE fslot + 1
        /\ flight' = IF flight.epoch = auth.epoch /\ slot - flight.slot >= MaxFlight
                     THEN NoMarker ELSE flight
        /\ UNCHANGED <<auth, promised, fol, hop_epoch>>
    BY <1>15 DEF SlotPasses
  <2>2. hop_epoch' # 0 => slot' - fslot' <= MaxFlight BY <1>0, <1>m, <1>c, <2>1
  <2>3. flight' = NoMarker \/ (flight'.epoch = 1 /\ slot' - flight'.slot <= MaxFlight)
    BY <1>0, <1>m, <1>c, <2>1
  <2> QED BY <1>c, <2>1, <2>2, <2>3 DEF SessionInv
<1>16. CASE UNCHANGED vars
  BY <1>16, <1>f DEF vars
<1> QED BY <1>1, <1>2, <1>3, <1>4, <1>5, <1>6, <1>7, <1>8, <1>9, <1>10, <1>11,
           <1>12, <1>13, <1>14, <1>15, <1>16 DEF Next

\* The live beacon is inside the window and not older than what is held.
LEMMA BeaconAccepted ==
    ASSUME MaxFlight <= MaxLeadSlots, HopsetInv, ClockInv, SessionInv
    PROVE  BeaconRecovers
<1> SUFFICES ASSUME fol.st = "Recovering", ~ (auth.committing /\ fol.cur = auth.pend)
             PROVE  StatusNewer(fol, LiveStatus, fslot) \/ StatusAgrees(fol, LiveStatus, fslot)
  BY DEF BeaconRecovers
<1>0. /\ auth \in AuthorityType /\ fol \in FollowerType
      /\ fslot \in Int /\ slot \in Int /\ tick_slot \in Int
      /\ auth.cur \in States /\ fol.cur \in States /\ auth.pend \in States
      /\ auth.cur.activate_slot \in Int
      /\ auth.cur.generation \in Nat /\ fol.cur.generation \in Nat /\ fol.cur.epoch \in Nat
  BY AuthorityFields, FollowerFields DEF HopsetInv, TypeOK, States
<1>1. LiveStatus.state = auth.cur BY DEF LiveStatus, Status
<1>2. mask_valid(auth.cur.mask) BY <1>0 DEF States, LegalMasks
<1>3. InWindow(auth.cur, fslot)
  <2>1. slot - fslot <= MaxFlight BY DEF SessionInv
  <2>2. auth.cur.activate_slot <= tick_slot /\ tick_slot <= slot BY DEF ClockInv
  <2>3. MaxFlight \in Nat /\ MaxLeadSlots \in Nat
    BY LinkAssumption, HopsetAssumption DEF LinkAssumption, HopsetAssumption
  <2> QED BY <1>0, <2>1, <2>2, <2>3 DEF InWindow
<1>4. fol.cur.generation <= auth.cur.generation
  <2>1. fol.cur \in promised /\ auth.epoch = 1
    BY DEF HopsetInv, FollowerInv, SessionInv
  <2>2. CASE fol.cur.epoch = 0 BY <1>0, <2>1, <2>2 DEF SessionInv
  <2>3. CASE fol.cur.epoch = 1
    <3>1. fol.cur.generation <= Newest(auth).generation
      BY <2>1, <2>3 DEF HopsetInv, PromisesInv
    <3>2. CASE ~ auth.committing BY <3>1, <3>2 DEF Newest
    <3>3. CASE auth.committing
      <4>1. /\ auth.pend \in promised /\ auth.pend.epoch = 1
            /\ auth.pend.generation = auth.cur.generation + 1
        BY <2>1, <3>3 DEF HopsetInv, AuthorityInv, Follows
      <4>2. fol.cur.generation # auth.pend.generation
        BY <2>1, <2>3, <3>3, <4>1 DEF HopsetInv, PromisesInv, Unique
      <4>3. fol.cur.generation <= auth.pend.generation BY <3>1, <3>3 DEF Newest
      <4> QED BY <1>0, <4>1, <4>2, <4>3
    <3> QED BY <3>2, <3>3
  <2>4. fol.cur.epoch <= 1 BY <2>1 DEF HopsetInv, PromisesInv
  <2> QED BY <1>0, <2>2, <2>3, <2>4
<1>5. \/ auth.cur.generation > fol.cur.generation
      \/ auth.cur.generation = fol.cur.generation
  BY <1>0, <1>4
<1> HIDE DEF LiveStatus
<1> QED BY <1>1, <1>2, <1>3, <1>5 DEF StatusNewer, StatusAgrees

(***************************************************************************)
(* In one session of the transmitter a recovering follower always accepts  *)
(* the live beacon: the check on the generation does not refuse it, and    *)
(* neither does the activation window, as long as a marker's flight fits   *)
(* into max_lead_slots.                                                    *)
(***************************************************************************)
THEOREM HopsetBeaconRecovers ==
    ASSUME MaxBoots <= 1, MaxResumes = 0, MaxFlight <= MaxLeadSlots
    PROVE  Spec => []BeaconRecovers
<1>1. HopsetInv /\ [Next]_vars => HopsetInv' BY NextGood DEF Good
<1>2. HopsetInv /\ ClockInv /\ [Next]_vars => ClockInv' BY ClockStep
<1>3. HopsetInv /\ HopsetInv' /\ SessionInv /\ [Next]_vars => SessionInv' BY SessionStep
<1>4. HopsetInv /\ ClockInv /\ SessionInv => BeaconRecovers BY BeaconAccepted
<1> QED BY InitInv, ClockInit, SessionInit, <1>1, <1>2, <1>3, <1>4, PTL DEF Spec

------------------------------------------------------------------------------
(***************************************************************************)
(* The pace of changes that are not the operator's: what is committed was  *)
(* held against the limits, and the round of the last activation, which    *)
(* the limits are counted from, is one of the numbering that runs.         *)
(***************************************************************************)
Bounded(a) ==
    /\ Cardinality(Differ(a.pend.mask, a.cur.mask)) <= MaxMaskDelta
    /\ a.have_activation =>
         a.pend.activate_slot - a.cur.activate_slot
            >= (MinUpdateGap + LeadRounds) * RoundLength(a.cur)

Paced(a, now) ==
    /\ a.have_activation =>
         a.cur.activate_slot <= now /\ a.last_activation_round >= 0
    /\ a.committing => Bounded(a)

PaceInv == tick_slot <= slot /\ Paced(auth, tick_slot)

\* A step that moves neither the states nor what the limits are counted from.
KeepsPace(a, b) ==
    /\ b \in AuthorityType /\ Keeps(a, b)
    /\ b.have_activation = a.have_activation
    /\ b.last_activation_round = a.last_activation_round

\* The pace survives time stamps and the passing of time.
LEMMA PaceKept ==
    ASSUME NEW a \in AuthorityType, NEW b, KeepsPace(a, b),
           NEW s \in Int, NEW t \in Int, s <= t, Paced(a, s)
    PROVE  Paced(b, t)
<1>1. a.cur.activate_slot \in Int BY AuthorityFields DEF States
<1>2. a.cur.activate_slot <= s => a.cur.activate_slot <= t BY <1>1
<1>3. Bounded(a) => Bounded(b) BY DEF KeepsPace, Keeps, Bounded
<1> QED BY <1>2, <1>3 DEF Paced, KeepsPace, Keeps

\* Feedback, a repeated commit, the beacon and the ring keep the pace.
LEMMA PaceStamps ==
    ASSUME NEW a \in AuthorityType, NEW now \in Int
    PROVE  /\ KeepsPace(a, a)
           /\ KeepsPace(a, note_feedback(a, now))
           /\ KeepsPace(a, push_commit(a, now))
           /\ KeepsPace(a, [a EXCEPT !.last_status = now])
           /\ \A r \in Seq(Exchanges) : KeepsPace(a, [a EXCEPT !.ring = r])
<1>1. KeepsPace(a, a) BY DEF KeepsPace, Keeps
<1>2. KeepsPace(a, note_feedback(a, now))
  <2>1. round_of(a.cur, now) \in Int BY AuthorityFields, RoundType
  <2>2. \A r \in Int : KeepsPace(a, [a EXCEPT !.last_feedback_round = r, !.have_feedback = TRUE])
    BY DEF AuthorityType, KeepsPace, Keeps
  <2> QED BY <2>1, <2>2 DEF note_feedback
<1>3. KeepsPace(a, push_commit(a, now))
  BY DEF AuthorityType, KeepsPace, Keeps, push_commit
<1>4. KeepsPace(a, [a EXCEPT !.last_status = now]) BY DEF AuthorityType, KeepsPace, Keeps
<1>5. ASSUME NEW r \in Seq(Exchanges) PROVE KeepsPace(a, [a EXCEPT !.ring = r])
  BY DEF AuthorityType, KeepsPace, Keeps
<1> QED BY <1>1, <1>2, <1>3, <1>4, <1>5

\* Legal masks differ in a finite number of channels.
LEMMA DifferFinite ==
    ASSUME NEW m \in LegalMasks, NEW n \in LegalMasks
    PROVE  Cardinality(Differ(m, n)) \in Nat
<1>1. Differ(m, n) \subseteq Base BY DEF Differ, LegalMasks, mask_valid
<1>2. IsFiniteSet(Differ(m, n)) BY <1>1, HopsetAssumption, FS_Subset DEF HopsetAssumption
<1> QED BY <1>2, FS_CardinalityType

\* A change that passed change_reason starts within the limits.
LEMMA PaceStarts ==
    ASSUME MaxMaskDelta # 0, NEW a \in AuthorityType, NEW m \in AllMasks,
           NEW x \in Exchanges, NEW now \in Int, Paced(a, now),
           change_reason(a, m, now) = "None"
    PROVE  Paced(start_commit(a, m, x, now), now)
<1> DEFINE n == RoundLength(a.cur)
           r == round_of(a.cur, now)
           at == a.cur.activate_slot + (r + LeadRounds) * n
           p == [epoch |-> a.epoch, generation |-> a.cur.generation + 1,
                 mask |-> m, activate_slot |-> at]
           b == start_commit(a, m, x, now)
<1>0. /\ a.cur \in States /\ a.cur.activate_slot \in Int /\ a.cur.mask \in LegalMasks
      /\ a.last_activation_round \in Int
  BY AuthorityFields DEF States, AuthorityType
<1>1. m \in LegalMasks /\ ~ a.committing /\ mask_reason(a, m) = "None" BY ReasonFacts
<1>2. limit_reason(a, m, now) = "None"
  <2> HIDE DEF mask_reason, limit_reason
  <2> QED BY <1>1 DEF change_reason
<1>3. /\ b = [a EXCEPT !.pend = p, !.committing = TRUE, !.echo = x, !.last_commit = now]
  BY DEF start_commit, push_commit, AuthorityType
<1>4. /\ b.pend.mask = m /\ b.pend.activate_slot = at /\ b.cur = a.cur
      /\ b.have_activation = a.have_activation
      /\ b.last_activation_round = a.last_activation_round
  BY <1>3 DEF AuthorityType
<1>5. MaxMaskDelta \in Nat /\ MinUpdateGap \in Nat /\ LeadRounds \in Nat
  BY HopsetAssumption DEF HopsetAssumption
<1>6. Cardinality(Differ(m, a.cur.mask)) <= MaxMaskDelta
  <2>1. Cardinality(Differ(m, a.cur.mask)) \in Nat BY <1>0, <1>1, DifferFinite
  <2>2. ~ (Cardinality(Differ(m, a.cur.mask)) > MaxMaskDelta)
    BY <1>2 DEF limit_reason
  <2> QED BY <1>5, <2>1, <2>2
<1>7. ASSUME a.have_activation
      PROVE  at - a.cur.activate_slot >= (MinUpdateGap + LeadRounds) * n
  <2>1. r \in Nat
    BY <1>0, <1>7, RoundNotNegative DEF Paced
  <2>2. r >= MinUpdateGap
    <3>1. CASE MinUpdateGap = 0 BY <2>1, <3>1
    <3>2. CASE MinUpdateGap # 0
      <4>1. ~ (r - a.last_activation_round < MinUpdateGap)
        BY <1>2, <1>7, <3>2 DEF limit_reason
      <4>2. a.last_activation_round >= 0 BY <1>7 DEF Paced
      <4> HIDE DEF r
      <4> QED BY <1>0, <1>5, <2>1, <4>1, <4>2
    <3> QED BY <3>1, <3>2
  <2>3. n \in Nat BY <1>0, RoundLengthType
  <2> HIDE DEF n, r
  <2>4. r + LeadRounds \in Nat /\ MinUpdateGap + LeadRounds \in Nat
        /\ r + LeadRounds >= MinUpdateGap + LeadRounds
    BY <1>5, <2>1, <2>2
  <2>5. (r + LeadRounds) * n >= (MinUpdateGap + LeadRounds) * n
    BY <2>3, <2>4, ProductGrows
  <2>6. (r + LeadRounds) * n \in Int BY <2>3, <2>4
  <2>7. at - a.cur.activate_slot = (r + LeadRounds) * n BY <1>0, <2>6
  <2> QED BY <2>5, <2>7
<1> HIDE DEF b, at, p
<1>8. Bounded(b) BY <1>4, <1>6, <1>7 DEF Bounded, n
<1> QED BY <1>4, <1>8 DEF Paced, b

\* on_tick: after the swap the rounds are counted from the new activation.
LEMMA PaceTick ==
    ASSUME NEW a \in AuthorityType, NEW now \in Int, Paced(a, now)
    PROVE  AfterTick(a, now) \in AuthorityType /\ Paced(AfterTick(a, now), now)
<1> DEFINE b == Activate(a, now)
           c == IF repeats(a, now) THEN push_commit(b, now) ELSE b
           d == IF beacons(a, now) THEN [c EXCEPT !.last_status = now] ELSE c
<1>1. b \in AuthorityType /\ Paced(b, now)
  <2>0. b \in AuthorityType BY ActivateFacts
  <2>1. CASE ~ activates(a, now) BY <2>0, <2>1 DEF Activate
  <2>2. CASE activates(a, now)
    <3>1. a.pend \in States /\ a.pend.activate_slot \in Int
      BY AuthorityFields DEF States
    <3>2. a.pend.activate_slot <= now BY <2>2, <3>1 DEF activates
    <3>3. round_of(a.pend, now) \in Nat BY <3>1, <3>2, RoundNotNegative
    <3>4. b = [a EXCEPT !.cur = a.pend, !.committing = FALSE,
                        !.last_activation_round = round_of(a.pend, now),
                        !.have_activation = TRUE]
      BY <2>2 DEF Activate, AuthorityType
    <3>5. /\ b.cur = a.pend /\ ~ b.committing
          /\ b.last_activation_round = round_of(a.pend, now)
      BY <3>4 DEF AuthorityType
    <3> HIDE DEF b
    <3> QED BY <2>0, <3>2, <3>3, <3>5 DEF Paced
  <2> QED BY <2>1, <2>2
<1>2. c \in AuthorityType /\ Paced(c, now)
  <2> HIDE DEF b
  <2>1. KeepsPace(b, c) BY <1>1, PaceStamps
  <2> HIDE DEF c
  <2>2. now <= now OBVIOUS
  <2> QED BY <1>1, <2>1, <2>2, PaceKept DEF KeepsPace
<1>3. d \in AuthorityType /\ Paced(d, now)
  <2> HIDE DEF c
  <2>1. KeepsPace(c, d) BY <1>2, PaceStamps
  <2> HIDE DEF d
  <2>2. now <= now OBVIOUS
  <2> QED BY <1>2, <2>1, <2>2, PaceKept DEF KeepsPace
<1>4. AfterTick(a, now) = d BY DEF AfterTick
<1> QED BY <1>3, <1>4

\* Every step keeps the pace, if the operator's lever is left alone.
LEMMA PaceStep ==
    ASSUME OperatorMasks = {}, MaxMaskDelta # 0, TypeOK, TypeOK', PaceInv, [Next]_vars
    PROVE  PaceInv'
<1> USE DEF authVars, folVars, world, history
<1>0. /\ auth \in AuthorityType /\ auth' \in AuthorityType
      /\ tick_slot \in Int /\ slot \in Int
      /\ tick_slot <= slot /\ Paced(auth, tick_slot) /\ tick_slot <= tick_slot
  BY DEF TypeOK, PaceInv
<1>k. KeepsPace(auth, auth) BY <1>0, PaceStamps
<1>a. ASSUME KeepsPace(auth, auth'), UNCHANGED <<tick_slot, slot>> PROVE PaceInv'
  <2>1. Paced(auth', tick_slot) BY <1>a, <1>0, PaceKept
  <2> QED BY <1>0, <1>a, <2>1 DEF PaceInv
<1>1. CASE HearProposal
  <2>1. PICK m \in air : m.type = "PROPOSAL" /\ on_proposal(m) BY <1>1 DEF HearProposal
  <2>2. m \in Proposals BY <2>1, AirTypes
  <2>3. m.exchange \in Exchanges /\ m.mask \in AllMasks BY <2>2 DEF Proposals
  <2>4. UNCHANGED <<tick_slot, slot>> BY <1>1 DEF HearProposal
  <2> DEFINE a == note_feedback(auth, tick_slot)
             why == proposal_reason(a, m, tick_slot)
  <2>5. KeepsPace(auth, a) BY <1>0, PaceStamps
  <2>6. \/ auth' = push_commit(a, tick_slot) \/ auth' = a
        \/ why = "None" /\ auth' = Accepts(a, m, tick_slot)
    BY <2>1 DEF on_proposal
  <2>7. why = "None" => change_reason(a, m.mask, tick_slot) = "None"
    <3> HIDE DEF a
    <3> QED BY DEF proposal_reason
  <2> HIDE DEF a, why
  <2>8. a \in AuthorityType /\ Paced(a, tick_slot)
    BY <1>0, <2>5, PaceKept DEF KeepsPace
  <2>9. CASE auth' = push_commit(a, tick_slot)
    BY <1>0, <2>4, <2>8, <2>9, PaceStamps, PaceKept DEF PaceInv
  <2>10. CASE auth' = a BY <1>0, <2>4, <2>8, <2>10 DEF PaceInv
  <2>11. CASE why = "None" /\ auth' = Accepts(a, m, tick_slot)
    <3> DEFINE b == [a EXCEPT !.ring = remember(@, m.exchange)]
    <3>1. KeepsPace(a, b)
      <4>1. remember(a.ring, m.exchange) \in Seq(Exchanges)
        BY <2>3, <2>8, AuthorityFields, RememberType
      <4> QED BY <1>0, <2>8, <4>1, PaceStamps
    <3>2. auth' = start_commit(b, m.mask, m.exchange, tick_slot)
      BY <2>11 DEF Accepts
    <3>3. change_reason(b, m.mask, tick_slot) = change_reason(a, m.mask, tick_slot)
      <4>1. /\ b.cur = a.cur /\ b.committing = a.committing
            /\ b.have_activation = a.have_activation
            /\ b.last_activation_round = a.last_activation_round
        BY <3>1 DEF KeepsPace, Keeps
      <4> HIDE DEF b
      <4> QED BY <4>1 DEF change_reason, mask_reason, limit_reason
    <3> HIDE DEF b
    <3>4. b \in AuthorityType /\ Paced(b, tick_slot)
      BY <1>0, <2>8, <3>1, PaceKept DEF KeepsPace
    <3>5. Paced(auth', tick_slot)
      BY <1>0, <2>3, <2>7, <2>11, <3>2, <3>3, <3>4, PaceStarts
    <3> QED BY <1>0, <2>4, <3>5 DEF PaceInv
  <2> QED BY <2>6, <2>9, <2>10, <2>11
<1>2. CASE VetoProposal
  BY <1>k, <1>a, <1>2 DEF VetoProposal, reject_proposal
<1>3. CASE HearHeartbeat
  BY <1>0, <1>a, <1>3, PaceStamps DEF HearHeartbeat, on_heartbeat
<1>4. CASE NewSlot
  <2>1. tick_slot' = slot /\ UNCHANGED <<auth, slot>> BY <1>4 DEF NewSlot, StoreSlot
  <2>2. Paced(auth, slot) BY <1>0, <1>k, PaceKept
  <2> QED BY <1>0, <2>1, <2>2 DEF PaceInv
<1>5. CASE AuthorityTick
  <2>1. UNCHANGED <<tick_slot, slot>> /\ TransmitPass(OperatorMasks, LocalMasks)
    BY <1>5 DEF AuthorityTick, TransmitPass
  <2>2. start_change(auth, OperatorMasks, tick_slot) = {} BY DEF start_change
  <2> DEFINE b == AfterTick(auth, tick_slot)
  <2>3. auth' \in {b} \cup start_local_change(b, LocalMasks, tick_slot)
    BY <2>1, <2>2 DEF TransmitPass
  <2>4. b \in AuthorityType /\ Paced(b, tick_slot) BY <1>0, PaceTick
  <2> HIDE DEF b
  <2>5. CASE auth' = b BY <1>0, <2>1, <2>4, <2>5 DEF PaceInv
  <2>6. CASE auth' \in start_local_change(b, LocalMasks, tick_slot)
    <3>1. PICK m \in LocalMasks : /\ change_reason(b, m, tick_slot) = "None"
                                  /\ auth' = start_commit(b, m, NoExchange, tick_slot)
      BY <2>6 DEF start_local_change
    <3>2. m \in AllMasks BY LinkAssumption DEF LinkAssumption, AllMasks
    <3>3. NoExchange \in Exchanges BY DEF NoExchange, Exchanges
    <3>4. Paced(auth', tick_slot) BY <1>0, <2>4, <3>1, <3>2, <3>3, PaceStarts
    <3> QED BY <1>0, <2>1, <3>4 DEF PaceInv
  <2> QED BY <2>3, <2>5, <2>6
<1>6. CASE StampMarker
  BY <1>k, <1>a, <1>6 DEF StampMarker
<1>7. CASE AuthorityRestart
  <2>1. /\ auth' = NewAuthority(auth.epoch + 1) /\ slot' = 0 /\ tick_slot' = 0
    BY <1>7 DEF AuthorityRestart
  <2>2. ~ auth'.committing /\ ~ auth'.have_activation BY <2>1 DEF NewAuthority
  <2> QED BY <2>1, <2>2 DEF PaceInv, Paced
<1>8. CASE AuthorityResume
  <2>1. auth' = restore(auth.epoch + 1, auth.cur) /\ UNCHANGED <<tick_slot, slot>>
    BY <1>8 DEF AuthorityResume
  <2>2. ~ auth'.committing /\ ~ auth'.have_activation
    BY <2>1 DEF restore, NewAuthority
  <2> QED BY <1>0, <2>1, <2>2 DEF PaceInv, Paced
<1>9. CASE FollowerPropose \/ HearCommit \/ HearStatus \/ FollowerTick \/ FollowerRestart
  BY <1>k, <1>a, <1>9
  DEF FollowerPropose, HearCommit, HearStatus, FollowerTick, FollowerRestart
<1>10. CASE HearMarker
  BY <1>k, <1>a, <1>10 DEF HearMarker
<1>11. CASE SlotPasses
  <2>1. slot' = slot + 1 /\ UNCHANGED <<auth, tick_slot>> BY <1>11 DEF SlotPasses
  <2> QED BY <1>0, <2>1 DEF PaceInv
<1>12. CASE UNCHANGED vars
  BY <1>k, <1>a, <1>12 DEF vars
<1> QED BY <1>1, <1>2, <1>3, <1>4, <1>5, <1>6, <1>7, <1>8, <1>9, <1>10, <1>11,
           <1>12 DEF Next

(***************************************************************************)
(* Proposals and the transmitter's own sensing together cannot walk the    *)
(* hopset faster than the limits allow, through restarts and replays.  The *)
(* operator's lever is exempt from the limits, and a max_mask_delta of 0   *)
(* switches the first one off.                                             *)
(***************************************************************************)
THEOREM HopsetPaced ==
    ASSUME OperatorMasks = {}, MaxMaskDelta # 0
    PROVE  Spec => []UpdatesAreBounded
<1>1. Init => PaceInv
  BY DEF Init, PaceInv, Paced, NewAuthority
<1>2. TypeOK /\ [Next]_vars => TypeOK' BY NextType
<1>3. TypeOK /\ TypeOK' /\ PaceInv /\ [Next]_vars => PaceInv' BY PaceStep
<1>4. PaceInv => UpdatesAreBounded BY DEF PaceInv, Paced, Bounded, UpdatesAreBounded
<1> QED BY InitType, <1>1, <1>2, <1>3, <1>4, PTL DEF Spec

------------------------------------------------------------------------------
(***************************************************************************)
(* The tripwire in one session.  A marker in flight tells of the running   *)
(* state or of the one before it; in the second case it was stamped no     *)
(* later than the transmit loop's lag allows.  A follower that has swapped *)
(* remembers where.                                                        *)
(***************************************************************************)
LagInv == slot - tick_slot <= MaxTickLag

LeadInv ==
    auth.committing =>
        /\ ~ due => tick_slot < auth.pend.activate_slot
        /\ auth.pend.activate_slot - auth.cur.activate_slot
              >= LeadRounds * RoundLength(auth.cur)

TellsOfCurrent ==
    /\ flight.state = auth.cur
    /\ auth.committing => flight.slot < auth.pend.activate_slot + MaxTickLag

TellsOfLast ==
    /\ flight.state \in promised /\ flight.state.epoch = auth.epoch
    /\ flight.state.generation + 1 = auth.cur.generation
    /\ flight.slot < auth.cur.activate_slot + MaxTickLag

FlightInv == flight # NoMarker => TellsOfCurrent \/ TellsOfLast

Graced(f) ==
    f.cur.generation # 0 => f.have_prev /\ f.activated_slot = f.cur.activate_slot

TripInv == LagInv /\ LeadInv /\ FlightInv /\ Graced(fol)

\* What the invariants of one session are together.
SessionInvs == HopsetInv /\ ClockInv /\ SessionInv

\* A round has at least MinActive slots.
LEMMA RoundAtLeast ==
    ASSUME NEW s \in States
    PROVE  LeadRounds * RoundLength(s) >= LeadRounds * MinActive
<1>1. /\ MinActive \in Nat /\ LeadRounds \in Nat /\ MinActive <= Cardinality(Base)
  BY MaskFacts, HopsetAssumption DEF HopsetAssumption
<1>2. Cardinality(s.mask) >= MinActive BY DEF States, LegalMasks, mask_valid
<1>3. RoundLength(s) \in Nat /\ RoundLength(s) >= MinActive
  BY <1>1, <1>2, MaskFacts, RoundLengthType DEF RoundLength
<1> HIDE DEF RoundLength
<1>4. RoundLength(s) * LeadRounds >= MinActive * LeadRounds
  BY <1>1, <1>3, ProductGrows
<1>5. \A i, j \in Nat : i * j = j * i OBVIOUS
<1>6. /\ RoundLength(s) * LeadRounds = LeadRounds * RoundLength(s)
      /\ MinActive * LeadRounds = LeadRounds * MinActive
  BY <1>1, <1>3, <1>5
<1> QED BY <1>4, <1>6

\* A step of the authority.
LEMMA TripAuthority ==
    ASSUME MaxFlight + MaxTickLag <= LeadRounds * MinActive,
           SessionInvs, TripInv, AuthorityMoves(auth, auth'),
           auth'.cur = auth.cur \/ auth'.cur.activate_slot <= tick_slot,
           auth'.committing => Keeps(auth, auth') \/ Leads(auth', tick_slot),
           auth'.committing /\ ~ due' => auth'.pend.activate_slot > tick_slot,
           UNCHANGED <<tick_slot, slot, flight, fol>>, promised \subseteq promised'
    PROVE  TripInv'
<1>0. /\ auth \in AuthorityType /\ auth' \in AuthorityType
      /\ tick_slot \in Int /\ slot \in Int /\ flight \in Markers /\ flight.slot \in Int
      /\ auth.cur \in States /\ auth.pend \in States /\ auth'.pend \in States
      /\ auth.cur.activate_slot \in Int /\ auth.pend.activate_slot \in Int
      /\ auth'.pend.activate_slot \in Int
      /\ auth.cur.generation \in Nat
      /\ auth.cur \in promised /\ auth.cur.epoch = auth.epoch
      /\ auth.committing => auth.pend \in promised /\ Follows(auth)
      /\ MaxTickLag \in Nat /\ MaxFlight \in Nat
  BY AuthorityFields, LinkAssumption
  DEF LinkAssumption, SessionInvs, HopsetInv, TypeOK, AuthorityInv, AuthorityMoves,
      States, Markers
<1>1. LagInv' BY DEF TripInv, LagInv
<1>2. Graced(fol)' BY DEF TripInv, Graced
<1>3. LeadInv'
  <2>1. CASE Keeps(auth, auth') /\ auth'.committing
    <3>1. auth'.pend.activate_slot - auth'.cur.activate_slot
            >= LeadRounds * RoundLength(auth'.cur)
      BY <2>1 DEF TripInv, LeadInv, Keeps
    <3> QED BY <3>1, <1>0 DEF LeadInv
  <2>2. CASE Leads(auth', tick_slot) BY <1>0, <2>2 DEF LeadInv, Leads
  <2> QED BY <2>1, <2>2 DEF LeadInv
<1>4. FlightInv'
  <2> SUFFICES ASSUME flight # NoMarker PROVE (TellsOfCurrent \/ TellsOfLast)'
    BY DEF FlightInv
  <2>0. /\ TellsOfCurrent \/ TellsOfLast
        /\ flight.slot <= slot /\ tick_slot <= slot /\ slot - tick_slot <= MaxTickLag
        /\ slot - flight.slot <= MaxFlight
    BY DEF TripInv, FlightInv, LagInv, SessionInvs, ClockInv, SessionInv
  <2>1. auth'.epoch = auth.epoch
    BY DEF AuthorityMoves, Keeps, Starts, Swaps, SwapsAndStarts
  <2>2. CASE auth'.cur = auth.cur
    <3>1. CASE TellsOfLast BY <2>1, <2>2, <3>1 DEF TellsOfLast
    <3>2. CASE TellsOfCurrent
      <4>1. ASSUME auth'.committing
            PROVE  flight.slot < auth'.pend.activate_slot + MaxTickLag
        <5>1. CASE Keeps(auth, auth') BY <3>2, <4>1, <5>1 DEF Keeps, TellsOfCurrent
        <5>2. CASE Leads(auth', tick_slot)
          <6>1. auth'.pend.activate_slot > tick_slot BY <5>2 DEF Leads
          <6> QED BY <1>0, <2>0, <6>1
        <5> QED BY <4>1, <5>1, <5>2
      <4> QED BY <2>2, <3>2, <4>1 DEF TellsOfCurrent
    <3> QED BY <2>0, <3>1, <3>2
  <2>3. CASE auth'.cur # auth.cur
    <3>1. /\ auth.committing /\ auth'.cur = auth.pend
          /\ auth.pend.activate_slot <= tick_slot
          /\ auth.pend \in promised /\ auth.pend.generation = auth.cur.generation + 1
      BY <1>0, <2>3 DEF AuthorityMoves, Keeps, Starts, Swaps, SwapsAndStarts, Follows
    <3>2. CASE TellsOfCurrent
      <4>1. flight.slot < auth'.cur.activate_slot + MaxTickLag
        BY <3>1, <3>2 DEF TellsOfCurrent
      <4>2. /\ flight.state \in promised' /\ flight.state.epoch = auth'.epoch
            /\ flight.state.generation + 1 = auth'.cur.generation
        BY <1>0, <2>1, <3>1, <3>2 DEF TellsOfCurrent
      <4> QED BY <4>1, <4>2 DEF TellsOfLast
    <3>3. CASE TellsOfLast
      <4>1. flight.slot < auth.cur.activate_slot + MaxTickLag
        BY <3>3 DEF TellsOfLast
      <4>2. auth.pend.activate_slot - auth.cur.activate_slot
              >= LeadRounds * RoundLength(auth.cur)
        BY <3>1 DEF TripInv, LeadInv
      <4>3. LeadRounds * RoundLength(auth.cur) >= LeadRounds * MinActive
        BY <1>0, RoundAtLeast
      <4>4. /\ LeadRounds * RoundLength(auth.cur) \in Int /\ LeadRounds * MinActive \in Int
        <5>1. LeadRounds \in Nat /\ MinActive \in Nat
          BY MaskFacts, HopsetAssumption DEF HopsetAssumption
        <5>2. RoundLength(auth.cur) \in Nat BY <1>0, RoundLengthType
        <5> QED BY <5>1, <5>2
      <4> DEFINE x == LeadRounds * RoundLength(auth.cur)
                 y == LeadRounds * MinActive
      <4>5. MaxFlight + MaxTickLag <= y /\ x \in Int /\ y \in Int /\ x >= y
            /\ auth.pend.activate_slot - auth.cur.activate_slot >= x
        BY <4>2, <4>3, <4>4
      <4> HIDE DEF x, y
      <4> QED BY <1>0, <2>0, <3>1, <4>1, <4>5
    <3> QED BY <2>0, <3>2, <3>3
  <2> QED BY <2>2, <2>3
<1> QED BY <1>1, <1>2, <1>3, <1>4 DEF TripInv

\* A step of the follower, after which it has swapped if it has moved.
LEMMA TripFollower ==
    ASSUME TripInv, FollowerMoves \/ UNCHANGED fol,
           UNCHANGED <<authVars, slot, promised>>, flight' \in {flight, NoMarker}
    PROVE  TripInv'
<1> USE DEF authVars
<1>1. LagInv' /\ LeadInv' BY DEF TripInv, LagInv, LeadInv
<1>2. FlightInv'
  BY DEF TripInv, FlightInv, TellsOfCurrent, TellsOfLast
<1>3. Graced(fol')
  <2>0. Graced(fol) BY DEF TripInv
  <2>1. CASE Stays(fol, fol') BY <2>0, <2>1 DEF Stays, Graced
  <2>2. CASE Adopts(fol, fol', fol.pend) BY <2>2 DEF Adopts, Graced
  <2>3. CASE \E s \in promised : Takes(fol, fol', s) BY <2>0, <2>3 DEF Takes, Graced
  <2>4. CASE fol'.cur = Legacy(0) BY <2>4 DEF Legacy, Graced
  <2>5. CASE UNCHANGED fol BY <2>0, <2>5
  <2> QED BY <2>1, <2>2, <2>3, <2>4, <2>5 DEF FollowerMoves
<1> QED BY <1>1, <1>2, <1>3 DEF TripInv

\* Every handler of the receiver moves the follower in one of these ways.
LEMMA FollowerHandlers ==
    ASSUME HopsetInv,
           \/ FollowerPropose \/ HearCommit \/ HearStatus \/ HearMarker
           \/ FollowerTick \/ FollowerRestart
    PROVE  FollowerMoves
<1>0. TypeOK /\ fol \in FollowerType /\ fslot \in Int /\ flight \in Markers
  BY DEF HopsetInv, TypeOK
<1>1. CASE FollowerPropose
  <2>1. PICK mask \in ProposedMasks : propose(mask, fol.nonce + 1)
    BY <1>1 DEF FollowerPropose
  <2>2. mask \in AllMasks BY LinkAssumption DEF LinkAssumption, AllMasks
  <2>3. fol.nonce + 1 \in Nat BY <1>0, FollowerFields
  <2> QED BY <1>0, <2>1, <2>2, <2>3, StaysFacts DEF propose, FollowerMoves
<1>2. CASE HearCommit
  <2>1. PICK m \in air : m.type = "COMMIT" /\ on_commit(m) BY <1>2 DEF HearCommit
  <2>2. m.state \in States BY <1>0, <2>1, AirTypes DEF Commits
  <2>3. m.state \in promised /\ m.state.epoch # 0 BY <2>1 DEF HopsetInv, AirInv
  <2>4. Takes(fol, fol', m.state) BY <1>0, <2>1, <2>2, CommitFacts DEF on_commit
  <2>5. same_epoch(fol, m.state) => m.state.generation > fol.cur.generation
    BY <2>1 DEF on_commit, CommitAcceptable
  <2> QED BY <2>3, <2>4, <2>5 DEF FollowerMoves
<1>3. CASE HearStatus
  <2>1. PICK m \in air : m.type = "STATUS" /\ on_status(m) BY <1>3 DEF HearStatus
  <2>2. m \in Statuses BY <1>0, <2>1, AirTypes
  <2>3. m.state \in promised /\ m.state.epoch # 0 BY <2>1 DEF HopsetInv, AirInv
  <2>4. m.state.generation = 0 => m.state.mask = FullMask
    BY <2>3 DEF HopsetInv, PromisesInv
  <2>5. \/ Stays(fol, fol')
        \/ StatusNewer(fol, m, fslot) /\ Takes(fol, fol', m.state)
    BY <1>0, <2>1, <2>2, <2>4, OnStatusFacts
  <2> QED BY <2>3, <2>5 DEF FollowerMoves, StatusNewer
<1>4. CASE HearMarker
  BY <1>0, <1>4, MarkerFacts DEF HearMarker, on_marker, FollowerMoves
<1>5. CASE FollowerTick
  BY <1>0, <1>5, FolTickFacts DEF FollowerTick, FollowerMoves
<1>6. CASE FollowerRestart
  <2>1. fol.epoch + 1 \in Nat BY <1>0, FollowerFields
  <2>2. fol' = NewFollower(fol.epoch + 1) /\ fol' \in FollowerType
    BY <1>6, <2>1, FreshTypes DEF FollowerRestart
  <2> QED BY <2>2 DEF FollowerMoves, NewFollower
<1> QED BY <1>1, <1>2, <1>3, <1>4, <1>5, <1>6

\* Every step keeps what the tripwire relies on.
LEMMA TripStep ==
    ASSUME MaxBoots <= 1, MaxResumes = 0,
           MaxFlight + MaxTickLag <= LeadRounds * MinActive,
           SessionInvs, TripInv, [Next]_vars
    PROVE  TripInv'
<1> USE DEF authVars, folVars, world, history
<1>0. /\ TypeOK /\ HopsetInv /\ auth \in AuthorityType
      /\ tick_slot \in Int /\ slot \in Int /\ flight.slot \in Int /\ resumed \in Nat
      /\ auth.pend.activate_slot \in Int
      /\ auth.cur.activate_slot <= tick_slot /\ auth.epoch = 1
      /\ MaxTickLag \in Nat /\ MaxBoots \in Nat
  BY AuthorityFields, LinkAssumption
  DEF LinkAssumption, SessionInvs, HopsetInv, TypeOK, ClockInv, SessionInv, Markers, States
<1>l. /\ slot - tick_slot <= MaxTickLag
      /\ auth.committing /\ ~ due => auth.pend.activate_slot > tick_slot
  BY <1>0 DEF TripInv, LagInv, LeadInv
<1>k. AuthorityMoves(auth, auth) /\ Keeps(auth, auth)
  BY <1>0 DEF AuthorityMoves, Keeps
<1>1. CASE HearProposal
  <2>1. PICK m \in air : m.type = "PROPOSAL" /\ on_proposal(m) BY <1>1 DEF HearProposal
  <2>2. m \in Proposals BY <1>0, <2>1, AirTypes
  <2>3. /\ AuthorityMoves(auth, auth') /\ auth'.cur = auth.cur
        /\ auth'.committing => Keeps(auth, auth') \/ Leads(auth', tick_slot)
    BY <1>0, <2>1, <2>2, ProposalFacts
  <2>4. UNCHANGED <<tick_slot, due, slot, flight, fol>> /\ promised \subseteq promised'
    BY <1>1 DEF HearProposal, Promise
  <2>5. auth'.committing /\ ~ due' => auth'.pend.activate_slot > tick_slot
    BY <1>l, <2>3, <2>4 DEF Keeps, Leads
  <2> QED BY <2>3, <2>4, <2>5, TripAuthority
<1>2. CASE VetoProposal
  BY <1>2, TripFollower DEF VetoProposal, reject_proposal
<1>3. CASE HearHeartbeat
  <2>1. auth' \in AuthorityType /\ Keeps(auth, auth')
    BY <1>0, <1>3, StampFacts DEF HearHeartbeat, on_heartbeat
  <2>2. AuthorityMoves(auth, auth') /\ auth'.cur = auth.cur
    BY <2>1 DEF AuthorityMoves, Keeps
  <2>3. UNCHANGED <<tick_slot, due, slot, flight, fol, promised>>
    BY <1>3 DEF HearHeartbeat
  <2>4. auth'.committing /\ ~ due' => auth'.pend.activate_slot > tick_slot
    BY <1>l, <2>1, <2>3 DEF Keeps
  <2> QED BY <2>1, <2>2, <2>3, <2>4, TripAuthority
<1>4. CASE NewSlot
  <2>1. /\ tick_slot' = slot /\ due'
        /\ UNCHANGED <<auth, slot, flight, fol, promised>>
    BY <1>4 DEF NewSlot, StoreSlot
  <2>2. LagInv' BY <1>0, <2>1 DEF LagInv
  <2>3. LeadInv' BY <2>1 DEF TripInv, LeadInv
  <2>4. FlightInv' BY <2>1 DEF TripInv, FlightInv, TellsOfCurrent, TellsOfLast
  <2> QED BY <2>1, <2>2, <2>3, <2>4 DEF TripInv
<1>5. CASE AuthorityTick
  <2>1. OperatorMasks \in SUBSET Masks /\ LocalMasks \in SUBSET Masks
    BY LinkAssumption DEF LinkAssumption
  <2>2. TransmitPass(OperatorMasks, LocalMasks) BY <1>5 DEF AuthorityTick
  <2>3. /\ AuthorityMoves(auth, auth')
        /\ auth'.cur = auth.cur \/ auth'.cur.activate_slot <= tick_slot
        /\ auth'.committing => auth'.pend.activate_slot > tick_slot
        /\ auth'.committing => Keeps(auth, auth') \/ Leads(auth', tick_slot)
    BY <1>0, <2>1, <2>2, TransmitFacts
  <2>4. UNCHANGED <<tick_slot, slot, flight, fol>> /\ promised \subseteq promised'
    BY <1>5, <2>2 DEF AuthorityTick, TransmitPass, Promise
  <2> QED BY <2>3, <2>4, TripAuthority
<1>6. CASE StampMarker
  <2>1. /\ ~ due /\ flight'.slot = slot /\ flight'.state = auth.cur
        /\ UNCHANGED <<auth, tick_slot, due, slot, fol, promised>>
    BY <1>6 DEF StampMarker
  <2>2. LagInv' /\ LeadInv' BY <2>1 DEF TripInv, LagInv, LeadInv
  <2>3. auth.committing => slot < auth.pend.activate_slot + MaxTickLag
    BY <1>0, <1>l, <2>1
  <2>4. FlightInv' BY <2>1, <2>3 DEF FlightInv, TellsOfCurrent
  <2> QED BY <2>1, <2>2, <2>4 DEF TripInv
<1>7. CASE AuthorityRestart
  <2>1. auth.epoch < MaxBoots BY <1>7 DEF AuthorityRestart
  <2> QED BY <1>0, <2>1
<1>8. CASE AuthorityResume
  <2>1. resumed < MaxResumes BY <1>8 DEF AuthorityResume
  <2> QED BY <1>0, <2>1
<1>9. CASE FollowerPropose \/ HearCommit \/ HearStatus \/ FollowerTick \/ FollowerRestart
  <2>1. FollowerMoves BY <1>0, <1>9, FollowerHandlers
  <2>2. UNCHANGED <<authVars, slot, promised, flight>>
    BY <1>9 DEF FollowerPropose, HearCommit, HearStatus, FollowerTick, FollowerRestart
  <2> QED BY <2>1, <2>2, TripFollower
<1>10. CASE HearMarker
  <2>1. FollowerMoves BY <1>0, <1>10, FollowerHandlers
  <2>2. UNCHANGED <<authVars, slot, promised>> /\ flight' = NoMarker
    BY <1>10 DEF HearMarker
  <2> QED BY <2>1, <2>2, TripFollower
<1>11. CASE SlotPasses
  <2>1. /\ slot' = slot + 1 /\ slot - tick_slot < MaxTickLag
        /\ flight' \in {flight, NoMarker}
        /\ UNCHANGED <<auth, tick_slot, due, fol, promised>>
    BY <1>11 DEF SlotPasses
  <2>2. LagInv' BY <1>0, <2>1 DEF LagInv
  <2>3. LeadInv' BY <2>1 DEF TripInv, LeadInv
  <2>4. FlightInv' BY <2>1 DEF TripInv, FlightInv, TellsOfCurrent, TellsOfLast
  <2> QED BY <2>1, <2>2, <2>3, <2>4 DEF TripInv
<1>12. CASE UNCHANGED vars
  BY <1>12, TripFollower DEF vars
<1> QED BY <1>1, <1>2, <1>3, <1>4, <1>5, <1>6, <1>7, <1>8, <1>9, <1>10, <1>11,
           <1>12 DEF Next

\* A marker that starts a recovery is news to a follower that steps along.
LEMMA AlarmIsTrue ==
    ASSUME MaxTickLag <= StaleMarkerSlots, SessionInvs, TripInv, [Next]_vars,
           fol.st # "Recovering", fol'.st = "Recovering", StepByStep(fol)
    PROVE  /\ ~ SameSchedule(fol.cur, auth.cur)
           /\ ~ (fol.st = "Pending" /\ fol.pend = auth.cur)
<1> USE DEF authVars, folVars, world, history
<1>0. /\ TypeOK /\ HopsetInv /\ fol \in FollowerType /\ fslot \in Int
      /\ flight \in Markers /\ flight.slot \in Int
      /\ flight.state.generation \in Nat
      /\ fol.cur \in promised /\ fol.cur.epoch \in Nat /\ auth.epoch = 1
      /\ fol.cur.generation \in Nat /\ fol.pend.generation \in Nat
      /\ fol.prev_generation \in Nat
      /\ auth.cur.activate_slot \in Int /\ auth.cur.epoch = 1 /\ auth.cur \in promised
      /\ MaxTickLag \in Nat /\ StaleMarkerSlots \in Nat
  <2>1. /\ TypeOK /\ HopsetInv /\ fol \in FollowerType /\ fslot \in Int
        /\ flight \in Markers /\ auth \in AuthorityType /\ auth.epoch = 1
        /\ fol.cur \in promised /\ auth.cur.epoch = 1 /\ auth.cur \in promised
    BY DEF SessionInvs, SessionInv, HopsetInv, TypeOK, FollowerInv, AuthorityInv
  <2>2. fol.cur \in States /\ fol.pend \in States /\ auth.cur \in States
    BY <2>1, AuthorityFields, FollowerFields
  <2>3. fol.prev_generation \in Nat BY <2>1 DEF FollowerType
  <2>4. flight.slot \in Int /\ flight.state \in States BY <2>1 DEF Markers
  <2>5. MaxTickLag \in Nat /\ StaleMarkerSlots \in Nat
    BY LinkAssumption, HopsetAssumption DEF LinkAssumption, HopsetAssumption
  <2> QED BY <2>1, <2>2, <2>3, <2>4, <2>5 DEF States
<1>1. flight # NoMarker /\ fol' = marker_effect(fol, flight)
  <2>1. CASE HearMarker BY <2>1 DEF HearMarker, on_marker
  <2>2. CASE FollowerPropose
    BY <1>0, <2>2 DEF FollowerPropose, propose, FollowerType
  <2>3. CASE HearCommit
    <3>1. PICK m \in air : m.type = "COMMIT" /\ on_commit(m) BY <2>3 DEF HearCommit
    <3>2. m.state \in States BY <1>0, <3>1, AirTypes DEF Commits
    <3> QED BY <1>0, <3>1, <3>2, CommitFacts DEF on_commit, Takes
  <2>4. CASE HearStatus
    <3>1. PICK m \in air : m.type = "STATUS" /\ on_status(m) BY <2>4 DEF HearStatus
    <3>2. m \in Statuses BY <1>0, <3>1, AirTypes
    <3>3. m.state.generation = 0 => m.state.mask = FullMask
      BY <1>0, <3>1 DEF HopsetInv, AirInv, PromisesInv
    <3> QED BY <1>0, <3>1, <3>2, <3>3, OnStatusFacts
  <2>5. CASE FollowerTick
    BY <1>0, <2>5, FolTickFacts DEF FollowerTick, Adopts
  <2>6. CASE FollowerRestart BY <2>6 DEF FollowerRestart, NewFollower
  <2>7. fol' # fol OBVIOUS
  <2> QED BY <2>1, <2>2, <2>3, <2>4, <2>5, <2>6, <2>7
      DEF Next, vars, HearProposal, VetoProposal, HearHeartbeat, NewSlot, AuthorityTick,
          StampMarker, AuthorityRestart, AuthorityResume, SlotPasses
<1>2. ~ Holds(fol, flight) /\ ~ InFlight(fol, flight)
  BY <1>1 DEF marker_effect
<1>3. TellsOfCurrent \/ TellsOfLast BY <1>1 DEF TripInv, FlightInv
<1>4. ASSUME flight.state.generation = fol.cur.generation, flight.state \in promised,
             flight.state.epoch = 1
      PROVE  flight.state.mask = fol.cur.mask
  <2>1. CASE fol.cur.epoch = 1
    BY <1>0, <1>4, <2>1 DEF HopsetInv, PromisesInv, Unique
  <2>2. CASE fol.cur.epoch = 0
    <3>1. fol.cur.generation = 0 BY <1>0, <2>2 DEF SessionInvs, SessionInv
    <3> QED BY <1>0, <1>4, <3>1 DEF HopsetInv, PromisesInv
  <2>3. fol.cur.epoch <= 1 BY <1>0 DEF HopsetInv, PromisesInv
  <2> QED BY <1>0, <2>1, <2>2, <2>3
<1>5. CASE TellsOfCurrent
  BY <1>2, <1>5 DEF TellsOfCurrent, Holds, SameSchedule
<1>6. CASE TellsOfLast
  <2>0. /\ flight.state \in promised /\ flight.state.epoch = 1
        /\ flight.state.generation + 1 = auth.cur.generation
        /\ flight.slot < auth.cur.activate_slot + MaxTickLag
    BY <1>0, <1>6 DEF TellsOfLast
  <2>1. ASSUME SameSchedule(fol.cur, auth.cur) PROVE FALSE
    <3>1. /\ fol.cur.generation = auth.cur.generation
          /\ fol.cur.activate_slot = auth.cur.activate_slot
      BY <2>1 DEF SameSchedule
    <3>2. fol.cur.generation # 0 BY <1>0, <2>0, <3>1
    <3>3. fol.have_prev /\ fol.activated_slot = auth.cur.activate_slot
      BY <3>1, <3>2 DEF TripInv, Graced
    <3>4. flight.state.generation = fol.prev_generation
      <4>1. fol.prev_generation + 1 = fol.cur.generation BY <3>2 DEF StepByStep
      <4> QED BY <1>0, <2>0, <3>1, <4>1
    <3>5. flight.slot < fol.activated_slot + StaleMarkerSlots
      BY <1>0, <2>0, <3>3
    <3> QED BY <1>2, <3>3, <3>4, <3>5 DEF InFlight
  <2>2. ASSUME fol.st = "Pending", fol.pend = auth.cur PROVE FALSE
    <3>1. flight.state.generation = fol.cur.generation
      <4>1. fol.cur.generation + 1 = fol.pend.generation BY <2>2 DEF StepByStep
      <4> QED BY <1>0, <2>0, <2>2, <4>1
    <3>2. flight.state.mask = fol.cur.mask BY <1>4, <2>0, <3>1
    <3> QED BY <1>2, <3>1, <3>2 DEF Holds
  <2> QED BY <2>1, <2>2
<1> QED BY <1>3, <1>5, <1>6

(***************************************************************************)
(* In one session of the transmitter the tripwire has no false alarms: a   *)
(* follower that runs or has armed the authority's state is not sent to    *)
(* Recovering by a marker that crossed the swap, as long as the grace      *)
(* covers the transmit loop's lag and the lead of a commit is longer than  *)
(* that lag and a marker's flight together.                                *)
(***************************************************************************)
THEOREM HopsetNoFalseAlarm ==
    ASSUME MaxBoots <= 1, MaxResumes = 0, MaxTickLag <= StaleMarkerSlots,
           MaxFlight + MaxTickLag <= LeadRounds * MinActive
    PROVE  Spec => NoFalseAlarm
<1>1. Init => SessionInvs BY InitInv, ClockInit, SessionInit DEF SessionInvs
<1>2. Init => TripInv
  <2>1. /\ NewAuthority(1).committing = FALSE /\ NewFollower(1).cur.generation = 0
        /\ MaxTickLag \in Nat
    BY LinkAssumption DEF LinkAssumption, NewAuthority, NewFollower, Legacy
  <2> HIDE DEF NewAuthority, NewFollower
  <2> QED BY <2>1 DEF Init, TripInv, LagInv, LeadInv, FlightInv, Graced
<1>3. SessionInvs /\ [Next]_vars => SessionInvs'
  <2>1. HopsetInv /\ [Next]_vars => HopsetInv' BY NextGood DEF Good
  <2> QED BY <2>1, ClockStep, SessionStep DEF SessionInvs
<1>4. SessionInvs /\ TripInv /\ [Next]_vars => TripInv' BY TripStep
<1>5. SessionInvs /\ TripInv /\ [Next]_vars =>
        [fol.st # "Recovering" /\ fol'.st = "Recovering" /\ StepByStep(fol)
           => /\ ~ SameSchedule(fol.cur, auth.cur)
              /\ ~ (fol.st = "Pending" /\ fol.pend = auth.cur)]_vars
  BY AlarmIsTrue
<1> QED BY <1>1, <1>2, <1>3, <1>4, <1>5, PTL DEF Spec, NoFalseAlarm

------------------------------------------------------------------------------
(***************************************************************************)
(* The replay ring.  As long as the receiver makes no more proposals than  *)
(* the ring is deep, the ring holds every exchange its boot has granted.   *)
(***************************************************************************)
Asked == [epoch : 1 .. MaxFollowerBoots, nonce : 1 .. MaxProposals]

NoRepeats(r) ==
    /\ \A i \in DOMAIN r : r[i] \in Asked
    /\ \A i, j \in DOMAIN r : r[i] = r[j] => i = j

ProposerInv(f) ==
    /\ f.epoch \in 1 .. MaxFollowerBoots /\ f.nonce \in 0 .. MaxProposals
    /\ f.st = "Proposing" => f.nonce >= 1

AskedInv == \A m \in air : m.type = "PROPOSAL" => m.exchange \in Asked

GrantsInv ==
    \A g \in grants :
        /\ g.epoch <= auth.epoch
        /\ g.epoch = auth.epoch => contains(auth.ring, g.exchange)

RingInv ==
    /\ NoRepeats(auth.ring) /\ ProposerInv(fol) /\ AskedInv /\ GrantsInv
    /\ OneCommitPerProposal

\* How many exchanges there can be.
LEMMA AskedCount ==
    /\ IsFiniteSet(Asked)
    /\ Cardinality(Asked) \in Nat
    /\ Cardinality(Asked) <= MaxFollowerBoots * MaxProposals
<1> DEFINE S == 1 .. MaxFollowerBoots
           T == 1 .. MaxProposals
           f == [p \in S \X T |-> [epoch |-> p[1], nonce |-> p[2]]]
<1>0. MaxFollowerBoots \in Nat /\ MaxProposals \in Nat
  BY LinkAssumption DEF LinkAssumption
<1>1. IsFiniteSet(S) /\ Cardinality(S) = MaxFollowerBoots BY <1>0, FS_Interval
<1>2. IsFiniteSet(T) /\ Cardinality(T) = MaxProposals BY <1>0, FS_Interval
<1>3. /\ IsFiniteSet(S \X T)
      /\ Cardinality(S \X T) = MaxFollowerBoots * MaxProposals
  <2> HIDE DEF S, T
  <2> QED BY <1>1, <1>2, FS_Product
<1>4. f \in Surjection(S \X T, Asked)
  <2>1. f \in [S \X T -> Asked] BY DEF Asked
  <2>2. ASSUME NEW x \in Asked PROVE \E p \in S \X T : f[p] = x
    <3>1. /\ <<x.epoch, x.nonce>> \in S \X T
          /\ x = [epoch |-> x.epoch, nonce |-> x.nonce]
      BY DEF Asked
    <3>2. f[<<x.epoch, x.nonce>>] = x BY <3>1
    <3> QED BY <3>1, <3>2
  <2> QED BY <2>1, <2>2 DEF Surjection
<1> HIDE DEF f, S, T
<1>5. IsFiniteSet(Asked) /\ Cardinality(Asked) <= Cardinality(S \X T)
  BY <1>3, <1>4, FS_Surjection
<1>6. Cardinality(Asked) \in Nat BY <1>5, FS_CardinalityType
<1> QED BY <1>3, <1>5, <1>6

\* An exchange that is not in the ring finds room there.
LEMMA RingHasRoom ==
    ASSUME MaxFollowerBoots * MaxProposals <= RingDepth,
           NEW r \in Seq(Exchanges), NoRepeats(r), NEW x \in Asked, ~ contains(r, x)
    PROVE  /\ remember(r, x) = Append(r, x)
           /\ NoRepeats(remember(r, x)) /\ contains(remember(r, x), x)
           /\ \A y : contains(r, y) => contains(remember(r, x), y)
<1>0. Len(r) \in Nat /\ DOMAIN r = 1 .. Len(r) OBVIOUS
<1>1. Len(r) < RingDepth
  <2> SUFFICES ASSUME ~ (Len(r) < RingDepth) PROVE FALSE OBVIOUS
  <2> DEFINE S == 1 .. Len(r)
             T == Asked \ {x}
  <2>1. IsFiniteSet(S) /\ Cardinality(S) = Len(r) BY <1>0, FS_Interval
  <2>2. IsFiniteSet(T) /\ Cardinality(T) = Cardinality(Asked) - 1
    BY AskedCount, FS_RemoveElement
  <2>3. Cardinality(T) < Cardinality(S)
    <3>1. RingDepth \in Nat /\ MaxFollowerBoots * MaxProposals \in Nat
      BY LinkAssumption, HopsetAssumption DEF LinkAssumption, HopsetAssumption
    <3> HIDE DEF S, T
    <3> QED BY <1>0, <2>1, <2>2, <3>1, AskedCount
  <2>4. r \in [S -> T]
    <3>1. \A i \in S : r[i] \in T BY <1>0 DEF NoRepeats, contains
    <3> QED BY <1>0, <3>1
  <2>5. \E i, j \in S : i # j /\ r[i] = r[j]
    <3> HIDE DEF S, T
    <3> QED BY <2>1, <2>2, <2>3, <2>4, FS_PigeonHole
  <2> QED BY <1>0, <2>5 DEF NoRepeats
<1>2. remember(r, x) = Append(r, x) BY <1>1 DEF remember
<1> DEFINE q == Append(r, x)
<1>3. x \in Exchanges
  <2>1. 1 .. MaxFollowerBoots \subseteq Nat /\ 1 .. MaxProposals \subseteq Nat
    BY LinkAssumption DEF LinkAssumption
  <2> QED BY <2>1 DEF Asked, Exchanges
<1>4. /\ DOMAIN q = 1 .. Len(r) + 1 /\ q[Len(r) + 1] = x
      /\ \A i \in 1 .. Len(r) : q[i] = r[i]
  BY <1>0, <1>3
<1> HIDE DEF q
<1>5. \A i \in 1 .. Len(r) + 1 : i \in 1 .. Len(r) \/ i = Len(r) + 1 BY <1>0
<1>6. \A i \in 1 .. Len(r) : r[i] # x BY <1>0 DEF contains
<1>7. NoRepeats(q)
  <2>1. \A i \in DOMAIN q : q[i] \in Asked BY <1>0, <1>4, <1>5 DEF NoRepeats
  <2>2. ASSUME NEW i \in DOMAIN q, NEW j \in DOMAIN q, q[i] = q[j] PROVE i = j
    <3>1. CASE i \in 1 .. Len(r) /\ j \in 1 .. Len(r)
      BY <1>0, <1>4, <2>2, <3>1 DEF NoRepeats
    <3>2. CASE i = Len(r) + 1 \/ j = Len(r) + 1
      BY <1>4, <1>5, <1>6, <2>2, <3>2
    <3> QED BY <1>4, <1>5, <3>1, <3>2
  <2> QED BY <2>1, <2>2 DEF NoRepeats
<1>8. contains(q, x)
  <2>1. Len(r) + 1 \in DOMAIN q BY <1>0, <1>4
  <2> QED BY <1>4, <2>1 DEF contains
<1>9. ASSUME NEW y, contains(r, y) PROVE contains(q, y)
  <2>1. PICK i \in 1 .. Len(r) : r[i] = y BY <1>0, <1>9 DEF contains
  <2>2. i \in DOMAIN q BY <1>0, <1>4
  <2> QED BY <1>4, <2>1, <2>2 DEF contains
<1> QED BY <1>2, <1>7, <1>8, <1>9 DEF q

\* Nothing but an accepted proposal touches the ring.
LEMMA RingUntouched ==
    ASSUME NEW a \in AuthorityType, NEW now \in Int
    PROVE  /\ note_feedback(a, now).ring = a.ring
           /\ push_commit(a, now).ring = a.ring
           /\ AfterTick(a, now).ring = a.ring
           /\ \A m \in LegalMasks, x \in Exchanges :
                start_commit(a, m, x, now).ring = a.ring
<1>1. note_feedback(a, now).ring = a.ring BY DEF note_feedback, AuthorityType
<1>2. \A b \in AuthorityType : /\ push_commit(b, now).ring = b.ring
                               /\ [b EXCEPT !.last_status = now].ring = b.ring
  BY DEF push_commit, AuthorityType
<1>3. \A m, x : start_commit(a, m, x, now).ring = a.ring
  BY DEF start_commit, push_commit, AuthorityType
<1>4. AfterTick(a, now).ring = a.ring
  <2> DEFINE b == Activate(a, now)
             c == IF repeats(a, now) THEN push_commit(b, now) ELSE b
             d == IF beacons(a, now) THEN [c EXCEPT !.last_status = now] ELSE c
  <2>1. b \in AuthorityType /\ b.ring = a.ring
    BY ActivateFacts DEF Activate, AuthorityType
  <2> HIDE DEF b
  <2>2. c \in AuthorityType /\ c.ring = a.ring BY <1>2, <2>1, StampFacts
  <2> HIDE DEF c
  <2>3. d.ring = a.ring BY <1>2, <2>2
  <2>4. AfterTick(a, now) = d BY DEF AfterTick, b, c
  <2> QED BY <2>3, <2>4
<1> QED BY <1>1, <1>2, <1>3, <1>4

\* What the receiver's handlers do to the proposer's epoch and nonce.
LEMMA ProposerStep ==
    ASSUME TypeOK, ProposerInv(fol), AskedInv,
           \/ FollowerPropose \/ HearCommit \/ HearStatus \/ HearMarker
           \/ FollowerTick \/ FollowerRestart
    PROVE  ProposerInv(fol') /\ AskedInv'
<1>0. /\ fol \in FollowerType /\ fol.epoch \in Nat /\ fol.nonce \in Nat
      /\ MaxFollowerBoots \in Nat /\ MaxProposals \in Nat
  BY FollowerFields, LinkAssumption DEF TypeOK, LinkAssumption
<1>k. ASSUME fol'.epoch = fol.epoch, fol'.nonce = fol.nonce,
             fol'.st = "Proposing" => fol.st = "Proposing"
      PROVE  ProposerInv(fol')
  BY <1>k DEF ProposerInv
<1>1. CASE FollowerPropose
  <2>1. PICK mask \in ProposedMasks : propose(mask, fol.nonce + 1)
    BY <1>1 DEF FollowerPropose
  <2>2. fol'.epoch = fol.epoch /\ fol'.nonce = fol.nonce + 1
    BY <1>0, <2>1 DEF propose, FollowerType
  <2>3. fol.nonce < MaxProposals BY <1>1 DEF FollowerPropose
  <2>4. fol'.nonce \in 1 .. MaxProposals BY <1>0, <2>2, <2>3
  <2>5. ProposerInv(fol') BY <1>0, <2>2, <2>4 DEF ProposerInv
  <2>6. Outstanding(fol') \in Asked
    BY <2>2, <2>4 DEF Outstanding, Asked, ProposerInv
  <2>7. Proposal(Outstanding(fol'), mask).exchange \in Asked BY <2>6 DEF Proposal
  <2> QED BY <2>1, <2>5, <2>7 DEF propose, AskedInv
<1>2. CASE HearCommit
  <2>1. PICK m \in air : m.type = "COMMIT" /\ on_commit(m) BY <1>2 DEF HearCommit
  <2>2. fol' = AfterCommit(fol, m.state, fslot) /\ UNCHANGED air BY <2>1 DEF on_commit
  <2>3. fol'.epoch = fol.epoch /\ fol'.nonce = fol.nonce /\ fol'.st # "Proposing"
    BY <1>0, <2>2 DEF AfterCommit, FolActivate, adopt_epoch, FollowerType
  <2> QED BY <1>k, <2>2, <2>3 DEF AskedInv
<1>3. CASE HearStatus
  <2>1. PICK m \in air : m.type = "STATUS" /\ on_status(m) BY <1>3 DEF HearStatus
  <2>2. /\ \/ fol' = [fol EXCEPT !.st = "Synced"]
           \/ fol' = FolActivate(adopt_epoch(fol, m.state.epoch), StatusState(m))
        /\ UNCHANGED air
    BY <2>1 DEF on_status
  <2>3. fol'.epoch = fol.epoch /\ fol'.nonce = fol.nonce /\ fol'.st # "Proposing"
    BY <1>0, <2>2 DEF FolActivate, adopt_epoch, FollowerType
  <2> QED BY <1>k, <2>2, <2>3 DEF AskedInv
<1>4. CASE HearMarker
  <2>1. fol' = marker_effect(fol, flight) /\ UNCHANGED air
    BY <1>4 DEF HearMarker, on_marker
  <2>2. fol' \in {fol, [fol EXCEPT !.mismatch_gen = flight.state.generation,
                                   !.st = "Recovering"]}
    BY <2>1 DEF marker_effect
  <2>3. /\ fol'.epoch = fol.epoch /\ fol'.nonce = fol.nonce
        /\ fol'.st = "Proposing" => fol.st = "Proposing"
    BY <1>0, <2>2 DEF FollowerType
  <2> QED BY <1>k, <2>1, <2>3 DEF AskedInv
<1>5. CASE FollowerTick
  <2> DEFINE f == AfterRetry(fol, fslot)
             g == AfterBeat(f, fslot)
  <2>1. f.epoch = fol.epoch /\ f.nonce = fol.nonce /\ f.st = fol.st
        /\ g.epoch = fol.epoch /\ g.nonce = fol.nonce /\ g.st = fol.st
    BY <1>0 DEF AfterRetry, AfterBeat, FollowerType
  <2>2. \/ fol' = FolActivate(fol, fol.pend) /\ UNCHANGED air
        \/ fol' = [fol EXCEPT !.st = "Synced"] /\ UNCHANGED air
        \/ /\ fol' = g
           /\ air' = air
                \cup (IF FolRetry(fol, fslot)
                      THEN {Proposal(Outstanding(fol), fol.mask)} ELSE {})
                \cup (IF FolBeats(f, fslot)
                      THEN {[type |-> "HEARTBEAT", epoch |-> fol.epoch]} ELSE {})
    BY <1>5 DEF FollowerTick, fol_tick
  <2> HIDE DEF g
  <2>3. /\ fol'.epoch = fol.epoch /\ fol'.nonce = fol.nonce
        /\ fol'.st = "Proposing" => fol.st = "Proposing"
    BY <1>0, <2>1, <2>2 DEF FolActivate, FollowerType
  <2>4. ProposerInv(fol') BY <1>k, <2>3
  <2>5. ASSUME NEW m \in air', m.type = "PROPOSAL" PROVE m.exchange \in Asked
    <3>1. CASE m \in air BY <2>5, <3>1 DEF AskedInv
    <3>2. CASE FolRetry(fol, fslot) /\ m = Proposal(Outstanding(fol), fol.mask)
      <4>1. fol.nonce \in 1 .. MaxProposals /\ fol.epoch \in 1 .. MaxFollowerBoots
        BY <1>0, <3>2 DEF FolRetry, ProposerInv
      <4> QED BY <3>2, <4>1 DEF Proposal, Outstanding, Asked
    <3>3. [type |-> "HEARTBEAT", epoch |-> fol.epoch].type # "PROPOSAL" OBVIOUS
    <3> HIDE DEF f
    <3> QED BY <2>2, <2>5, <3>1, <3>2, <3>3
  <2> QED BY <2>4, <2>5 DEF AskedInv
<1>6. CASE FollowerRestart
  <2>1. /\ fol' = NewFollower(fol.epoch + 1) /\ fol.epoch < MaxFollowerBoots
        /\ UNCHANGED air
    BY <1>6 DEF FollowerRestart
  <2>2. fol'.epoch = fol.epoch + 1 /\ fol'.nonce = 0 /\ fol'.st = "Synced"
    BY <2>1 DEF NewFollower
  <2>3. ProposerInv(fol') BY <1>0, <2>1, <2>2 DEF ProposerInv
  <2> QED BY <2>1, <2>3 DEF AskedInv
<1> QED BY <1>1, <1>2, <1>3, <1>4, <1>5, <1>6

\* Every step keeps the ring's account of what was granted.
LEMMA RingStep ==
    ASSUME MaxFollowerBoots * MaxProposals <= RingDepth,
           TypeOK, RingInv, [Next]_vars
    PROVE  RingInv'
<1> USE DEF authVars, folVars, world, history
<1>0. /\ auth \in AuthorityType /\ tick_slot \in Int /\ auth.epoch \in Nat
      /\ auth.ring \in Seq(Exchanges) /\ grants \subseteq Grants
      /\ \A g \in grants : g.epoch \in Nat
  BY AuthorityFields DEF TypeOK, Grants
<1>c. /\ NoRepeats(auth.ring) /\ ProposerInv(fol) /\ AskedInv /\ GrantsInv
      /\ OneCommitPerProposal
  BY DEF RingInv
<1>k. ASSUME auth'.ring = auth.ring, auth'.epoch = auth.epoch, UNCHANGED grants,
             ProposerInv(fol'), AskedInv'
      PROVE  RingInv'
  BY <1>k, <1>c DEF RingInv, GrantsInv, OneCommitPerProposal
<1>r. ASSUME auth'.ring = <<>>, auth'.epoch = auth.epoch + 1, UNCHANGED <<grants, fol>>,
             air' \subseteq air
      PROVE  RingInv'
  <2>1. DOMAIN <<>> = {} OBVIOUS
  <2>2. NoRepeats(<<>>) BY <2>1 DEF NoRepeats
  <2>3. GrantsInv'
    <3>1. \A g \in grants : g.epoch <= auth.epoch BY <1>c DEF GrantsInv
    <3>2. \A g \in grants : g.epoch <= auth.epoch + 1 /\ g.epoch # auth.epoch + 1
      BY <1>0, <3>1
    <3> QED BY <1>r, <3>2 DEF GrantsInv
  <2>4. AskedInv' BY <1>r, <1>c DEF AskedInv
  <2> QED BY <1>r, <1>c, <2>2, <2>3, <2>4 DEF RingInv, OneCommitPerProposal
<1>s. ASSUME NEW ms \in SUBSET (Commits \cup Statuses), air' = air \cup ms
      PROVE  AskedInv'
  BY <1>s, <1>c DEF AskedInv, Commits, Statuses
<1>1. CASE HearProposal
  <2>1. PICK m \in air :
          /\ m.type = "PROPOSAL" /\ on_proposal(m)
          /\ grants' = IF ~ auth.committing /\ auth'.committing
                       THEN grants \cup {[epoch |-> auth.epoch, exchange |-> m.exchange,
                                          generation |-> auth'.pend.generation]}
                       ELSE grants
    BY <1>1 DEF HearProposal
  <2>2. m \in Proposals /\ m.exchange \in Exchanges /\ m.mask \in AllMasks
    BY <2>1, AirTypes DEF Proposals
  <2>3. m.exchange \in Asked BY <1>c, <2>1 DEF AskedInv
  <2>4. UNCHANGED fol BY <1>1 DEF HearProposal
  <2>5. PICK ms : air' = air \cup ms /\ Says(auth', ms)
    BY <1>0, <2>1, <2>2, ProposalFacts
  <2>6. AskedInv' BY <1>s, <2>5 DEF Says
  <2>7. ProposerInv(fol') BY <1>c, <2>4
  <2> DEFINE a == note_feedback(auth, tick_slot)
  <2>8. a \in AuthorityType /\ Keeps(auth, a) /\ a.ring = auth.ring
    BY <1>0, StampFacts, RingUntouched
  <2>9. \/ auth' = push_commit(a, tick_slot) \/ auth' = a
        \/ /\ proposal_reason(a, m, tick_slot) = "None"
           /\ auth' = Accepts(a, m, tick_slot)
    BY <2>1 DEF on_proposal
  <2> HIDE DEF a
  <2>10. CASE auth' = push_commit(a, tick_slot) \/ auth' = a
    <3>1. Keeps(a, auth') /\ auth'.ring = auth.ring
      <4>1. CASE auth' = a BY <2>8, <4>1 DEF Keeps
      <4>2. CASE auth' = push_commit(a, tick_slot)
        BY <1>0, <2>8, <4>2, StampFacts, RingUntouched
      <4> QED BY <2>10, <4>1, <4>2
    <3>2. auth'.committing = auth.committing /\ auth'.epoch = auth.epoch
      BY <2>8, <3>1 DEF Keeps
    <3>3. UNCHANGED grants BY <2>1, <3>2
    <3> QED BY <1>k, <2>6, <2>7, <3>1, <3>2, <3>3
  <2>11. CASE /\ proposal_reason(a, m, tick_slot) = "None"
              /\ auth' = Accepts(a, m, tick_slot)
    <3> DEFINE r == remember(a.ring, m.exchange)
               b == [a EXCEPT !.ring = r]
               g == [epoch |-> auth.epoch, exchange |-> m.exchange,
                     generation |-> auth'.pend.generation]
    <3>1. ~ contains(auth.ring, m.exchange)
      <4>1. "ReplayGen" # "None" OBVIOUS
      <4> QED BY <2>8, <2>11, <4>1 DEF proposal_reason
    <3>2. change_reason(a, m.mask, tick_slot) = "None"
      BY <2>8, <2>11, <3>1 DEF proposal_reason
    <3>3. m.mask \in LegalMasks BY <1>0, <2>2, <2>8, <3>2, ReasonFacts
    <3>4. b \in AuthorityType /\ b.ring = r /\ b.epoch = a.epoch
      <4>1. r \in Seq(Exchanges) BY <1>0, <2>2, <2>8, RememberType
      <4> HIDE DEF r
      <4> QED BY <2>8, <4>1 DEF AuthorityType
    <3>5. auth' = start_commit(b, m.mask, m.exchange, tick_slot)
      BY <2>11 DEF Accepts
    <3> HIDE DEF b
    <3>6. auth'.ring = r /\ auth'.epoch = auth.epoch
      BY <1>0, <2>2, <2>8, <3>3, <3>4, <3>5, RingUntouched, StartCommitFacts DEF Keeps
    <3>7. /\ NoRepeats(r) /\ contains(r, m.exchange)
          /\ \A y : contains(auth.ring, y) => contains(r, y)
      BY <1>0, <1>c, <2>3, <2>8, <3>1, RingHasRoom
    <3> HIDE DEF r, g
    <3>8. grants' \subseteq grants \cup {g} BY <2>1 DEF g
    <3>9. g.epoch = auth.epoch /\ g.exchange = m.exchange BY DEF g
    <3>10. \A h \in grants : ~ (h.epoch = g.epoch /\ h.exchange = g.exchange)
      BY <1>c, <3>1, <3>9 DEF GrantsInv
    <3>11. OneCommitPerProposal'
      BY <1>c, <3>8, <3>10 DEF OneCommitPerProposal
    <3>12. GrantsInv' BY <1>0, <1>c, <3>6, <3>7, <3>8, <3>9 DEF GrantsInv
    <3> QED BY <2>6, <2>7, <3>6, <3>7, <3>11, <3>12 DEF RingInv
  <2> QED BY <2>9, <2>10, <2>11
<1>2. CASE VetoProposal
  <2>1. PICK m \in air : m.type = "PROPOSAL" /\ reject_proposal(m)
    BY <1>2 DEF VetoProposal
  <2>2. m.exchange.nonce \in Nat BY <2>1, AirTypes DEF Proposals, Exchanges
  <2>3. "TxVeto" \in Reasons BY DEF Reasons
  <2>4. Says(auth, {status_msg(auth, "TxVeto", m.exchange.nonce)})
    BY <1>0, <2>2, <2>3, FrameFacts
  <2>5. air' = air \cup {status_msg(auth, "TxVeto", m.exchange.nonce)}
    BY <2>1 DEF reject_proposal
  <2>6. AskedInv' BY <1>s, <2>4, <2>5 DEF Says
  <2>7. UNCHANGED <<auth, fol, grants>> BY <1>2, <2>1 DEF VetoProposal, reject_proposal
  <2> QED BY <1>c, <1>k, <2>6, <2>7
<1>3. CASE HearHeartbeat
  <2>1. auth'.ring = auth.ring /\ auth'.epoch = auth.epoch
    BY <1>0, <1>3, StampFacts, RingUntouched DEF HearHeartbeat, on_heartbeat, Keeps
  <2>2. UNCHANGED <<fol, grants, air>> BY <1>3 DEF HearHeartbeat, on_heartbeat
  <2>3. AskedInv' BY <1>c, <2>2 DEF AskedInv
  <2> QED BY <1>c, <1>k, <2>1, <2>2, <2>3
<1>4. CASE AuthorityTick
  <2>1. OperatorMasks \in SUBSET Masks /\ LocalMasks \in SUBSET Masks
    BY LinkAssumption DEF LinkAssumption
  <2>2. TransmitPass(OperatorMasks, LocalMasks) /\ UNCHANGED <<fol, grants>>
    BY <1>4 DEF AuthorityTick
  <2>3. PICK ms : air' = air \cup ms /\ Says(auth', ms)
    BY <1>0, <2>1, <2>2, TransmitFacts
  <2>4. AskedInv' BY <1>s, <2>3 DEF Says
  <2>5. auth'.epoch = auth.epoch
    <3>1. AuthorityMoves(auth, auth') BY <1>0, <2>1, <2>2, TransmitFacts
    <3> QED BY <3>1 DEF AuthorityMoves, Keeps, Starts, Swaps, SwapsAndStarts
  <2>6. auth'.ring = auth.ring
    <3>0. ASSUME NEW a \in AuthorityType, NEW masks \in SUBSET Masks,
                 NEW b \in start_change(a, masks, tick_slot)
                             \cup start_local_change(a, masks, tick_slot)
          PROVE  b.ring = a.ring /\ b \in AuthorityType
      <4>1. \A m \in masks : m \in AllMasks BY DEF AllMasks
      <4>2. PICK m \in masks : /\ b = start_commit(a, m, NoExchange, tick_slot)
                               /\ mask_reason(a, m) = "None"
        BY <1>0, <4>1, ReasonFacts DEF start_change, start_local_change
      <4>3. m \in LegalMasks BY <1>0, <4>1, <4>2, ReasonFacts
      <4>4. NoExchange \in Exchanges BY DEF NoExchange, Exchanges
      <4> QED BY <1>0, <4>2, <4>3, <4>4, RingUntouched, StartCommitFacts
    <3>1. PICK a \in {auth} \cup start_change(auth, OperatorMasks, tick_slot) :
            auth' \in {AfterTick(a, tick_slot)}
                        \cup start_local_change(AfterTick(a, tick_slot), LocalMasks, tick_slot)
      BY <2>2 DEF TransmitPass
    <3>2. a \in AuthorityType /\ a.ring = auth.ring BY <1>0, <2>1, <3>0, <3>1
    <3>3. /\ AfterTick(a, tick_slot) \in AuthorityType
          /\ AfterTick(a, tick_slot).ring = auth.ring
      BY <1>0, <3>2, TickFacts, RingUntouched
    <3> QED BY <2>1, <3>0, <3>1, <3>3
  <2> QED BY <1>c, <1>k, <2>2, <2>4, <2>5, <2>6
<1>5. CASE AuthorityRestart
  <2>1. /\ auth' = NewAuthority(auth.epoch + 1) /\ UNCHANGED <<grants, fol>>
        /\ air' \subseteq air
    BY <1>5 DEF AuthorityRestart, OldFrames
  <2> QED BY <1>r, <2>1 DEF NewAuthority
<1>6. CASE AuthorityResume
  <2>1. /\ auth' = restore(auth.epoch + 1, auth.cur) /\ UNCHANGED <<grants, fol>>
        /\ air' \subseteq air
    BY <1>6 DEF AuthorityResume, OldFrames
  <2> QED BY <1>r, <2>1 DEF restore, NewAuthority
<1>7. CASE \/ FollowerPropose \/ HearCommit \/ HearStatus \/ HearMarker
           \/ FollowerTick \/ FollowerRestart
  <2>1. ProposerInv(fol') /\ AskedInv' BY <1>c, <1>7, ProposerStep
  <2>2. UNCHANGED <<auth, grants>>
    BY <1>7 DEF FollowerPropose, HearCommit, HearStatus, HearMarker, FollowerTick,
                FollowerRestart
  <2> QED BY <1>k, <2>1, <2>2
<1>8. CASE NewSlot \/ StampMarker \/ SlotPasses \/ UNCHANGED vars
  <2>1. UNCHANGED <<auth, grants, fol, air>>
    BY <1>8 DEF NewSlot, StoreSlot, StampMarker, SlotPasses, vars
  <2>2. AskedInv' BY <1>c, <2>1 DEF AskedInv
  <2> QED BY <1>c, <1>k, <2>1, <2>2
<1> QED BY <1>1, <1>2, <1>3, <1>4, <1>5, <1>6, <1>7, <1>8 DEF Next

(***************************************************************************)
(* One accepted proposal starts one change: if the receiver's boots        *)
(* together make no more proposals than ProposalReplayRing holds, no       *)
(* repetition or replay of a proposal starts a second change in the same   *)
(* boot of the transmitter.                                                *)
(***************************************************************************)
THEOREM HopsetOneCommit ==
    ASSUME MaxFollowerBoots # 0, MaxFollowerBoots * MaxProposals <= RingDepth
    PROVE  Spec => []OneCommitPerProposal
<1>1. Init => RingInv
  <2> SUFFICES ASSUME Init PROVE RingInv OBVIOUS
  <2>1. /\ auth.ring = <<>> /\ grants = {} /\ air = {}
        /\ fol.epoch = 1 /\ fol.nonce = 0 /\ fol.st = "Synced"
    BY DEF Init, NewAuthority, NewFollower
  <2>2. DOMAIN <<>> = {} OBVIOUS
  <2>3. NoRepeats(auth.ring) BY <2>1, <2>2 DEF NoRepeats
  <2>4. ProposerInv(fol) BY <2>1, LinkAssumption DEF LinkAssumption, ProposerInv
  <2> QED BY <2>1, <2>3, <2>4 DEF RingInv, AskedInv, GrantsInv, OneCommitPerProposal
<1>2. TypeOK /\ [Next]_vars => TypeOK' BY NextType
<1>3. TypeOK /\ RingInv /\ [Next]_vars => RingInv' BY RingStep
<1>4. RingInv => OneCommitPerProposal BY DEF RingInv
<1> QED BY InitType, <1>1, <1>2, <1>3, <1>4, PTL DEF Spec
==============================================================================
