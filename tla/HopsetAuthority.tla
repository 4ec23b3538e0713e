--------------------------- MODULE HopsetAuthority ---------------------------
(***************************************************************************)
(* The transmitter: class HopsetAuthority and the two threads of txdemo    *)
(* that drive it.  The transmit loop stores the slot it is in              *)
(* (tick_slot), then takes the lock for one pass: the scripted change, the *)
(* tick, its own decision.  The receive thread takes the same lock for     *)
(* each proposal and reads tick_slot, so a proposal may be judged in a     *)
(* slot that has not been ticked yet.                                      *)
(***************************************************************************)
EXTENDS HopsetTypes, Sequences

VARIABLES
    auth,       \* the members of HopsetAuthority
    tick_slot,  \* g_hopset_tick_slot
    due         \* the loop has stored tick_slot and not yet taken the lock

authVars == <<auth, tick_slot, due>>

AuthorityType ==
    [epoch : Nat, cur : States, pend : States, committing : BOOLEAN,
     echo : Exchanges, last_commit : Int, last_status : Int,
     last_activation_round : Int, have_activation : BOOLEAN,
     last_feedback_round : Int, have_feedback : BOOLEAN,
     ring : Seq(Exchanges)]

NewAuthority(epoch) ==
    [epoch |-> epoch, cur |-> Legacy(epoch), pend |-> Legacy(epoch),
     committing |-> FALSE, echo |-> NoExchange,
     last_commit |-> 0, last_status |-> 0,
     last_activation_round |-> 0, have_activation |-> FALSE,
     last_feedback_round |-> 0, have_feedback |-> FALSE, ring |-> <<>>]

------------------------------------------------------------------------------
(* Validation. *)

Excluded(mask) == Base \ mask

\* Mutant: a mask is held against the base only.
mask_reason_NoFloor(a, mask) ==
    IF a.cur.generation + 1 >= GenCeiling THEN "GenCeiling"
    ELSE IF ~ mask \subseteq Base THEN "BadMask"
    ELSE IF mask = a.cur.mask /\ a.cur.generation # 0 THEN "NoChange"
    ELSE "None"

mask_reason(a, mask) ==
    IF a.cur.generation + 1 >= GenCeiling THEN "GenCeiling"
    ELSE IF ~ mask \subseteq Base THEN "BadMask"
    ELSE IF \/ Cardinality(mask) < MinActive
            \/ /\ MaxExcludedPct < 100
               /\ Cardinality(Excluded(mask)) * 100 > MaxExcludedPct * Cardinality(Base)
    THEN "LowDiversity"
    ELSE IF mask = a.cur.mask /\ a.cur.generation # 0 THEN "NoChange"
    ELSE "None"

\* The structural limits, which the operator's lever alone is exempt from.
limit_reason(a, mask, now) ==
    IF MaxMaskDelta # 0 /\ Cardinality(Differ(mask, a.cur.mask)) > MaxMaskDelta
    THEN "MaskDelta"
    ELSE IF /\ MinUpdateGap # 0 /\ a.have_activation
            /\ round_of(a.cur, now) - a.last_activation_round < MinUpdateGap
    THEN "Cooldown"
    ELSE "None"

\* Mutant: a commit already in flight is replaced under the same number.
change_reason_NotBusy(a, mask, now) ==
    IF mask_reason(a, mask) # "None" THEN mask_reason(a, mask)
    ELSE limit_reason(a, mask, now)

change_reason(a, mask, now) ==
    IF a.committing THEN "Busy"
    ELSE IF mask_reason(a, mask) # "None" THEN mask_reason(a, mask)
    ELSE limit_reason(a, mask, now)

\* ProposalReplayRing: the last RingDepth exchanges that were accepted.
contains(ring, x) == \E i \in DOMAIN ring : ring[i] = x

\* Mutant: a ring that forgets what it was just told.
remember_Nothing(ring, x) == ring

remember(ring, x) ==
    IF Len(ring) < RingDepth THEN Append(ring, x) ELSE Append(Tail(ring), x)

proposal_reason(a, m, now) ==
    IF contains(a.ring, m.exchange) THEN "ReplayGen"
    ELSE change_reason(a, m.mask, now)

------------------------------------------------------------------------------
(* Commit and status frames. *)

push_commit(a, now) == [a EXCEPT !.last_commit = now]

status_msg(a, why, nonce) == Status(a.cur, why, nonce)

\* start_commit: the new state takes effect at the beginning of a round of
\* the current numbering, LeadRounds ahead.
start_commit(a, mask, echo, now) ==
    push_commit([a EXCEPT
        !.pend = [epoch |-> a.epoch, generation |-> a.cur.generation + 1,
                  mask |-> mask,
                  activate_slot |->
                     a.cur.activate_slot
                       + (round_of(a.cur, now) + LeadRounds) * RoundLength(a.cur)],
        !.committing = TRUE, !.echo = echo], now)

note_feedback(a, now) ==
    [a EXCEPT !.last_feedback_round = round_of(a.cur, now), !.have_feedback = TRUE]

\* kNoFeedbackAge, the largest number of 64 bits in the code: no age is equal.
NoFeedbackAge == -1

feedback_age_rounds(a, now) ==
    IF ~ a.have_feedback THEN NoFeedbackAge
    ELSE IF round_of(a.cur, now) > a.last_feedback_round
    THEN round_of(a.cur, now) - a.last_feedback_round
    ELSE 0

------------------------------------------------------------------------------
(* The operations. *)

\* The exchange that is being committed is asked for again: answer it again.
reanswers(a, m) ==
    contains(a.ring, m.exchange) /\ a.committing /\ m.exchange = a.echo

Accepts(a, m, now) ==
    LET b == [a EXCEPT !.ring = remember(@, m.exchange)]
    IN  start_commit(b, m.mask, m.exchange, now)

on_proposal(m) ==
    LET a == note_feedback(auth, tick_slot)
        why == proposal_reason(a, m, tick_slot)
    IN  \/ /\ reanswers(a, m)
           /\ auth' = push_commit(a, tick_slot)
           /\ air' = air \cup {Commit(a.pend, a.echo)}
        \/ /\ ~ reanswers(a, m) /\ why # "None"
           /\ auth' = a
           /\ air' = air \cup {status_msg(a, why, m.exchange.nonce)}
        \/ /\ why = "None"
           /\ auth' = Accepts(a, m, tick_slot)
           /\ air' = air \cup {Commit(auth'.pend, m.exchange)}

\* The fusion layer objects: txdemo answers without asking the authority.
reject_proposal(m) ==
    /\ air' = air \cup {status_msg(auth, "TxVeto", m.exchange.nonce)}
    /\ UNCHANGED auth

\* The follower's own status: nothing but proof that it is there.
on_heartbeat ==
    /\ auth' = note_feedback(auth, tick_slot)
    /\ UNCHANGED air

\* start_change: the operator's scripted change, if it is not refused.
start_change(a, masks, now) ==
    {start_commit(a, m, NoExchange, now) :
       m \in {n \in masks : ~ a.committing /\ mask_reason(a, n) = "None"}}

\* start_local_change: one from the transmitter's own sensing.
start_local_change(a, masks, now) ==
    {start_commit(a, m, NoExchange, now) :
       m \in {n \in masks : change_reason(a, n, now) = "None"}}

\* The commit a change that was started puts on the air.
StartSends(a, b) ==
    IF ~ a.committing /\ b.committing THEN {Commit(b.pend, NoExchange)} ELSE {}

activates(a, now) == a.committing /\ now >= a.pend.activate_slot

\* Mutant: the activation round is counted in the numbering that ends.
Activate_OldRound(a, now) ==
    IF activates(a, now)
    THEN [a EXCEPT !.cur = a.pend, !.committing = FALSE,
                   !.last_activation_round = 0 - round_of(a.cur, now),
                   !.have_activation = TRUE]
    ELSE a

\* The swap, after which rounds are counted from the activation slot.
Activate(a, now) ==
    IF activates(a, now)
    THEN LET b == [a EXCEPT !.cur = a.pend, !.committing = FALSE]
         IN  [b EXCEPT !.last_activation_round = round_of(b.cur, now),
                       !.have_activation = TRUE]
    ELSE a

repeats(a, now) ==
    a.committing /\ ~ activates(a, now) /\ now - a.last_commit >= CommitRepeat

beacons(a, now) == now - a.last_status >= StatusInterval + (now % Jitter)

\* on_tick: the swap or the repeated commit, then the status beacon.
AfterTick(a, now) ==
    LET b == Activate(a, now)
        c == IF repeats(a, now) THEN push_commit(b, now) ELSE b
    IN  IF beacons(a, now) THEN [c EXCEPT !.last_status = now] ELSE c

TickSends(a, now) ==
    (IF repeats(a, now) THEN {Commit(a.pend, a.echo)} ELSE {})
      \cup (IF beacons(a, now) THEN {status_msg(Activate(a, now), "None", 0)} ELSE {})

\* The transmit loop meets a new slot.
StoreSlot(s) ==
    /\ ~ due /\ s # tick_slot
    /\ tick_slot' = s /\ due' = TRUE
    /\ UNCHANGED <<auth, air>>

\* One pass of the loop under the lock.
TransmitPass(scripted, sensed) ==
    /\ due /\ due' = FALSE
    /\ \E a \in {auth} \cup start_change(auth, scripted, tick_slot) :
        LET b == AfterTick(a, tick_slot) IN
        \E c \in {b} \cup start_local_change(b, sensed, tick_slot) :
            /\ auth' = c
            /\ air' = air \cup StartSends(auth, a) \cup TickSends(a, tick_slot)
                          \cup StartSends(b, c)
    /\ UNCHANGED tick_slot
==============================================================================
