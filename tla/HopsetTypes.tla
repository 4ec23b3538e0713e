---------------------------- MODULE HopsetTypes ------------------------------
(***************************************************************************)
(* What the two adaptive-hopset machines share: the committed state, the   *)
(* three authenticated messages and the parameters.                        *)
(*                                                                         *)
(* A mask is the set of base-hopset positions whose bits are set.  Epochs  *)
(* are drawn at random per process start; here they are numbered in the    *)
(* order of the starts and never collide.  Messages that fail the MAC, the *)
(* link id or the base fingerprint never reach the machines.               *)
(***************************************************************************)
EXTENDS Integers, FiniteSets

CONSTANTS
    Base,               \* positions of the immutable base hopset
    Masks,              \* masks that are asked for, legal or not
    MinActive,          \* min_active
    MaxExcludedPct,     \* max_excluded_frac_pct
    LeadRounds,         \* lead_rounds after its clamp to at least 8
    MaxLeadSlots,       \* max_lead_slots
    CommitRepeat,       \* commit_repeat_slots
    StatusInterval,     \* status_interval_slots
    Jitter,             \* the modulus that spreads the beacon (7)
    FollowerStatus,     \* follower_status_slots, 0 = silent
    ProposalRetries,    \* proposal_retries
    ProposalBackoff,    \* proposal_backoff_slots
    MaxMaskDelta,       \* max_mask_delta
    MinUpdateGap,       \* min_update_gap_rounds
    StaleMarkerSlots,   \* stale_marker_slots
    RingDepth,          \* ProposalReplayRing::kDepth
    GenCeiling          \* kGenCeiling

ASSUME HopsetAssumption ==
    /\ IsFiniteSet(Base) /\ Base # {}
    /\ \A m \in Masks : IsFiniteSet(m)
    /\ MinActive \in 1..Cardinality(Base) /\ MaxExcludedPct \in Nat
    /\ LeadRounds \in Nat \ {0} /\ MaxLeadSlots \in Nat
    /\ CommitRepeat \in Nat /\ StatusInterval \in Nat /\ Jitter \in Nat \ {0}
    /\ FollowerStatus \in Nat
    /\ ProposalRetries \in Nat /\ ProposalBackoff \in Nat
    /\ MaxMaskDelta \in Nat /\ MinUpdateGap \in Nat
    /\ StaleMarkerSlots \in Nat /\ RingDepth \in Nat \ {0}
    /\ GenCeiling \in Nat

VARIABLE air    \* control frames ever sent: any of them may still be heard,
                \*   late, out of order, again, or never

FullMask == Base
AllMasks == Masks \cup {FullMask}

mask_valid(mask) == mask \subseteq Base /\ Cardinality(mask) >= MinActive

\* The masks a schedule can be run under.
LegalMasks == {m \in AllMasks : mask_valid(m)}

\* HopsetState; activate_round is carried for the log only.
States == [epoch : Nat, generation : Nat, mask : LegalMasks, activate_slot : Int]

\* The legacy fixed schedule a boot of the authority starts from.
Legacy(epoch) == [epoch |-> epoch, generation |-> 0, mask |-> FullMask,
                  activate_slot |-> 0]

\* Which channels two masks disagree about: the set bits of their XOR.
Differ(m, n) == (m \ n) \cup (n \ m)

\* active_count: slots per round under a state.
RoundLength(st) == Cardinality(IF st.generation = 0 THEN Base ELSE st.mask)

round_of(st, slot) == (slot - st.activate_slot) \div RoundLength(st)

(***************************************************************************)
(* Messages.  An exchange is the proposer's epoch and nonce.               *)
(***************************************************************************)
Exchanges == [epoch : Nat, nonce : Nat]
NoExchange == [epoch |-> 0, nonce |-> 0]

Reasons == {"None", "ReplayGen", "Busy", "GenCeiling", "BadMask",
            "LowDiversity", "NoChange", "MaskDelta", "Cooldown", "TxVeto"}

Proposals == [type : {"PROPOSAL"}, exchange : Exchanges, mask : AllMasks]
Heartbeats == [type : {"HEARTBEAT"}, epoch : Nat]
Commits   == [type : {"COMMIT"}, state : States, echo : Exchanges]
Statuses  == [type : {"STATUS"}, state : States, reason : Reasons, nonce : Nat]

Messages == Proposals \cup Heartbeats \cup Commits \cup Statuses

Proposal(x, mask) == [type |-> "PROPOSAL", exchange |-> x, mask |-> mask]
Commit(st, echo)  == [type |-> "COMMIT", state |-> st, echo |-> echo]
Status(st, why, nonce) ==
    [type |-> "STATUS", state |-> st, reason |-> why, nonce |-> nonce]
==============================================================================
