------------------------------ MODULE HopsetLink -----------------------------
(***************************************************************************)
(* The hopset authority and its follower on one link: the transmitter's    *)
(* slot clock, the sync markers, the control frames of both directions and *)
(* the restarts of either process.  A restarted transmitter counts slots   *)
(* from zero again; its host may hand it the state it ran before.          *)
(***************************************************************************)
EXTENDS HopsetAuthority, HopsetFollower

CONSTANTS
    OperatorMasks,      \* masks the operator's script may ask for
    LocalMasks,         \* masks the transmitter's own sensing may ask for
    ProposedMasks,      \* masks the receiver's policy may ask for
    MayVeto,            \* the transmitter's fusion layer is on
    Replays,            \* frames of an earlier boot can still be heard
    MaxSlot,            \* bound on a boot's slot clock
    MaxTickLag,         \* slots the transmit loop may be late by
    MaxFlight,          \* slots a marker may spend between stamp and decode
    MaxProposals,       \* proposals per boot of the receiver
    LastProposal,       \* no proposal is made after this slot
    MaxBoots, MaxResumes, MaxFollowerBoots

ASSUME LinkAssumption ==
    /\ OperatorMasks \subseteq Masks /\ LocalMasks \subseteq Masks
    /\ ProposedMasks \subseteq Masks
    /\ MayVeto \in BOOLEAN /\ Replays \in BOOLEAN
    /\ MaxSlot \in Nat /\ MaxTickLag \in Nat /\ MaxFlight \in Nat
    /\ MaxProposals \in Nat /\ LastProposal \in Nat
    /\ MaxBoots \in Nat /\ MaxResumes \in Nat /\ MaxFollowerBoots \in Nat

VARIABLES
    slot,       \* the transmitter's slot clock (hop_start)
    flight,     \* the marker that is between its stamp and its decode
    resumed,    \* how often a restarted authority has resumed a state
    promised,   \* history: every state made official, by a boot or a commit
    grants      \* history: which exchange each accepted proposal belongs to

history == <<promised, grants>>
world == <<slot, flight, resumed>>
vars == <<authVars, folVars, air, world, history>>

NoMarker == [epoch |-> 0, slot |-> 0, state |-> Legacy(0)]
Markers == [epoch : Nat, slot : Int, state : States]
Grants == [epoch : Nat, exchange : Exchanges, generation : Nat]

TypeOK ==
    /\ air \subseteq Messages
    /\ auth \in AuthorityType
    /\ tick_slot \in Int /\ due \in BOOLEAN
    /\ fol \in FollowerType
    /\ fslot \in Int /\ hop_epoch \in Nat
    /\ slot \in Int /\ flight \in Markers /\ resumed \in Nat
    /\ promised \subseteq States
    /\ grants \subseteq Grants

Init ==
    /\ air = {}
    /\ auth = NewAuthority(1) /\ tick_slot = 0 /\ due = TRUE
    /\ fol = NewFollower(1) /\ fslot = 0 /\ hop_epoch = 0
    /\ slot = 0 /\ flight = NoMarker /\ resumed = 0
    /\ promised = {Legacy(0), Legacy(1)}
    /\ grants = {}

\* What the histories learn from a step of the authority.
Promise ==
    promised' = IF auth'.committing THEN promised \cup {auth'.pend} ELSE promised

------------------------------------------------------------------------------
(* Steps of the transmitter. *)

HearProposal ==
    /\ \E m \in air :
        /\ m.type = "PROPOSAL"
        /\ on_proposal(m)
        /\ grants' = IF ~ auth.committing /\ auth'.committing
                     THEN grants \cup {[epoch |-> auth.epoch, exchange |-> m.exchange,
                                        generation |-> auth'.pend.generation]}
                     ELSE grants
    /\ Promise
    /\ UNCHANGED <<tick_slot, due, folVars, world>>

VetoProposal ==
    /\ MayVeto
    /\ \E m \in air : m.type = "PROPOSAL" /\ reject_proposal(m)
    /\ UNCHANGED <<tick_slot, due, folVars, world, history>>

HearHeartbeat ==
    /\ \E m \in air : m.type = "HEARTBEAT"
    /\ on_heartbeat
    /\ UNCHANGED <<tick_slot, due, folVars, world, history>>

NewSlot ==
    /\ StoreSlot(slot)
    /\ UNCHANGED <<folVars, world, history>>

AuthorityTick ==
    /\ TransmitPass(OperatorMasks, LocalMasks)
    /\ Promise
    /\ UNCHANGED <<folVars, world, grants>>

\* Every frame carries a marker with the slot of its composition.
StampMarker ==
    /\ ~ due
    /\ flight' = [epoch |-> auth.epoch, slot |-> slot, state |-> auth.cur]
    /\ UNCHANGED <<authVars, folVars, air, slot, resumed, history>>

\* restore: a host that persisted its session hands the state back.
restore(epoch, st) ==
    [NewAuthority(epoch) EXCEPT !.cur = [st EXCEPT !.epoch = epoch]]

OldFrames == IF Replays THEN air ELSE {}

AuthorityRestart ==
    /\ auth.epoch < MaxBoots
    /\ auth' = NewAuthority(auth.epoch + 1)
    /\ slot' = 0 /\ tick_slot' = 0 /\ due' = TRUE
    /\ promised' = promised \cup {auth'.cur}
    /\ air' = OldFrames
    /\ UNCHANGED <<folVars, flight, resumed, grants>>

AuthorityResume ==
    /\ resumed < MaxResumes
    /\ resumed' = resumed + 1
    /\ auth' = restore(auth.epoch + 1, auth.cur)
    /\ due' = TRUE
    /\ promised' = promised \cup {auth'.cur}
    /\ air' = OldFrames
    /\ UNCHANGED <<tick_slot, folVars, slot, flight, grants>>

------------------------------------------------------------------------------
(* Steps of the receiver. *)

\* The policy speaks only while the receiver tracks the transmitter.
FollowerPropose ==
    /\ hop_epoch # 0 /\ slot <= LastProposal
    /\ fol.nonce < MaxProposals
    /\ \E mask \in ProposedMasks : propose(mask, fol.nonce + 1)
    /\ UNCHANGED <<authVars, world, history>>

HearCommit ==
    /\ \E m \in air : m.type = "COMMIT" /\ on_commit(m)
    /\ UNCHANGED <<authVars, world, history>>

HearStatus ==
    /\ \E m \in air : m.type = "STATUS" /\ on_status(m)
    /\ UNCHANGED <<authVars, world, history>>

HearMarker ==
    /\ flight # NoMarker
    /\ on_marker(flight)
    /\ flight' = NoMarker
    /\ UNCHANGED <<authVars, slot, resumed, history>>

FollowerTick ==
    /\ fol_tick
    /\ UNCHANGED <<authVars, world, history>>

FollowerRestart ==
    /\ fol.epoch < MaxFollowerBoots
    /\ fol' = NewFollower(fol.epoch + 1)
    /\ fslot' = 0 /\ hop_epoch' = 0
    /\ UNCHANGED <<authVars, air, world, history>>

------------------------------------------------------------------------------
\* Time passes on both sides; a marker that takes too long is lost.
SlotPasses ==
    /\ slot < MaxSlot
    /\ slot - tick_slot < MaxTickLag
    /\ slot' = slot + 1
    /\ fslot' = IF hop_epoch = 0 THEN fslot ELSE fslot + 1
    /\ flight' = IF flight.epoch = auth.epoch /\ slot - flight.slot >= MaxFlight
                 THEN NoMarker ELSE flight
    /\ UNCHANGED <<authVars, fol, hop_epoch, air, resumed, history>>

Next ==
    \/ HearProposal \/ VetoProposal \/ HearHeartbeat
    \/ NewSlot \/ AuthorityTick \/ StampMarker
    \/ AuthorityRestart \/ AuthorityResume
    \/ FollowerPropose \/ HearCommit \/ HearStatus \/ HearMarker
    \/ FollowerTick \/ FollowerRestart
    \/ SlotPasses

Spec == Init /\ [][Next]_vars

------------------------------------------------------------------------------
(***************************************************************************)
(* Fairness.  Both loops run forever: the transmit loop passes every slot, *)
(* the receive loop ticks the follower.  The beacon is repeated for as     *)
(* long as the transmitter lives and a scanning receiver comes across it   *)
(* sooner or later, so a status of the live state that is on the air is    *)
(* eventually heard; a commit or a marker need not be.                     *)
(***************************************************************************)
LiveStatus == Status(auth.cur, "None", 0)

HearLiveStatus ==
    /\ LiveStatus \in air
    /\ on_status(LiveStatus)
    /\ UNCHANGED <<authVars, world, history>>

Fairness ==
    /\ WF_vars(AuthorityTick) /\ WF_vars(NewSlot) /\ WF_vars(SlotPasses)
    /\ WF_vars(FollowerTick) /\ SF_vars(HearLiveStatus)

FairSpec == Spec /\ Fairness

------------------------------------------------------------------------------
(* Properties. *)

\* Two states under which every slot has the same channel.
SameSchedule(s, t) ==
    s.generation = t.generation /\ s.mask = t.mask /\ s.activate_slot = t.activate_slot

\* The states the transmitter has told anyone of.
Advertised ==
    {m.state : m \in {n \in air : n.type \in {"COMMIT", "STATUS"}}}
       \cup {auth.cur} \cup (IF auth.committing THEN {auth.pend} ELSE {})

(***************************************************************************)
(* Within one boot of the authority a generation number names one mask and *)
(* one activation slot, whoever asked for the change and however often it  *)
(* was asked for, in commits, statuses and the authority's own state.      *)
(***************************************************************************)
OneStatePerGeneration ==
    \A s, t \in Advertised :
        s.epoch = t.epoch /\ s.generation = t.generation => s = t

(***************************************************************************)
(* The follower runs a state only from the slot its commit named: by the   *)
(* transmitter's own clock that slot has come.                             *)
(***************************************************************************)
NeverEarly ==
    fol.cur.epoch = auth.epoch => fol.cur.activate_slot <= slot

(***************************************************************************)
(* A recovering follower accepts the beacon of the live authority: the     *)
(* state it carries is newer than what is held or the same generation,     *)
(* and inside the activation window.  (The authority may be one tick away  *)
(* from a state the follower runs already.)                                *)
(***************************************************************************)
BeaconRecovers ==
    fol.st = "Recovering" /\ ~ (auth.committing /\ fol.cur = auth.pend) =>
        StatusNewer(fol, LiveStatus, fslot) \/ StatusAgrees(fol, LiveStatus, fslot)

(***************************************************************************)
(* One accepted proposal starts one change: the same proposal, repeated by *)
(* the follower's retries or heard again later, does not start a second    *)
(* one in the same boot.                                                   *)
(***************************************************************************)
OneCommitPerProposal ==
    \A g, h \in grants :
        g.epoch = h.epoch /\ g.exchange = h.exchange => g = h

(***************************************************************************)
(* A proposer cannot walk the hopset down quickly: from one activation to  *)
(* the next MinUpdateGap and LeadRounds whole rounds pass, counted in the  *)
(* rounds of the state that is left, and no more than MaxMaskDelta         *)
(* channels change.                                                        *)
(***************************************************************************)
UpdatesAreBounded ==
    auth.committing =>
        /\ Cardinality(Differ(auth.pend.mask, auth.cur.mask)) <= MaxMaskDelta
        /\ auth.have_activation =>
             auth.pend.activate_slot - auth.cur.activate_slot
                >= (MinUpdateGap + LeadRounds) * RoundLength(auth.cur)

(***************************************************************************)
(* The tripwire has no false alarms: a follower that runs the authority's  *)
(* state, or has it armed, does not drop lockstep because of a marker that *)
(* was stamped before the swap and decoded after it.  (One that skipped a  *)
(* generation has no grace for it.)                                        *)
(***************************************************************************)
StepByStep(f) ==
    /\ f.cur.generation # 0 => f.prev_generation + 1 = f.cur.generation
    /\ f.st = "Pending" => f.cur.generation + 1 = f.pend.generation

NoFalseAlarm ==
    [][fol.st # "Recovering" /\ fol'.st = "Recovering" /\ StepByStep(fol)
         => /\ ~ SameSchedule(fol.cur, auth.cur)
            /\ ~ (fol.st = "Pending" /\ fol.pend = auth.cur)]_vars

(***************************************************************************)
(* The detailed protocol implements HopsetAbs: whatever is lost, repeated  *)
(* or delayed, the follower runs only states the authority made official.  *)
(***************************************************************************)
Abs == INSTANCE HopsetAbs WITH FirstState <- Legacy(0), official <- promised,
                               held <- fol.cur

ImplementsAbs == Abs!Spec

(***************************************************************************)
(* However many commits it misses, the follower ends up running the state  *)
(* the authority runs, and stays there.                                    *)
(***************************************************************************)
Rejoins == <>[]SameSchedule(fol.cur, auth.cur)

(***************************************************************************)
(* A proposal comes to an end: granted, denied, or given up after its      *)
(* retries.  (Unless the bound on the clock cuts its back-off short.)      *)
(***************************************************************************)
ProposalEnds ==
    fol.st = "Proposing" ~>
        \/ fol.st # "Proposing"
        \/ slot = MaxSlot /\ ~ Elapsed(fslot, fol.last_prop, ProposalBackoff)
==============================================================================
