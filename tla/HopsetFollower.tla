---------------------------- MODULE HopsetFollower ---------------------------
(***************************************************************************)
(* The receiver: class HopsetFollower and what rxdemo keeps beside it, the *)
(* slot clock it fits to the transmitter's sync markers.                   *)
(***************************************************************************)
EXTENDS HopsetTypes

VARIABLES
    fol,        \* the members of HopsetFollower
    fslot,      \* hopset_slot_now: the slot the fitted anchor gives
    hop_epoch   \* g_hop_epoch: the boot the anchor was fitted to, 0 = none

folVars == <<fol, fslot, hop_epoch>>

FollowerStates == {"Synced", "Proposing", "Pending", "Recovering"}

FollowerType ==
    [epoch : Nat, st : FollowerStates, cur : States, pend : States,
     nonce : Nat, mask : AllMasks, tries : Nat, last_prop : Int,
     last_status : Int, have_anchor : BOOLEAN,
     have_auth : BOOLEAN, auth_epoch : Nat, mismatch_gen : Nat,
     have_prev : BOOLEAN, prev_generation : Nat, activated_slot : Int]

NewFollower(epoch) ==
    [epoch |-> epoch, st |-> "Synced", cur |-> Legacy(0), pend |-> Legacy(0),
     nonce |-> 0, mask |-> FullMask, tries |-> 0, last_prop |-> 0,
     last_status |-> 0, have_anchor |-> FALSE,
     have_auth |-> FALSE, auth_epoch |-> 0, mismatch_gen |-> 0,
     have_prev |-> FALSE, prev_generation |-> 0, activated_slot |-> 0]

\* now - then in 64-bit unsigned arithmetic, at least n: the fitted clock can
\* jump back, and the difference then wraps to a huge one.
Elapsed(now, then, n) == now < then \/ now - then >= n

\* The exchange the follower has outstanding, if it is Proposing.
Outstanding(f) == [epoch |-> f.epoch, nonce |-> f.nonce]

------------------------------------------------------------------------------
(* Adopting a state. *)

same_epoch(f, st) == f.have_auth /\ st.epoch = f.auth_epoch

InWindow(st, now) == st.activate_slot - now <= MaxLeadSlots

adopt_epoch(f, e) == [f EXCEPT !.have_auth = TRUE, !.auth_epoch = e]

\* activate: swap, and remember what was left and where.
FolActivate(f, st) ==
    [f EXCEPT !.have_prev = TRUE, !.prev_generation = f.cur.generation,
              !.activated_slot = st.activate_slot,
              !.pend = st, !.cur = st, !.st = "Synced"]

armed(f, st) == same_epoch(f, st) /\ f.st = "Pending" /\ st = f.pend

\* A commit that answers one of this boot's proposals has to answer the
\* outstanding one.
EchoMismatch(f, echo) ==
    echo.epoch = f.epoch /\ (f.st # "Proposing" \/ echo.nonce # f.nonce)

CommitAcceptable(f, m, now) ==
    /\ m.state.generation < GenCeiling
    /\ mask_valid(m.state.mask)
    /\ ~ armed(f, m.state)
    /\ same_epoch(f, m.state) => m.state.generation > f.cur.generation
    /\ ~ EchoMismatch(f, m.echo)
    /\ InWindow(m.state, now)

\* Mutant: a commit takes effect when it is heard.
AfterCommit_AtOnce(f, st, now) == FolActivate(adopt_epoch(f, st.epoch), st)

\* An accepted commit waits for its slot, unless that has passed already.
AfterCommit(f, st, now) ==
    IF st.activate_slot <= now
    THEN FolActivate(adopt_epoch(f, st.epoch), st)
    ELSE [adopt_epoch(f, st.epoch) EXCEPT !.pend = st, !.st = "Pending"]

Denied(f, m) == m.reason # "None" /\ f.st = "Proposing" /\ m.nonce = f.nonce

\* Mutant: a status is adopted whatever its generation.
StatusNewer_Any(f, m, now) ==
    /\ m.state.generation # 0 => mask_valid(m.state.mask)
    /\ InWindow(m.state, now)

\* Mutant: only the successor of what is held counts as newer.
StatusNewer_Next(f, m, now) ==
    /\ m.state.generation # 0 => mask_valid(m.state.mask)
    /\ InWindow(m.state, now)
    /\ same_epoch(f, m.state) => m.state.generation = f.cur.generation + 1

\* A newer generation of the authority that is tracked, or another authority.
StatusNewer(f, m, now) ==
    /\ m.state.generation # 0 => mask_valid(m.state.mask)
    /\ InWindow(m.state, now)
    /\ same_epoch(f, m.state) => m.state.generation > f.cur.generation

\* Mutant: a status of the generation that is held says nothing new.
StatusAgrees_Never(f, m, now) == FALSE

\* The authority agrees with what is held: the mismatch was a transient one.
StatusAgrees(f, m, now) ==
    /\ m.state.generation # 0 => mask_valid(m.state.mask)
    /\ InWindow(m.state, now)
    /\ same_epoch(f, m.state) /\ m.state.generation = f.cur.generation

\* What is adopted: generation 0 always means the full mask.
StatusState(m) ==
    IF m.state.generation = 0 THEN [m.state EXCEPT !.mask = FullMask] ELSE m.state

------------------------------------------------------------------------------
(* The operations. *)

propose(mask, nonce) ==
    /\ fol.st = "Synced"
    /\ fol' = [fol EXCEPT !.nonce = nonce, !.mask = mask, !.tries = 1,
                          !.last_prop = fslot, !.st = "Proposing"]
    /\ air' = air \cup {Proposal(Outstanding(fol'), mask)}
    /\ UNCHANGED <<fslot, hop_epoch>>

on_commit(m) ==
    /\ CommitAcceptable(fol, m, fslot)
    /\ fol' = AfterCommit(fol, m.state, fslot)
    /\ UNCHANGED <<fslot, hop_epoch, air>>

on_status(m) ==
    /\ \/ Denied(fol, m) /\ fol' = [fol EXCEPT !.st = "Synced"]
       \/ /\ ~ Denied(fol, m) /\ StatusNewer(fol, m, fslot)
          /\ fol' = FolActivate(adopt_epoch(fol, m.state.epoch), StatusState(m))
       \/ /\ ~ Denied(fol, m) /\ StatusAgrees(fol, m, fslot)
          /\ fol.st = "Recovering" /\ fol' = [fol EXCEPT !.st = "Synced"]
    /\ UNCHANGED <<fslot, hop_epoch, air>>

\* The marker advertises a (generation, mask) that is held.
Holds(f, mk) ==
    \/ mk.state.generation = f.cur.generation /\ mk.state.mask = f.cur.mask
    \/ /\ f.st = "Pending"
       /\ mk.state.generation = f.pend.generation /\ mk.state.mask = f.pend.mask

\* Mutant: no grace for a marker that crossed the boundary in flight.
InFlight_Never(f, mk) == FALSE

\* The marker was stamped about when its generation was left.
InFlight(f, mk) ==
    /\ f.have_prev /\ mk.state.generation = f.prev_generation
    /\ mk.slot < f.activated_slot + StaleMarkerSlots

marker_effect(f, mk) ==
    IF \/ Holds(f, mk) \/ InFlight(f, mk)
       \/ f.st = "Recovering" /\ mk.state.generation = f.mismatch_gen
    THEN f
    ELSE [f EXCEPT !.mismatch_gen = mk.state.generation, !.st = "Recovering"]

\* A marker of another boot is believed outright; after that each one pulls
\* the fit a fraction of the way, seldom across a slot boundary.
Anchored(mk) ==
    IF hop_epoch # mk.epoch THEN {mk.slot}
    ELSE {fslot} \cup (IF mk.slot < fslot THEN {fslot - 1} ELSE {})
                 \cup (IF mk.slot > fslot THEN {fslot + 1} ELSE {})

on_marker(mk) ==
    /\ fslot' \in Anchored(mk)
    /\ hop_epoch' = mk.epoch
    /\ fol' = marker_effect(fol, mk)
    /\ UNCHANGED air

\* on_tick: the pending swap, the proposal's retry or timeout, the heartbeat.
FolSwap(f, now) == f.st = "Pending" /\ now >= f.pend.activate_slot

\* Mutant: the last try has no timeout.
FolRetry_NotLast(f, now) ==
    /\ f.st = "Proposing" /\ f.tries < ProposalRetries
    /\ Elapsed(now, f.last_prop, ProposalBackoff)

FolRetry(f, now) ==
    f.st = "Proposing" /\ Elapsed(now, f.last_prop, ProposalBackoff)
FolGivesUp(f, now) == FolRetry(f, now) /\ f.tries >= ProposalRetries

AfterRetry(f, now) ==
    IF FolRetry(f, now) THEN [f EXCEPT !.tries = @ + 1, !.last_prop = now] ELSE f

\* The heartbeat re-anchors when the clock has jumped back.  (Nobody reads
\* the anchor of a follower that was told to keep silent.)
FolReanchors(f, now) ==
    FollowerStatus # 0 /\ (~ f.have_anchor \/ now < f.last_status)
FolBeats(f, now) ==
    /\ FollowerStatus # 0 /\ ~ FolReanchors(f, now)
    /\ f.st # "Recovering"
    /\ now - f.last_status >= FollowerStatus

AfterBeat(f, now) ==
    IF FolReanchors(f, now) \/ FolBeats(f, now)
    THEN [f EXCEPT !.have_anchor = TRUE, !.last_status = now] ELSE f

fol_tick ==
    /\ LET f == AfterRetry(fol, fslot) IN
       \/ /\ FolSwap(fol, fslot)
          /\ fol' = FolActivate(fol, fol.pend) /\ UNCHANGED air
       \/ /\ FolGivesUp(fol, fslot)
          /\ fol' = [fol EXCEPT !.st = "Synced"] /\ UNCHANGED air
       \/ /\ ~ FolSwap(fol, fslot) /\ ~ FolGivesUp(fol, fslot)
          /\ fol' = AfterBeat(f, fslot)
          /\ air' = air
               \cup (IF FolRetry(fol, fslot)
                     THEN {Proposal(Outstanding(fol), fol.mask)} ELSE {})
               \cup (IF FolBeats(f, fslot)
                     THEN {[type |-> "HEARTBEAT", epoch |-> fol.epoch]} ELSE {})
    /\ UNCHANGED <<fslot, hop_epoch>>
==============================================================================
