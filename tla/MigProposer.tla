----------------------------- MODULE MigProposer -----------------------------
(***************************************************************************)
(* The ground: class MigProposer and the host loop that executes its       *)
(* actions (ground_do).  A retune is asked for in a handler (it is put in  *)
(* gtodo) and performed by a step of its own, ground_retune, which makes   *)
(* the callback on_retune_done.                                            *)
(*                                                                         *)
(* source_ is the configured channel of the process and is never written   *)
(* again; it is the constant Source here.                                  *)
(***************************************************************************)
EXTENDS MigWire

VARIABLES
    ground,     \* the members of MigProposer
    gtodo       \* channels ground_do still has to tune to, in order

groundVars == <<ground, gtodo>>

GroundStates == {"Stable", "Proposed", "Committed", "Switching", "Verifying",
                 "Recovery"}

GroundType ==
    [epoch : Epochs, st : GroundStates, gen : Gens, current : AnyChannel,
     target : AnyChannel, tries : Nat, next_send : Timers,
     drone_epoch : Epochs, drone_nonce : AnyNonce,
     commit_target : AnyChannel, commit_rescue : AnyChannel,
     retune_at : Timers, next_status : Timers, follow_deadline : Timers,
     blank_until : Timers, next_confirm : Timers,
     markers_seen : Nat, video_seen : Nat,
     got_gen_marker : BOOLEAN, verified : BOOLEAN,
     follow_channel : AnyChannel, follow_pending : BOOLEAN,
     recov_idx : 0..3, recov_next : Timers]

\* A ground process that has just started, with a fresh random epoch.
NewGround(epoch) ==
    [epoch |-> epoch, st |-> "Stable", gen |-> 0, current |-> Source,
     target |-> NoChannel, tries |-> 0, next_send |-> 0,
     drone_epoch |-> 0, drone_nonce |-> NoNonce,
     commit_target |-> NoChannel, commit_rescue |-> NoChannel,
     retune_at |-> 0, next_status |-> 0, follow_deadline |-> 0,
     blank_until |-> 0, next_confirm |-> 0,
     markers_seen |-> 0, video_seen |-> 0,
     got_gen_marker |-> FALSE, verified |-> FALSE,
     follow_channel |-> NoChannel, follow_pending |-> FALSE,
     recov_idx |-> 0, recov_next |-> 0]

GroundInit ==
    /\ ground = NewGround(1)
    /\ gtodo = <<>>

nonce(g) == GroundNonce(g.epoch, g.gen)

make_proposal(g) ==
    [type |-> "PROPOSAL", ground_epoch |-> g.epoch, generation |-> g.gen,
     source |-> Source, target |-> g.target, rescue |-> Rescue,
     fallback_mode |-> 0, ground_nonce |-> nonce(g)]

make_status_ack(g) ==
    [type |-> "STATUS", role |-> 0, sender_epoch |-> g.epoch,
     generation |-> g.gen, state |-> g.st, current |-> g.current,
     reason |-> "None", peer_nonce_echo |-> g.drone_nonce]

make_confirm(g) ==
    [type |-> "CONFIRM", ground_epoch |-> g.epoch, generation |-> g.gen,
     drone_nonce_echo |-> g.drone_nonce]

(***************************************************************************)
(* ground_do: the host airs the messages msgs of a handler and is left     *)
(* with the retunes chans to perform.                                      *)
(***************************************************************************)
ground_do(g, msgs, chans) ==
    /\ ground' = g
    /\ gtodo' = gtodo \o chans
    /\ dq' = Heard(dq, msgs)
    /\ UNCHANGED <<gradio, dradio>>

\* A handler that returns no action and changes nothing.
GroundIgnores == UNCHANGED <<ground, gtodo, dq, gradio, dradio>>

------------------------------------------------------------------------------
\* start: the operator or the gate asks for a migration.
Ground_start(tgt) ==
    /\ ground.st = "Stable"
    /\ ground.gen < MaxGen
    /\ LET g == [ground EXCEPT !.gen = @ + 1, !.target = tgt,
                               !.st = "Proposed", !.tries = 1,
                               !.next_send = ProposalInterval]
       IN  ground_do(g, {make_proposal(g)}, <<>>)

(***************************************************************************)
(* tick_committed: acknowledge periodically, and leave for the committed   *)
(* target when the retune instant has come.                                *)
(***************************************************************************)
tick_committed(g) ==
    LET acked == IF g.next_status = 0
                 THEN [g EXCEPT !.next_status = CommitInterval] ELSE g
    IN  ground_do(IF g.retune_at = 0
                  THEN [acked EXCEPT !.st = "Switching",
                                     !.blank_until = BlankWindow]
                  ELSE acked,
                  IF g.next_status = 0 THEN {make_status_ack(g)} ELSE {},
                  IF g.retune_at = 0 THEN <<g.commit_target>> ELSE <<>>)

\* (activate_tsf - tx_tsf) / 1000 in unsigned arithmetic: a commit stamped
\* after its own activation instant wraps.
ActivationOffset(m) == IF m.offset < 0 THEN Never ELSE m.offset

RetuneAt(off) ==
    IF off = Never THEN Never ELSE IF off <= Lead THEN 0 ELSE off - Lead

\* Mutant: the backstop deadline is not set.
AdoptCommit_NoBackstop(g, m) ==
    [g EXCEPT !.st = "Committed",
              !.drone_epoch = m.drone_epoch, !.drone_nonce = m.drone_nonce,
              !.commit_target = m.target, !.commit_rescue = m.rescue,
              !.retune_at = RetuneAt(ActivationOffset(m)), !.next_status = 0,
              !.follow_deadline = Never]

\* The members a commit sets when the ground adopts it.
AdoptCommit(g, m) ==
    [g EXCEPT !.st = "Committed",
              !.drone_epoch = m.drone_epoch, !.drone_nonce = m.drone_nonce,
              !.commit_target = m.target, !.commit_rescue = m.rescue,
              !.retune_at = RetuneAt(ActivationOffset(m)), !.next_status = 0,
              !.follow_deadline = Later(ActivationOffset(m),
                                        RollbackTime + FollowSlack)]

\* The nonce and generation gate every commit has to pass.
CommitMatches(g, m) ==
    m.generation = g.gen /\ m.ground_nonce_echo = nonce(g)

Ground_on_commit(m) ==
    \/ /\ CommitMatches(ground, m)
       /\ ground.st = "Proposed"
       /\ tick_committed(AdoptCommit(ground, m))
    \/ /\ CommitMatches(ground, m)
       /\ ground.st = "Committed"
       /\ ground_do(ground, {make_status_ack(ground)}, <<>>)
    \/ /\ ~ (CommitMatches(ground, m) /\ ground.st \in {"Proposed", "Committed"})
       /\ GroundIgnores

(***************************************************************************)
(* follow_drone: the drone reports that it settled on chan.                *)
(***************************************************************************)
follow_drone(chan) ==
    \/ /\ ground.current = chan
       /\ ground_do([ground EXCEPT !.st = "Stable"],
                    IF chan = ground.commit_target
                    THEN {make_confirm(ground)} ELSE {},
                    <<>>)
    \/ /\ ground.current # chan
       /\ ground_do([ground EXCEPT !.follow_channel = chan,
                                   !.follow_pending = TRUE,
                                   !.st = "Switching"],
                    {}, <<chan>>)

Rejected(m) == ground.st = "Proposed" /\ m.reason # "None"

\* Mutant: any status of the drone is followed, settled or not.
FollowsStatus_Unsettled(m) ==
    /\ ~ Rejected(m)
    /\ m.role = 1
    /\ m.generation = ground.gen
    /\ ground.st \in {"Committed", "Switching", "Verifying"}

FollowsStatus(m) ==
    /\ ~ Rejected(m)
    /\ m.role = 1
    /\ m.generation = ground.gen
    /\ ground.st \in {"Committed", "Switching", "Verifying"}
    /\ m.state = "Stable"

Ground_on_status(m) ==
    \/ /\ Rejected(m)
       /\ ground_do([ground EXCEPT !.st = "Stable", !.current = Source], {}, <<>>)
    \/ /\ FollowsStatus(m)
       /\ follow_drone(m.current)
    \/ /\ ~ Rejected(m) /\ ~ FollowsStatus(m)
       /\ GroundIgnores

------------------------------------------------------------------------------
(***************************************************************************)
(* maybe_confirm: enough markers or video on the target prove the channel; *)
(* the first time that is so the ground confirms.                          *)
(***************************************************************************)
Proves(g) == g.markers_seen >= VerifyMarkers \/ g.video_seen >= VerifyVideo

maybe_confirm(g) ==
    IF ~ g.verified /\ Proves(g)
    THEN ground_do([g EXCEPT !.verified = TRUE, !.next_confirm = CommitInterval],
                   {make_confirm(g)}, <<>>)
    ELSE ground_do(g, {}, <<>>)

\* Counters only matter up to their thresholds (the confirm reports them).
Count(n, bound) == IF n < bound THEN n + 1 ELSE n

recov_channel(g) ==
    <<Source, g.commit_target, Source, g.commit_rescue>>[g.recov_idx + 1]

recover_to(c) ==
    ground_do([ground EXCEPT !.st = "Stable", !.current = c], {}, <<>>)

MarkerMatches(m) ==
    m.generation = ground.gen /\ m.drone_epoch = ground.drone_epoch

MarkerCounts(m) ==
    /\ MarkerMatches(m)
    /\ ground.st = "Verifying"
    /\ m.aired_on = ground.commit_target
    /\ ground.blank_until = 0

Ground_on_marker(m) ==
    \/ /\ MarkerCounts(m)
       /\ maybe_confirm([ground EXCEPT !.got_gen_marker = TRUE,
                            !.markers_seen = Count(@, VerifyMarkers)])
    \/ /\ MarkerMatches(m)
       /\ ground.st = "Recovery"
       /\ recover_to(m.aired_on)
    \/ /\ ~ MarkerCounts(m)
       /\ ~ (MarkerMatches(m) /\ ground.st = "Recovery")
       /\ GroundIgnores

\* Mutant: video counts before a marker of the generation was seen.
VideoCounts_Unmarked == ground.st = "Verifying" /\ ground.blank_until = 0

VideoCounts ==
    ground.st = "Verifying" /\ ground.blank_until = 0 /\ ground.got_gen_marker

Ground_on_video ==
    \/ /\ VideoCounts
       /\ maybe_confirm([ground EXCEPT !.video_seen = Count(@, VerifyVideo)])
    \/ /\ ground.st = "Recovery"
       /\ recover_to(recov_channel(ground))
    \/ /\ ~ VideoCounts /\ ground.st # "Recovery"
       /\ GroundIgnores

enter_recovery(g) ==
    [g EXCEPT !.st = "Recovery", !.recov_idx = 0,
              !.recov_next = RecoveryDwell, !.current = Source]

\* on_abort looks at neither the generation, the epoch nor its own state.
Ground_on_abort(m) ==
    \/ /\ m.effective = 0
       /\ ground_do([ground EXCEPT !.st = "Stable", !.current = Source], {}, <<>>)
    \/ /\ m.effective = 1
       /\ ground_do(enter_recovery(ground), {}, <<recov_channel(enter_recovery(ground))>>)

Ground_on_message(m) ==
    \/ m.type = "COMMIT" /\ Ground_on_commit(m)
    \/ m.type = "STATUS" /\ Ground_on_status(m)
    \/ m.type = "MARKER" /\ Ground_on_marker(m)
    \/ m.type = "ABORT"  /\ Ground_on_abort(m)
    \/ m.type = "VIDEO"  /\ Ground_on_video

------------------------------------------------------------------------------
\* Mutant: giving up starts the recovery scan.
tick_proposed_Scans ==
    /\ ground.st = "Proposed"
    /\ ground.next_send = 0
    /\ \/ /\ ground.tries >= ProposalMaxTries
          /\ ground_do(enter_recovery(ground), {},
                       <<recov_channel(enter_recovery(ground))>>)
       \/ /\ ground.tries < ProposalMaxTries
          /\ ground_do([ground EXCEPT !.tries = @ + 1,
                                      !.next_send = ProposalInterval],
                       {make_proposal(ground)}, <<>>)

tick_proposed ==
    /\ ground.st = "Proposed"
    /\ ground.next_send = 0
    /\ \/ /\ ground.tries >= ProposalMaxTries
          /\ ground_do([ground EXCEPT !.st = "Stable", !.current = Source], {}, <<>>)
       \/ /\ ground.tries < ProposalMaxTries
          /\ ground_do([ground EXCEPT !.tries = @ + 1,
                                      !.next_send = ProposalInterval],
                       {make_proposal(ground)}, <<>>)

tick_verifying ==
    LET confirm == ground.verified /\ ground.next_confirm = 0
        expired == ground.follow_deadline = 0
        g == IF confirm THEN [ground EXCEPT !.next_confirm = CommitInterval]
                        ELSE ground
    IN  /\ ground.st = "Verifying"
        /\ confirm \/ expired
        /\ ground_do(IF expired THEN enter_recovery(g) ELSE g,
                     IF confirm THEN {make_confirm(ground)} ELSE {},
                     IF expired THEN <<recov_channel(enter_recovery(g))>> ELSE <<>>)

tick_recovery ==
    LET g == [ground EXCEPT !.recov_idx = (@ + 1) % 4,
                            !.recov_next = RecoveryDwell]
    IN  /\ ground.st = "Recovery"
        /\ ground.recov_next = 0
        /\ ground_do(g, {}, <<recov_channel(g)>>)

\* on_tick, with only the calls that do something.
Ground_on_tick ==
    \/ tick_proposed
    \/ /\ ground.st = "Committed"
       /\ ground.next_status = 0 \/ ground.retune_at = 0
       /\ tick_committed(ground)
    \/ tick_verifying
    \/ tick_recovery

\* A call of on_tick would do something.
GroundDue ==
    \/ ground.st = "Proposed" /\ ground.next_send = 0
    \/ ground.st = "Committed" /\ (ground.next_status = 0 \/ ground.retune_at = 0)
    \/ ground.st = "Verifying" /\ \/ ground.verified /\ ground.next_confirm = 0
                                  \/ ground.follow_deadline = 0
    \/ ground.st = "Recovery" /\ ground.recov_next = 0

(***************************************************************************)
(* ground_do tunes the radio and calls on_retune_done.                     *)
(***************************************************************************)
Ground_on_retune_done(g) ==
    IF g.st # "Switching" THEN g
    ELSE IF g.follow_pending
    THEN [g EXCEPT !.follow_pending = FALSE, !.st = "Stable",
                   !.current = g.follow_channel]
    ELSE [g EXCEPT !.st = "Verifying", !.markers_seen = 0, !.video_seen = 0,
                   !.got_gen_marker = FALSE, !.verified = FALSE,
                   !.current = g.commit_target]

ground_retune ==
    /\ gtodo # <<>>
    /\ gradio' = Head(gtodo)
    /\ gtodo' = Tail(gtodo)
    /\ ground' = Ground_on_retune_done(ground)
    /\ UNCHANGED <<dq, dradio>>

\* The process dies and comes back on its configured channel.
Ground_restart ==
    /\ ground' = NewGround(ground.epoch + 1)
    /\ gtodo' = <<>>
    /\ gradio' = Source
    /\ UNCHANGED <<dq, dradio>>

\* One unit of time passes for every deadline the ground keeps.
GroundElapse(g) ==
    [g EXCEPT !.next_send = Elapse(@), !.retune_at = Elapse(@),
              !.next_status = Elapse(@), !.follow_deadline = Elapse(@),
              !.blank_until = Elapse(@), !.next_confirm = Elapse(@),
              !.recov_next = Elapse(@)]
==============================================================================
