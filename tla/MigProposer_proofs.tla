-------------------------- MODULE MigProposer_proofs --------------------------
(***************************************************************************)
(* Every step of the ground keeps the ground's part of the state in its    *)
(* types.                                                                  *)
(***************************************************************************)
EXTENDS MigProposer, MigWire_proofs

\* The retune instant on_commit computes is a deadline.
LEMMA RetuneAtType == \A t \in Timers : RetuneAt(t) \in Timers
BY ParamsAssumption DEF ParamsAssumption, Timers, Never, RetuneAt

GroundSideOK ==
    /\ ground \in GroundType
    /\ gtodo \in Seq(AnyChannel)
    /\ dq \in SUBSET ToDrone
    /\ gradio \in AnyChannel /\ dradio \in AnyChannel

\* ground_do keeps the types if a handler hands it well-typed actions.
LEMMA GroundDoType ==
    ASSUME GroundSideOK,
           NEW g \in GroundType, NEW ms \in SUBSET ToDrone,
           NEW cs \in Seq(AnyChannel), ground_do(g, ms, cs)
    PROVE  GroundSideOK'
BY DEF GroundSideOK, ground_do, Heard

\* The case of ground_do without a retune.
LEMMA GroundSends ==
    ASSUME GroundSideOK, NEW g \in GroundType, NEW ms \in SUBSET ToDrone,
           ground_do(g, ms, <<>>)
    PROVE  GroundSideOK'
<1>1. <<>> \in Seq(AnyChannel) OBVIOUS
<1> QED BY <1>1, GroundDoType

\* The case of ground_do with one retune.
LEMMA GroundTunes ==
    ASSUME GroundSideOK, NEW g \in GroundType, NEW ms \in SUBSET ToDrone,
           NEW c \in AnyChannel, ground_do(g, ms, <<c>>)
    PROVE  GroundSideOK'
<1>1. <<c>> \in Seq(AnyChannel) OBVIOUS
<1> QED BY <1>1, GroundDoType

\* The messages the ground builds are messages to the drone.
LEMMA GroundMessages ==
    ASSUME NEW g \in GroundType
    PROVE  make_status_ack(g) \in ToDrone /\ make_proposal(g) \in ToDrone
           /\ make_confirm(g) \in ToDrone
BY ChannelType DEF GroundType, GroundStates, ToDrone, Statuses, Proposals,
   Confirms, make_status_ack, make_proposal, make_confirm, MigState, Reasons,
   AnyNonce, nonce, GroundNonce, mig_mix_nonce, Epochs, Gens

\* Going to Stable keeps the members of MigProposer in their types.
LEMMA GroundSettles ==
    ASSUME NEW g \in GroundType, NEW c \in AnyChannel
    PROVE  /\ [g EXCEPT !.st = "Stable"] \in GroundType
           /\ [g EXCEPT !.st = "Stable", !.current = c] \in GroundType
BY DEF GroundType, GroundStates

\* Handlers that end the migration (reject, abort, give up, recover_to).
LEMMA GroundEnds ==
    ASSUME GroundSideOK, NEW c \in AnyChannel,
           ground_do([ground EXCEPT !.st = "Stable", !.current = c], {}, <<>>)
    PROVE  GroundSideOK'
<1> DEFINE h == [ground EXCEPT !.st = "Stable", !.current = c]
<1>1. h \in GroundType BY GroundSettles DEF GroundSideOK
<1>2. {} \in SUBSET ToDrone OBVIOUS
<1>3. ground_do(h, {}, <<>>) OBVIOUS
<1> HIDE DEF h
<1> QED BY <1>1, <1>2, <1>3, GroundSends

\* MigProposer::start keeps the types.
LEMMA StartType ==
    ASSUME GroundSideOK, NEW tgt \in Proposable, Ground_start(tgt)
    PROVE  GroundSideOK'
<1> DEFINE g == [ground EXCEPT !.gen = @ + 1, !.target = tgt,
                               !.st = "Proposed", !.tries = 1,
                               !.next_send = ProposalInterval]
<1>1. ground \in GroundType BY DEF GroundSideOK
<1>2. ground.gen + 1 \in Gens BY <1>1 DEF GroundType, Gens
<1>3. \A n \in Gens, t \in AnyChannel, d \in Timers :
        [ground EXCEPT !.gen = n, !.target = t, !.st = "Proposed", !.tries = 1,
                       !.next_send = d] \in GroundType
  BY ZenonT(60), <1>1 DEF GroundType, GroundStates
<1>4. g \in GroundType
  BY <1>2, <1>3, TimerParams, ChannelType
<1>5. ground_do(g, {make_proposal(g)}, <<>>) BY DEF Ground_start
<1>6. {make_proposal(g)} \in SUBSET ToDrone BY <1>4, GroundMessages
<1>7. <<>> \in Seq(AnyChannel) OBVIOUS
<1> HIDE DEF g
<1> QED BY <1>4, <1>5, <1>6, <1>7, GroundDoType

\* MigProposer::tick_committed keeps the types.
LEMMA TickCommittedType ==
    ASSUME GroundSideOK, NEW g \in GroundType, tick_committed(g)
    PROVE  GroundSideOK'
<1> DEFINE acked == IF g.next_status = 0
                    THEN [g EXCEPT !.next_status = CommitInterval] ELSE g
           h == IF g.retune_at = 0
                THEN [acked EXCEPT !.st = "Switching", !.blank_until = BlankWindow]
                ELSE acked
           ms == IF g.next_status = 0 THEN {make_status_ack(g)} ELSE {}
           cs == IF g.retune_at = 0 THEN <<g.commit_target>> ELSE <<>>
<1>1. acked \in GroundType BY TimerParams DEF GroundType
<1>2. [acked EXCEPT !.st = "Switching", !.blank_until = BlankWindow] \in GroundType
  <2> HIDE DEF acked
  <2> QED BY <1>1, TimerParams DEF GroundType, GroundStates
<1>3. h \in GroundType BY <1>1, <1>2
<1>4. ms \in SUBSET ToDrone BY GroundMessages
<1>5. cs \in Seq(AnyChannel) BY DEF GroundType
<1>6. ground_do(h, ms, cs) BY DEF tick_committed
<1> HIDE DEF h, ms, cs
<1> QED BY <1>3, <1>4, <1>5, <1>6, GroundDoType

\* The members on_commit sets are in their types, a wrapped offset included.
LEMMA AdoptCommitType ==
    ASSUME NEW g \in GroundType, NEW m \in Commits
    PROVE  AdoptCommit(g, m) \in GroundType
<1>1. ActivationOffset(m) \in Timers
  BY DEF Commits, ActivationOffset, Timers, Never
<1>2. Later(ActivationOffset(m), RollbackTime + FollowSlack) \in Timers
  BY <1>1, TimerType, ParamsAssumption DEF ParamsAssumption
<1>3. RetuneAt(ActivationOffset(m)) \in Timers
  BY <1>1, RetuneAtType
<1>4. /\ m.drone_epoch \in Epochs /\ m.drone_nonce \in AnyNonce
      /\ m.target \in AnyChannel /\ m.rescue \in AnyChannel
  BY DEF Commits
<1>5. \A r \in Timers, f \in Timers :
        [g EXCEPT !.st = "Committed",
            !.drone_epoch = m.drone_epoch, !.drone_nonce = m.drone_nonce,
            !.commit_target = m.target, !.commit_rescue = m.rescue,
            !.retune_at = r, !.next_status = 0, !.follow_deadline = f] \in GroundType
  BY <1>4, TimerParams DEF GroundType, GroundStates
<1> QED BY <1>2, <1>3, <1>5 DEF AdoptCommit

\* MigProposer::on_commit keeps the types.
LEMMA OnCommitType ==
    ASSUME GroundSideOK, NEW m \in Commits, Ground_on_commit(m)
    PROVE  GroundSideOK'
<1>0. ground \in GroundType BY DEF GroundSideOK
<1>1. CASE tick_committed(AdoptCommit(ground, m))
  BY <1>0, <1>1, AdoptCommitType, TickCommittedType
<1>2. CASE ground_do(ground, {make_status_ack(ground)}, <<>>)
  <2>1. {make_status_ack(ground)} \in SUBSET ToDrone BY <1>0, GroundMessages
  <2> QED BY <1>0, <1>2, <2>1, GroundSends
<1>3. CASE GroundIgnores
  BY <1>3 DEF GroundIgnores, GroundSideOK
<1> QED BY <1>1, <1>2, <1>3 DEF Ground_on_commit

\* MigProposer::on_status and follow_drone keep the types.
LEMMA OnStatusType ==
    ASSUME GroundSideOK, NEW m \in Statuses, Ground_on_status(m)
    PROVE  GroundSideOK'
<1>0. ground \in GroundType /\ m.current \in AnyChannel
  BY DEF GroundSideOK, Statuses
<1>1. CASE ground_do([ground EXCEPT !.st = "Stable", !.current = Source], {}, <<>>)
  BY <1>1, ChannelType, GroundEnds
<1>2. CASE follow_drone(m.current)
  <2> DEFINE c == m.current
             stable == [ground EXCEPT !.st = "Stable"]
             follows == [ground EXCEPT !.follow_channel = c,
                            !.follow_pending = TRUE, !.st = "Switching"]
             ms == IF c = ground.commit_target THEN {make_confirm(ground)} ELSE {}
  <2>1. stable \in GroundType BY <1>0, GroundSettles
  <2>2. follows \in GroundType BY <1>0 DEF GroundType, GroundStates
  <2>3. ms \in SUBSET ToDrone BY <1>0, GroundMessages
  <2>4. ground_do(stable, ms, <<>>) \/ ground_do(follows, {}, <<c>>)
    BY <1>2 DEF follow_drone
  <2> HIDE DEF stable, follows, ms
  <2> QED BY <1>0, <2>1, <2>2, <2>3, <2>4, GroundSends, GroundTunes
<1>3. CASE GroundIgnores
  BY <1>3 DEF GroundIgnores, GroundSideOK
<1> QED BY <1>1, <1>2, <1>3 DEF Ground_on_status

\* enter_recovery keeps the types, and the scan names channels only.
LEMMA RecoveryType ==
    ASSUME NEW g \in GroundType
    PROVE  /\ enter_recovery(g) \in GroundType
           /\ recov_channel(g) \in AnyChannel
<1>1. enter_recovery(g) \in GroundType
  <2>1. \A i \in 0..3, t \in Timers, c \in AnyChannel :
          [g EXCEPT !.st = "Recovery", !.recov_idx = i, !.recov_next = t,
                    !.current = c] \in GroundType
    BY ZenonT(60) DEF GroundType, GroundStates
  <2>2. 0 \in 0..3 OBVIOUS
  <2> QED BY <2>1, <2>2, TimerParams, ChannelType DEF enter_recovery
<1>2. /\ g.recov_idx \in 0..3
      /\ g.commit_target \in AnyChannel /\ g.commit_rescue \in AnyChannel
  BY DEF GroundType
<1>3. recov_channel(g) \in AnyChannel
  BY <1>2, ChannelType DEF recov_channel
<1> QED BY <1>1, <1>3

\* MigProposer::maybe_confirm keeps the types.
LEMMA MaybeConfirmType ==
    ASSUME GroundSideOK, NEW g \in GroundType, maybe_confirm(g)
    PROVE  GroundSideOK'
<1> DEFINE h == [g EXCEPT !.verified = TRUE, !.next_confirm = CommitInterval]
<1>1. h \in GroundType BY TimerParams DEF GroundType
<1>2. {make_confirm(g)} \in SUBSET ToDrone BY GroundMessages
<1>3. ground_do(h, {make_confirm(g)}, <<>>) \/ ground_do(g, {}, <<>>)
  BY DEF maybe_confirm
<1> HIDE DEF h
<1> QED BY <1>1, <1>2, <1>3, GroundSends

\* MigProposer::on_marker keeps the types.
LEMMA OnMarkerType ==
    ASSUME GroundSideOK, NEW m \in Markers, Ground_on_marker(m)
    PROVE  GroundSideOK'
<1>0. ground \in GroundType /\ m.aired_on \in AnyChannel
  BY DEF GroundSideOK, Markers
<1>1. CASE maybe_confirm([ground EXCEPT !.got_gen_marker = TRUE,
                            !.markers_seen = Count(@, VerifyMarkers)])
  <2>1. Count(ground.markers_seen, VerifyMarkers) \in Nat
    BY <1>0 DEF GroundType, Count
  <2>2. \A n \in Nat : [ground EXCEPT !.got_gen_marker = TRUE,
                            !.markers_seen = n] \in GroundType
    BY <1>0 DEF GroundType
  <2> QED BY <1>1, <2>1, <2>2, MaybeConfirmType
<1>2. CASE recover_to(m.aired_on)
  BY <1>0, <1>2, GroundEnds DEF recover_to
<1>3. CASE GroundIgnores
  BY <1>3 DEF GroundIgnores, GroundSideOK
<1> QED BY <1>1, <1>2, <1>3 DEF Ground_on_marker

\* MigProposer::on_video keeps the types.
LEMMA OnVideoType ==
    ASSUME GroundSideOK, Ground_on_video
    PROVE  GroundSideOK'
<1>0. ground \in GroundType BY DEF GroundSideOK
<1>1. CASE maybe_confirm([ground EXCEPT !.video_seen = Count(@, VerifyVideo)])
  <2>1. Count(ground.video_seen, VerifyVideo) \in Nat
    BY <1>0 DEF GroundType, Count
  <2>2. \A n \in Nat : [ground EXCEPT !.video_seen = n] \in GroundType
    BY <1>0 DEF GroundType
  <2> QED BY <1>1, <2>1, <2>2, MaybeConfirmType
<1>2. CASE recover_to(recov_channel(ground))
  BY <1>0, <1>2, RecoveryType, GroundEnds DEF recover_to
<1>3. CASE GroundIgnores
  BY <1>3 DEF GroundIgnores, GroundSideOK
<1> QED BY <1>1, <1>2, <1>3 DEF Ground_on_video

\* MigProposer::on_abort keeps the types.
LEMMA OnAbortType ==
    ASSUME GroundSideOK, NEW m \in Aborts, Ground_on_abort(m)
    PROVE  GroundSideOK'
<1>0. ground \in GroundType BY DEF GroundSideOK
<1>1. CASE ground_do([ground EXCEPT !.st = "Stable", !.current = Source], {}, <<>>)
  BY <1>1, ChannelType, GroundEnds
<1>2. CASE ground_do(enter_recovery(ground), {},
                     <<recov_channel(enter_recovery(ground))>>)
  <2> DEFINE h == enter_recovery(ground)
  <2>1. h \in GroundType /\ recov_channel(h) \in AnyChannel BY <1>0, RecoveryType
  <2>2. {} \in SUBSET ToDrone OBVIOUS
  <2>3. ground_do(h, {}, <<recov_channel(h)>>) BY <1>2
  <2> HIDE DEF h
  <2> QED BY <2>1, <2>2, <2>3, GroundTunes
<1> QED BY <1>1, <1>2 DEF Ground_on_abort

\* The type byte of a frame to the ground tells its kind.
LEMMA GroundKinds ==
    ASSUME NEW m \in ToGround
    PROVE  /\ m.type = "COMMIT" => m \in Commits
           /\ m.type = "STATUS" => m \in Statuses
           /\ m.type = "MARKER" => m \in Markers
           /\ m.type = "ABORT"  => m \in Aborts
BY DEF ToGround, Commits, Statuses, Markers, Aborts, Videos

\* Whatever frame the ground handles, the types are kept.
LEMMA GroundMessageType ==
    ASSUME GroundSideOK, NEW m \in ToGround, Ground_on_message(m)
    PROVE  GroundSideOK'
<1>1. CASE m.type = "COMMIT" /\ Ground_on_commit(m)
  BY <1>1, GroundKinds, OnCommitType
<1>2. CASE m.type = "STATUS" /\ Ground_on_status(m)
  BY <1>2, GroundKinds, OnStatusType
<1>3. CASE m.type = "MARKER" /\ Ground_on_marker(m)
  BY <1>3, GroundKinds, OnMarkerType
<1>4. CASE m.type = "ABORT" /\ Ground_on_abort(m)
  BY <1>4, GroundKinds, OnAbortType
<1>5. CASE m.type = "VIDEO" /\ Ground_on_video
  BY <1>5, OnVideoType
<1> QED BY <1>1, <1>2, <1>3, <1>4, <1>5 DEF Ground_on_message

\* MigProposer::on_tick keeps the types.
LEMMA GroundTickType ==
    ASSUME GroundSideOK, Ground_on_tick
    PROVE  GroundSideOK'
<1>0. ground \in GroundType BY DEF GroundSideOK
<1>1. CASE tick_proposed
  <2> DEFINE stable == [ground EXCEPT !.st = "Stable", !.current = Source]
             again == [ground EXCEPT !.tries = @ + 1, !.next_send = ProposalInterval]
  <2>1. stable \in GroundType BY <1>0, ChannelType, GroundSettles
  <2>2. ground.tries + 1 \in Nat BY <1>0 DEF GroundType
  <2>3. \A n \in Nat, t \in Timers :
          [ground EXCEPT !.tries = n, !.next_send = t] \in GroundType
    BY <1>0 DEF GroundType
  <2>4. again \in GroundType BY <2>2, <2>3, TimerParams
  <2>5. {make_proposal(ground)} \in SUBSET ToDrone BY <1>0, GroundMessages
  <2>6. ground_do(stable, {}, <<>>) \/ ground_do(again, {make_proposal(ground)}, <<>>)
    BY <1>1 DEF tick_proposed
  <2> HIDE DEF stable, again
  <2> QED BY <2>1, <2>4, <2>5, <2>6, GroundSends
<1>2. CASE tick_committed(ground)
  BY <1>0, <1>2, TickCommittedType
<1>3. CASE tick_verifying
  <2> DEFINE confirm == ground.verified /\ ground.next_confirm = 0
             expired == ground.follow_deadline = 0
             g == IF confirm THEN [ground EXCEPT !.next_confirm = CommitInterval]
                             ELSE ground
             ms == IF confirm THEN {make_confirm(ground)} ELSE {}
  <2>1. g \in GroundType BY <1>0, TimerParams DEF GroundType
  <2>2. ms \in SUBSET ToDrone BY <1>0, GroundMessages
  <2>3. \/ ground_do(enter_recovery(g), ms, <<recov_channel(enter_recovery(g))>>)
        \/ ground_do(g, ms, <<>>)
    BY <1>3 DEF tick_verifying
  <2> HIDE DEF g, ms
  <2> QED BY <2>1, <2>2, <2>3, RecoveryType, GroundSends, GroundTunes
<1>4. CASE tick_recovery
  <2> DEFINE g == [ground EXCEPT !.recov_idx = (@ + 1) % 4,
                                 !.recov_next = RecoveryDwell]
  <2>1. (ground.recov_idx + 1) % 4 \in 0..3 BY <1>0 DEF GroundType
  <2>2. \A i \in 0..3, t \in Timers :
          [ground EXCEPT !.recov_idx = i, !.recov_next = t] \in GroundType
    BY <1>0 DEF GroundType
  <2>3. g \in GroundType BY <2>1, <2>2, TimerParams
  <2>4. ground_do(g, {}, <<recov_channel(g)>>) BY <1>4 DEF tick_recovery
  <2> HIDE DEF g
  <2> QED BY <2>3, <2>4, RecoveryType, GroundTunes
<1> QED BY <1>1, <1>2, <1>3, <1>4 DEF Ground_on_tick

\* A retune of the ground, and on_retune_done, keep the types.
LEMMA GroundRetuneType ==
    ASSUME GroundSideOK, ground_retune
    PROVE  GroundSideOK'
<1>0. ground \in GroundType BY DEF GroundSideOK
<1>1. Ground_on_retune_done(ground) \in GroundType
  BY ZenonT(60), <1>0 DEF Ground_on_retune_done, GroundType, GroundStates
<1>2. gtodo # <<>> => Head(gtodo) \in AnyChannel /\ Tail(gtodo) \in Seq(AnyChannel)
  BY DEF GroundSideOK
<1> QED BY <1>1, <1>2 DEF GroundSideOK, ground_retune

\* A new ground process is well typed.
LEMMA NewGroundType == \A e \in Epochs : NewGround(e) \in GroundType
<1>2. NoNonce \in AnyNonce BY DEF AnyNonce
<1>3. 0 \in 0..3 OBVIOUS
<1> QED BY <1>2, <1>3, ZeroType, TimerParams, ChannelType
        DEF NewGround, GroundType, GroundStates

\* A restart of the ground keeps the types.
LEMMA GroundRestartType ==
    ASSUME GroundSideOK, Ground_restart
    PROVE  GroundSideOK'
<1>1. ground.epoch + 1 \in Epochs BY DEF GroundSideOK, GroundType, Epochs
<1>2. NewGround(ground.epoch + 1) \in GroundType BY <1>1, NewGroundType
<1> QED BY <1>2, ChannelType DEF GroundSideOK, Ground_restart

\* Time passing keeps the ground in its types.
LEMMA GroundElapseType ==
    ASSUME NEW g \in GroundType
    PROVE  GroundElapse(g) \in GroundType
<1>1. ASSUME NEW a \in Timers, NEW b \in Timers, NEW c \in Timers,
             NEW d \in Timers, NEW e \in Timers, NEW f \in Timers, NEW h \in Timers
      PROVE  [g EXCEPT !.next_send = a, !.retune_at = b, !.next_status = c,
                  !.follow_deadline = d, !.blank_until = e, !.next_confirm = f,
                  !.recov_next = h] \in GroundType
  BY Zenon DEF GroundType
<1>2. /\ g.next_send \in Timers /\ g.retune_at \in Timers
      /\ g.next_status \in Timers /\ g.follow_deadline \in Timers
      /\ g.blank_until \in Timers /\ g.next_confirm \in Timers
      /\ g.recov_next \in Timers
  BY DEF GroundType
<1> QED BY ZenonT(60), <1>1, <1>2, TimerType DEF GroundElapse
==============================================================================
