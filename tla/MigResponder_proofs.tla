------------------------- MODULE MigResponder_proofs -------------------------
(***************************************************************************)
(* Every step of the drone keeps the drone's part of the state in its      *)
(* types.                                                                  *)
(***************************************************************************)
EXTENDS MigResponder, MigWire_proofs

DroneSideOK ==
    /\ drone \in DroneType
    /\ dtodo \in Seq(HostOps)
    /\ gq \in SUBSET ToGround
    /\ gradio \in AnyChannel /\ dradio \in AnyChannel

\* drone_do keeps the types if a handler hands it well-typed actions.
LEMMA DroneDoType ==
    ASSUME DroneSideOK,
           NEW d \in DroneType, NEW ms \in SUBSET ToGround,
           NEW ops \in Seq(HostOps), drone_do(d, ms, ops)
    PROVE  DroneSideOK'
BY DEF DroneSideOK, drone_do, Heard

\* A host operation keeps the types if its callback returns well-typed actions.
LEMMA HostDoesType ==
    ASSUME DroneSideOK, dtodo # <<>>,
           NEW d \in DroneType, NEW ch \in AnyChannel,
           NEW ms \in SUBSET ToGround, NEW ops \in Seq(HostOps),
           HostDoes(d, ch, ms, ops)
    PROVE  DroneSideOK'
<1>1. Tail(dtodo) \in Seq(HostOps) BY DEF DroneSideOK
<1> QED BY <1>1 DEF DroneSideOK, HostDoes

\* The host operations handlers ask for are host operations.
LEMMA HostOpTypes ==
    /\ <<>> \in Seq(HostOps)
    /\ StartDrain \in Seq(HostOps) /\ SampleNow \in Seq(HostOps)
    /\ \A c \in AnyChannel : retune(c) \in Seq(HostOps)
    /\ \A c \in AnyChannel, m \in Statuses \cup Aborts :
          RetuneThenSend(c, m) \in Seq(HostOps)
<1>1. ASSUME NEW o \in HostOps PROVE <<o>> \in Seq(HostOps) OBVIOUS
<1>2. /\ [op |-> "drain", ch |-> NoChannel, after |-> NoFrame] \in HostOps
      /\ [op |-> "sample", ch |-> NoChannel, after |-> NoFrame] \in HostOps
  BY ChannelType DEF HostOps
<1>3. \A c \in AnyChannel, m \in Statuses \cup Aborts \cup {NoFrame} :
        [op |-> "retune", ch |-> c, after |-> m] \in HostOps
  BY DEF HostOps
<1>4. StartDrain \in Seq(HostOps) /\ SampleNow \in Seq(HostOps)
  BY <1>1, <1>2, Zenon DEF StartDrain, SampleNow
<1>5. ASSUME NEW c \in AnyChannel, NEW m \in Statuses \cup Aborts
      PROVE  retune(c) \in Seq(HostOps) /\ RetuneThenSend(c, m) \in Seq(HostOps)
  BY <1>1, <1>3, Zenon DEF retune, RetuneThenSend
<1>6. ASSUME NEW c \in AnyChannel PROVE retune(c) \in Seq(HostOps)
  BY <1>1, <1>3, Zenon DEF retune
<1>7. <<>> \in Seq(HostOps) OBVIOUS
<1> QED BY <1>4, <1>5, <1>6, <1>7

\* The messages the drone builds are of their kinds.
LEMMA DroneMessages ==
    ASSUME NEW d \in DroneType, NEW n \in Gens, NEW why \in Reasons, NEW e \in {0, 1}
    PROVE  /\ make_status(d) \in Statuses /\ status_reject(d, n, why) \in Statuses
           /\ abort_msg(d, e) \in Aborts /\ make_commit(d) \in Commits
<1>1. NoNonce \in AnyNonce BY DEF AnyNonce
<1>2. make_status(d) \in Statuses /\ status_reject(d, n, why) \in Statuses
  BY <1>1 DEF DroneType, DroneStates, MigState, Reasons, Statuses, make_status,
              status_reject
<1>3. abort_msg(d, e) \in Aborts BY DEF DroneType, Aborts, abort_msg
<1>4. make_commit(d) \in Commits BY DEF DroneType, Commits, make_commit
<1> QED BY <1>2, <1>3, <1>4

\* What the drone builds may be aired to the ground.
LEMMA DroneAirs == Statuses \cup Aborts \cup Commits \subseteq ToGround
BY DEF ToGround

\* fallback_channel names a channel.
LEMMA FallbackType ==
    ASSUME NEW d \in DroneType
    PROVE  fallback_channel(d) \in AnyChannel
BY DEF fallback_channel, DroneType

\* MigResponder::enter_committed keeps the types.
LEMMA EnterCommittedType ==
    ASSUME NEW d \in DroneType
    PROVE  enter_committed(d) \in DroneType
<1>1. Countdown \in Int /\ Countdown + RollbackTime \in Timers
  BY ParamsAssumption DEF ParamsAssumption, Timers
<1>2. DroneNonce(d.epoch, d.gen) \in AnyNonce
  BY NonceType DEF DroneType
<1>3. ASSUME NEW n \in AnyNonce, NEW a \in Int, NEW r \in Timers,
             NEW k \in Timers, NEW c \in Timers, NEW s \in Timers
      PROVE  [d EXCEPT !.drone_nonce = n, !.activate = a,
                !.rollback_deadline = r, !.armed = FALSE, !.ack_deadline = k,
                !.next_commit = c, !.next_status = s,
                !.st = "Committed"] \in DroneType
  BY Zenon DEF DroneType, DroneStates
<1> QED BY <1>1, <1>2, <1>3, TimerParams, Zenon DEF enter_committed

\* MigResponder::enter_probe keeps the types.
LEMMA EnterProbeType ==
    ASSUME NEW d \in DroneType
    PROVE  enter_probe(d) \in DroneType
BY Zenon DEF enter_probe, DroneType, DroneStates, ProbePhases

\* Storing a proposal keeps the types.
LEMMA StashType ==
    ASSUME NEW d \in DroneType, NEW m \in Proposals
    PROVE  StashProposal(d, m) \in DroneType
<1>1. /\ m.generation \in Gens /\ m.ground_epoch \in Epochs
      /\ m.ground_nonce \in AnyNonce /\ m.target \in AnyChannel
      /\ m.source \in AnyChannel /\ m.rescue \in AnyChannel
      /\ m.fallback_mode \in {0, 1}
  BY DEF Proposals
<1> QED BY <1>1, Zenon DEF StashProposal, DroneType

\* The replay window may be replaced by any replay window.
LEMMA DroneWindowType ==
    ASSUME NEW d \in DroneType, NEW rw \in ReplayWindow
    PROVE  [d EXCEPT !.rw = rw] \in DroneType
BY Zenon DEF DroneType

\* The fresh case of on_proposal keeps the types.
LEMMA FreshType ==
    ASSUME DroneSideOK, NEW d \in DroneType, NEW m \in Proposals, FreshProposal(d, m)
    PROVE  DroneSideOK'
<1> DEFINE taken == [d EXCEPT !.rw = take_generation(@, m.generation)]
           why   == RefusalOf(d, m)
           s     == StashProposal(taken, m)
           refused == [taken EXCEPT !.rw = clear_in_flight(@)]
<1>1. m.generation \in Gens BY DEF Proposals
<1>2. d.rw \in ReplayWindow BY DEF DroneType
<1>3. taken \in DroneType BY <1>1, <1>2, ZeroType, WindowType, DroneWindowType
<1>4. why \in Reasons BY DEF RefusalOf, validate_target, Reasons
<1>5. \/ drone_do(refused, {status_reject(taken, m.generation, why)}, <<>>)
      \/ drone_do(enter_probe(s), {}, StartDrain)
      \/ drone_do(enter_committed(s), {make_commit(enter_committed(s))}, <<>>)
  BY DEF FreshProposal
<1>6. s \in DroneType
  <2> HIDE DEF taken
  <2> QED BY <1>3, StashType
<1>7. refused \in DroneType
  <2> HIDE DEF taken
  <2>1. taken.rw \in ReplayWindow BY <1>3 DEF DroneType
  <2> QED BY <1>1, <1>3, <2>1, ZeroType, WindowType, DroneWindowType
<1> HIDE DEF taken, why, s, refused
<1>8. {status_reject(taken, m.generation, why)} \in SUBSET ToGround
  BY <1>1, <1>3, <1>4, DroneMessages, DroneAirs
<1>9. enter_committed(s) \in DroneType /\ enter_probe(s) \in DroneType
  BY <1>6, EnterCommittedType, EnterProbeType
<1>10. {make_commit(enter_committed(s))} \in SUBSET ToGround
  <2>1. "None" \in Reasons BY DEF Reasons
  <2> QED BY <1>1, <1>9, <2>1, DroneMessages, DroneAirs
<1>11. {} \in SUBSET ToGround OBVIOUS
<1> QED BY <1>5, <1>7, <1>8, <1>9, <1>10, <1>11, HostOpTypes, DroneDoType

\* MigResponder::on_proposal keeps the types.
LEMMA OnProposalType ==
    ASSUME DroneSideOK, NEW m \in Proposals, Drone_on_proposal(m)
    PROVE  DroneSideOK'
<1> DEFINE d == Reconsidered(m)
           orphan == [drone EXCEPT !.phase = "None", !.st = "Rollback",
                        !.rw = clear_in_flight(accept_epoch(@, m.ground_epoch))]
           op == RetuneThenSend(drone.commit_source,
                                status_reject(drone, m.generation, "Busy"))
           again == IF d.st = "Committed" THEN {make_commit(d)} ELSE {}
<1>1. m.generation \in Gens /\ m.ground_epoch \in Epochs BY DEF Proposals
<1>2. drone \in DroneType /\ drone.rw \in ReplayWindow
      /\ drone.commit_source \in AnyChannel
  BY DEF DroneSideOK, DroneType
<1>3. accept_epoch(drone.rw, m.ground_epoch) \in ReplayWindow
  BY <1>1, <1>2, WindowType
<1>4. d \in DroneType
  <2>1. ASSUME NEW rw \in ReplayWindow
        PROVE  /\ [drone EXCEPT !.rw = rw] \in DroneType
               /\ [[drone EXCEPT !.phase = "None", !.st = "Stable"]
                     EXCEPT !.rw = rw] \in DroneType
    BY <1>2, Zenon DEF DroneType, DroneStates, Phases
  <2>2. [drone EXCEPT !.phase = "None", !.st = "Stable"].rw = drone.rw
    BY <1>2 DEF DroneType
  <2> QED BY <1>3, <2>1, <2>2 DEF Reconsidered
<1>5. orphan \in DroneType
  <2>1. ASSUME NEW rw \in ReplayWindow
        PROVE  [drone EXCEPT !.phase = "None", !.st = "Rollback", !.rw = rw] \in DroneType
    BY <1>2, Zenon DEF DroneType, DroneStates, Phases
  <2>2. clear_in_flight(accept_epoch(drone.rw, m.ground_epoch)) \in ReplayWindow
    BY <1>1, <1>3, WindowType
  <2> QED BY <2>1, <2>2
<1>6. "Busy" \in Reasons BY DEF Reasons
<1>7. op \in Seq(HostOps) BY <1>1, <1>2, <1>6, DroneMessages, HostOpTypes
<1>8. again \in SUBSET ToGround
  <2> HIDE DEF d
  <2> QED BY <1>1, <1>4, <1>6, DroneMessages, DroneAirs
<1>9. \/ drone_do(orphan, {}, op)
      \/ drone_do(d, {}, <<>>)
      \/ drone_do(d, again, <<>>)
      \/ FreshProposal(d, m)
  BY DEF Drone_on_proposal
<1>10. {} \in SUBSET ToGround OBVIOUS
<1> HIDE DEF d, orphan, op, again
<1> QED BY <1>4, <1>5, <1>7, <1>8, <1>9, <1>10, HostOpTypes, DroneDoType, FreshType

\* MigResponder::on_status keeps the types.
LEMMA DroneStatusType ==
    ASSUME DroneSideOK, NEW m, Drone_on_status(m)
    PROVE  DroneSideOK'
<1> DEFINE d == [drone EXCEPT !.armed = TRUE]
<1>1. d \in DroneType BY Zenon DEF DroneSideOK, DroneType
<1>2. {} \in SUBSET ToGround OBVIOUS
<1>3. drone_do(d, {}, <<>>) \/ DroneIgnores BY DEF Drone_on_status
<1> HIDE DEF d
<1>4. CASE DroneIgnores BY <1>4 DEF DroneIgnores, DroneSideOK
<1> QED BY <1>1, <1>2, <1>3, <1>4, HostOpTypes, DroneDoType

\* MigResponder::on_confirm keeps the types.
LEMMA OnConfirmType ==
    ASSUME DroneSideOK, NEW m, Drone_on_confirm(m)
    PROVE  DroneSideOK'
<1> DEFINE d == [drone EXCEPT !.st = "Stable", !.current = drone.commit_target,
                              !.settle_status = SettleStatus,
                              !.next_status = 0, !.markers_on = FALSE]
<1>1. drone \in DroneType /\ drone.commit_target \in AnyChannel
  BY DEF DroneSideOK, DroneType
<1>2. d \in DroneType BY <1>1, TimerParams, Zenon DEF DroneType, DroneStates
<1>3. {} \in SUBSET ToGround OBVIOUS
<1>4. drone_do(d, {}, <<>>) \/ DroneIgnores BY DEF Drone_on_confirm
<1> HIDE DEF d
<1>5. CASE DroneIgnores BY <1>5 DEF DroneIgnores, DroneSideOK
<1> QED BY <1>2, <1>3, <1>4, <1>5, HostOpTypes, DroneDoType

\* Whatever frame the drone handles, the types are kept.
LEMMA DroneMessageType ==
    ASSUME DroneSideOK, NEW m \in ToDrone, Drone_on_message(m)
    PROVE  DroneSideOK'
<1>1. m.type = "PROPOSAL" => m \in Proposals
  BY DEF ToDrone, Proposals, Statuses, Confirms
<1> QED BY <1>1, OnProposalType, DroneStatusType, OnConfirmType DEF Drone_on_message

\* The periodic status keeps the types.
LEMMA AfterStatusType ==
    ASSUME drone \in DroneType
    PROVE  AfterStatus \in DroneType /\ StatusMsgs \in SUBSET ToGround
<1>1. [drone EXCEPT !.next_status = StatusInterval] \in DroneType
  BY TimerParams, Zenon DEF DroneType
<1>2. make_status(drone) \in ToGround
  <2>1. "None" \in Reasons BY DEF Reasons
  <2> QED BY <2>1, ZeroType, DroneMessages, DroneAirs
<1> QED BY <1>1, <1>2, Zenon DEF AfterStatus, StatusMsgs

\* MigResponder::on_tick keeps the types.
LEMMA DroneTickType ==
    ASSUME DroneSideOK, Drone_on_tick
    PROVE  DroneSideOK'
<1> DEFINE a == AfterStatus
           ms == StatusMsgs
<1>1. /\ drone \in DroneType /\ drone.commit_target \in AnyChannel
      /\ fallback_channel(drone) \in AnyChannel
  BY FallbackType DEF DroneSideOK, DroneType
<1>2. a \in DroneType /\ ms \in SUBSET ToGround BY <1>1, AfterStatusType
<1>3. abort_msg(drone, 0) \in ToGround /\ make_commit(drone) \in ToGround
  <2>1. "None" \in Reasons BY DEF Reasons
  <2> QED BY <1>1, <2>1, ZeroType, DroneMessages, DroneAirs
<1>4. CASE GiveUpUnheard
  <2> DEFINE d == [a EXCEPT !.st = "Stable", !.settle_status = SettleStatus,
                            !.next_status = 0, !.rw = clear_in_flight(@)]
  <2>1. drone_do(d, ms \cup {abort_msg(drone, 0)}, <<>>)
    BY <1>4 DEF GiveUpUnheard
  <2> HIDE DEF a, ms
  <2>2. a.rw \in ReplayWindow BY <1>2 DEF DroneType
  <2>3. clear_in_flight(a.rw) \in ReplayWindow BY <2>2, ZeroType, WindowType
  <2>4. d \in DroneType BY <1>2, <2>3, TimerParams, Zenon DEF DroneType, DroneStates
  <2>5. ms \cup {abort_msg(drone, 0)} \in SUBSET ToGround BY <1>2, <1>3
  <2> HIDE DEF d
  <2> QED BY <2>1, <2>4, <2>5, HostOpTypes, DroneDoType
<1>5. CASE RepeatOrSwitch
  <2> DEFINE r == IF RepeatDue THEN [a EXCEPT !.next_commit = CommitInterval] ELSE a
             d == IF SwitchDue
                  THEN [r EXCEPT !.st = "Switching", !.phase = "Draining",
                            !.pump_on = FALSE, !.drain_deadline = DrainDeadline]
                  ELSE r
             cs == IF RepeatDue THEN {make_commit(drone)} ELSE {}
             ops == IF SwitchDue THEN StartDrain ELSE <<>>
  <2>1. drone_do(d, ms \cup cs, ops) BY <1>5 DEF RepeatOrSwitch
  <2>2. r \in DroneType
    <3> HIDE DEF a
    <3> QED BY <1>2, TimerParams, Zenon DEF DroneType
  <2>3. d \in DroneType
    <3> HIDE DEF r
    <3> QED BY <2>2, TimerParams, ZenonT(60) DEF DroneType, DroneStates, Phases
  <2>4. ops \in Seq(HostOps) BY HostOpTypes
  <2>5. ms \cup cs \in SUBSET ToGround BY <1>2, <1>3
  <2> HIDE DEF d, ms, cs, ops
  <2> QED BY <2>1, <2>3, <2>4, <2>5, DroneDoType
<1>6. CASE DrainStalled
  <2> DEFINE d == [a EXCEPT !.phase = "Retuning"]
  <2>1. drone_do(d, ms, retune(drone.commit_target)) BY <1>6 DEF DrainStalled
  <2> HIDE DEF a, ms
  <2>2. d \in DroneType BY <1>2, Zenon DEF DroneType, Phases
  <2> HIDE DEF d
  <2> QED BY <1>1, <1>2, <2>1, <2>2, HostOpTypes, DroneDoType
<1>7. CASE RollBack
  <2> DEFINE d == [a EXCEPT !.st = "Rollback", !.markers_on = FALSE]
  <2>1. drone_do(d, ms, retune(fallback_channel(drone))) BY <1>7 DEF RollBack
  <2> HIDE DEF a, ms
  <2>2. d \in DroneType BY <1>2, Zenon DEF DroneType, DroneStates
  <2> HIDE DEF d
  <2> QED BY <1>1, <1>2, <2>1, <2>2, HostOpTypes, DroneDoType
<1>8. CASE StatusOnly
  <2>1. drone_do(a, ms, <<>>) BY <1>8 DEF StatusOnly
  <2> HIDE DEF a, ms
  <2> QED BY <1>2, <2>1, HostOpTypes, DroneDoType
<1> QED BY <1>4, <1>5, <1>6, <1>7, <1>8 DEF Drone_on_tick

\* MigResponder::on_drain_done keeps the types.
LEMMA DrainDoneType ==
    ASSUME DroneSideOK, on_drain_done
    PROVE  DroneSideOK'
<1> DEFINE r == [drone EXCEPT !.phase = "Retuning"]
           p == [drone EXCEPT !.pp = "Retune"]
           ops == retune(drone.commit_target)
<1>1. drone \in DroneType /\ drone.commit_target \in AnyChannel /\ dradio \in AnyChannel
  BY DEF DroneSideOK, DroneType
<1>2. r \in DroneType /\ p \in DroneType
  BY <1>1, Zenon DEF DroneType, Phases, ProbePhases
<1>3. ops \in Seq(HostOps) BY <1>1, HostOpTypes
<1>4. \/ HostDoes(r, dradio, {}, ops) \/ HostDoes(p, dradio, {}, ops)
      \/ HostDoes(drone, dradio, {}, <<>>)
  BY DEF on_drain_done
<1>5. dtodo # <<>> /\ {} \in SUBSET ToGround BY DEF on_drain_done
<1> HIDE DEF r, p, ops
<1> QED BY <1>1, <1>2, <1>3, <1>4, <1>5, HostOpTypes, HostDoesType

\* MigResponder::on_probe_sample keeps the types.
LEMMA ProbeSampleType ==
    ASSUME DroneSideOK, NEW busy \in BOOLEAN, on_probe_sample(busy)
    PROVE  DroneSideOK'
<1> DEFINE sampled == drone.st = "Validating" /\ drone.pp = "Sampling"
           d == IF sampled THEN [drone EXCEPT !.probe_veto = busy, !.pp = "Return"]
                ELSE drone
           ops == IF sampled THEN retune(drone.commit_source) ELSE <<>>
<1>1. drone \in DroneType /\ drone.commit_source \in AnyChannel /\ dradio \in AnyChannel
  BY DEF DroneSideOK, DroneType
<1>2. d \in DroneType BY <1>1, ZenonT(60) DEF DroneType, ProbePhases
<1>3. ops \in Seq(HostOps) BY <1>1, HostOpTypes
<1>4. HostDoes(d, dradio, {}, ops) /\ dtodo # <<>> BY DEF on_probe_sample
<1>5. {} \in SUBSET ToGround OBVIOUS
<1> HIDE DEF d, ops
<1> QED BY <1>1, <1>2, <1>3, <1>4, <1>5, HostDoesType

\* Where the radio ends up and what is aired behind a retune are typed.
LEMMA RetunedType ==
    ASSUME DroneSideOK, dtodo # <<>>, NEW ok \in BOOLEAN
    PROVE  Tuned(ok) \in AnyChannel /\ Behind \in SUBSET ToGround
<1>1. Head(dtodo) \in HostOps BY DEF DroneSideOK
<1>2. Head(dtodo).ch \in AnyChannel
      /\ Head(dtodo).after \in Statuses \cup Aborts \cup {NoFrame}
  BY <1>1 DEF HostOps
<1>3. dradio \in AnyChannel BY DEF DroneSideOK
<1> QED BY <1>2, <1>3, DroneAirs DEF Tuned, Behind

\* MigResponder::finish_rollback keeps the types.
LEMMA FinishRollbackType ==
    ASSUME NEW d \in DroneType
    PROVE  finish_rollback(d) \in DroneType
<1>1. d.rw \in ReplayWindow BY DEF DroneType
<1>2. clear_in_flight(d.rw) \in ReplayWindow BY <1>1, ZeroType, WindowType
<1> QED BY <1>2, TimerParams, Zenon DEF finish_rollback, DroneType, DroneStates

\* current_ may be set to any channel.
LEMMA CurrentType ==
    ASSUME NEW d \in DroneType, NEW c \in AnyChannel
    PROVE  [d EXCEPT !.current = c] \in DroneType
BY Zenon DEF DroneType

\* MigResponder::on_retune_done keeps the types, failed or not.
LEMMA DroneRetuneType ==
    ASSUME DroneSideOK, NEW ok \in BOOLEAN, Drone_on_retune_done(ok)
    PROVE  DroneSideOK'
<1> DEFINE t == Tuned(ok)
           bs == Behind
           fb == fallback_channel(drone)
<1>1. /\ drone \in DroneType /\ drone.commit_target \in AnyChannel
      /\ drone.commit_source \in AnyChannel /\ drone.commit_rescue \in AnyChannel
      /\ fb \in AnyChannel /\ drone.gen \in Gens
  BY FallbackType DEF DroneSideOK, DroneType
<1>2. dtodo # <<>> BY DEF Drone_on_retune_done
<1>3. t \in AnyChannel /\ bs \in SUBSET ToGround BY <1>2, RetunedType
<1>4. CASE ActivationRetuned(ok)
  <2> DEFINE d == [drone EXCEPT !.current = drone.commit_target,
                     !.st = "Verifying", !.markers_on = TRUE,
                     !.marker_ch = drone.commit_target, !.pump_on = TRUE]
             f == [drone EXCEPT !.phase = "RollbackRetune", !.current = fb]
  <2>1. HostDoes(d, t, bs, <<>>) \/ HostDoes(f, t, bs, retune(fb))
    BY <1>4 DEF ActivationRetuned
  <2> HIDE DEF t, bs, fb
  <2>2. d \in DroneType BY <1>1, Zenon DEF DroneType, DroneStates
  <2>3. f \in DroneType BY <1>1, Zenon DEF DroneType, Phases
  <2> HIDE DEF d, f
  <2> QED BY <1>1, <1>2, <1>3, <2>1, <2>2, <2>3, HostOpTypes, HostDoesType
<1>5. CASE FallbackRetuned(ok)
  <2> DEFINE d == finish_rollback([drone EXCEPT !.current = fb])
             f == [drone EXCEPT !.current = drone.commit_rescue,
                                !.st = "Stable", !.hold_down = HoldDown]
             ops == RetuneThenSend(drone.commit_rescue, abort_msg(drone, 1))
  <2>1. HostDoes(d, t, bs, <<>>) \/ HostDoes(f, t, bs, ops)
    BY <1>5 DEF FallbackRetuned
  <2> HIDE DEF t, bs, fb
  <2>2. d \in DroneType BY <1>1, CurrentType, FinishRollbackType
  <2>3. f \in DroneType BY <1>1, TimerParams, Zenon DEF DroneType, DroneStates
  <2>4. abort_msg(drone, 1) \in Aborts
    <3>1. "None" \in Reasons BY DEF Reasons
    <3> QED BY <1>1, <3>1, DroneMessages
  <2>5. ops \in Seq(HostOps) BY <1>1, <2>4, HostOpTypes
  <2> HIDE DEF d, f, ops
  <2> QED BY <1>2, <1>3, <2>1, <2>2, <2>3, <2>5, HostOpTypes, HostDoesType
<1>6. CASE RollbackRetuned(ok)
  <2> DEFINE d == finish_rollback([drone EXCEPT !.current = fb])
  <2>1. HostDoes(d, t, bs, <<>>) BY <1>6 DEF RollbackRetuned
  <2> HIDE DEF t, bs, fb
  <2>2. d \in DroneType BY <1>1, CurrentType, FinishRollbackType
  <2> HIDE DEF d
  <2> QED BY <1>2, <1>3, <2>1, <2>2, HostOpTypes, HostDoesType
<1>7. CASE ProbeReached(ok)
  <2> DEFINE d == [drone EXCEPT !.current = drone.commit_target, !.pp = "Sampling"]
             f == [drone EXCEPT !.probe_veto = TRUE, !.pp = "Return"]
  <2>1. \/ HostDoes(d, t, bs, SampleNow)
        \/ HostDoes(f, t, bs, retune(drone.commit_source))
    BY <1>7 DEF ProbeReached
  <2> HIDE DEF t, bs
  <2>2. d \in DroneType /\ f \in DroneType BY <1>1, Zenon DEF DroneType, ProbePhases
  <2> HIDE DEF d, f
  <2> QED BY <1>1, <1>2, <1>3, <2>1, <2>2, HostOpTypes, HostDoesType
<1>8. CASE ProbeReturned(ok)
  <2> DEFINE c == IF ok THEN drone.commit_source ELSE drone.commit_rescue
             back == [drone EXCEPT !.pp = "None", !.pump_on = TRUE, !.current = c]
             refused == [back EXCEPT !.st = "Stable", !.rw = clear_in_flight(@)]
             e == enter_committed(back)
  <2>1. \/ HostDoes(refused, t, bs \cup {status_reject(refused, drone.gen, "RetuneFail")}, <<>>)
        \/ HostDoes(refused, t, bs \cup {status_reject(refused, drone.gen, "Veto")}, <<>>)
        \/ HostDoes(e, t, bs \cup {make_commit(e)}, <<>>)
    BY <1>8 DEF ProbeReturned
  <2> HIDE DEF t, bs
  <2>2. c \in AnyChannel BY <1>1
  <2> HIDE DEF c
  <2>3. back \in DroneType BY <1>1, <2>2, Zenon DEF DroneType, ProbePhases
  <2> HIDE DEF back
  <2>4. clear_in_flight(back.rw) \in ReplayWindow
    BY <2>3, ZeroType, WindowType DEF DroneType
  <2>5. refused \in DroneType BY <2>3, <2>4, Zenon DEF DroneType, DroneStates
  <2>6. e \in DroneType BY <2>3, EnterCommittedType
  <2> HIDE DEF refused, e
  <2>7. {"RetuneFail", "Veto"} \subseteq Reasons BY DEF Reasons
  <2>8. /\ status_reject(refused, drone.gen, "RetuneFail") \in ToGround
        /\ status_reject(refused, drone.gen, "Veto") \in ToGround
        /\ make_commit(e) \in ToGround
    BY <1>1, <2>5, <2>6, <2>7, DroneMessages, DroneAirs
  <2>9. /\ bs \cup {status_reject(refused, drone.gen, "RetuneFail")} \in SUBSET ToGround
        /\ bs \cup {status_reject(refused, drone.gen, "Veto")} \in SUBSET ToGround
        /\ bs \cup {make_commit(e)} \in SUBSET ToGround
    BY <1>3, <2>8
  <2> QED BY <1>2, <1>3, <2>1, <2>5, <2>6, <2>9, HostOpTypes, HostDoesType
<1>9. CASE RetuneUnasked(ok)
  <2>1. HostDoes(drone, t, bs, <<>>) BY <1>9 DEF RetuneUnasked
  <2> HIDE DEF t, bs
  <2> QED BY <1>1, <1>2, <1>3, <2>1, HostOpTypes, HostDoesType
<1> QED BY <1>4, <1>5, <1>6, <1>7, <1>8, <1>9 DEF Drone_on_retune_done

\* A new drone process is well typed.
LEMMA NewDroneType ==
    ASSUME NEW e \in Epochs
    PROVE  NewDrone(e) \in DroneType
<1>1. NoNonce \in AnyNonce BY DEF AnyNonce
<1>2. NewWindow \in ReplayWindow BY ZeroType DEF NewWindow, ReplayWindow
<1>3. 0 \in {0, 1} /\ 0 \in Int OBVIOUS
<1> QED BY <1>1, <1>2, <1>3, ZeroType, TimerParams, ChannelType, Zenon
        DEF NewDrone, DroneType, DroneStates, Phases, ProbePhases

\* A restart of the drone keeps the types.
LEMMA DroneRestartType ==
    ASSUME DroneSideOK, Drone_restart
    PROVE  DroneSideOK'
<1>1. drone.epoch + 1 \in Epochs BY DEF DroneSideOK, DroneType, Epochs
<1>2. NewDrone(drone.epoch + 1) \in DroneType BY <1>1, NewDroneType
<1> QED BY <1>2, ChannelType DEF DroneSideOK, Drone_restart

\* Time passing keeps the drone in its types.
LEMMA DroneElapseType ==
    ASSUME NEW d \in DroneType
    PROVE  DroneElapse(d) \in DroneType
<1>1. ASSUME NEW i \in Int, NEW a \in Timers, NEW b \in Timers, NEW c \in Timers,
             NEW e \in Timers, NEW f \in Timers, NEW g \in Timers, NEW h \in Timers
      PROVE  [d EXCEPT !.activate = i, !.rollback_deadline = a, !.ack_deadline = b,
                  !.next_commit = c, !.hold_down = e, !.next_status = f,
                  !.settle_status = g, !.drain_deadline = h] \in DroneType
  BY Zenon DEF DroneType
<1>2. /\ d.rollback_deadline \in Timers /\ d.ack_deadline \in Timers
      /\ d.next_commit \in Timers /\ d.hold_down \in Timers
      /\ d.next_status \in Timers /\ d.settle_status \in Timers
      /\ d.drain_deadline \in Timers /\ d.activate \in Int
  BY DEF DroneType
<1>3. (IF d.activate < 0 THEN d.activate ELSE d.activate - 1) \in Int BY <1>2
<1> QED BY ZenonT(60), <1>1, <1>2, <1>3, TimerType DEF DroneElapse
==============================================================================
