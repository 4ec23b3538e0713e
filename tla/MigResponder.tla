---------------------------- MODULE MigResponder -----------------------------
(***************************************************************************)
(* The drone: class MigResponder and the host loop that executes its       *)
(* actions (drone_do).  Draining, tuning and probing are host operations:  *)
(* a handler asks for one by appending it to dtodo, and drone_host         *)
(* performs the first one and makes the callback.  A retune may have a     *)
(* message behind it in the handler's action list; it is aired once the    *)
(* radio has moved ("after").                                              *)
(***************************************************************************)
EXTENDS MigWire

CONSTANTS
    Probe       \* caps.probe: look at the target before committing

ASSUME ProbeAssumption == Probe \in BOOLEAN

VARIABLES
    drone,      \* the members of MigResponder and the host's two switches
    dtodo       \* host operations asked for and not yet performed

droneVars == <<drone, dtodo>>

DroneStates == {"Stable", "Validating", "Committed", "Switching", "Verifying",
                "Rollback"}
Phases      == {"None", "Draining", "Retuning", "RollbackRetune"}
ProbePhases == {"None", "Drain", "Retune", "Sampling", "Return"}

NoFrame == [type |-> "NONE"]

HostOps == [op : {"drain", "retune", "sample"}, ch : AnyChannel,
            after : Statuses \cup Aborts \cup {NoFrame}]

DroneType ==
    [epoch : Epochs, st : DroneStates, phase : Phases, pp : ProbePhases,
     current : AnyChannel, rw : ReplayWindow,
     gen : Gens, ground_epoch : Epochs, ground_nonce : AnyNonce,
     drone_nonce : AnyNonce, commit_target : AnyChannel,
     commit_source : AnyChannel, commit_rescue : AnyChannel,
     fallback_mode : {0, 1}, armed : BOOLEAN,
     activate : Int, rollback_deadline : Timers,
     ack_deadline : Timers, next_commit : Timers, hold_down : Timers,
     next_status : Timers, settle_status : Timers, drain_deadline : Timers,
     probe_veto : BOOLEAN,
     markers_on : BOOLEAN, marker_ch : AnyChannel, pump_on : BOOLEAN]

\* A drone process that has just started, with a fresh random epoch.
NewDrone(epoch) ==
    [epoch |-> epoch, st |-> "Stable", phase |-> "None", pp |-> "None",
     current |-> Source, rw |-> NewWindow,
     gen |-> 0, ground_epoch |-> 0, ground_nonce |-> NoNonce,
     drone_nonce |-> NoNonce, commit_target |-> NoChannel,
     commit_source |-> NoChannel, commit_rescue |-> NoChannel,
     fallback_mode |-> 0, armed |-> FALSE,
     activate |-> 0, rollback_deadline |-> 0,
     ack_deadline |-> 0, next_commit |-> 0, hold_down |-> 0,
     next_status |-> 0, settle_status |-> 0, drain_deadline |-> 0,
     probe_veto |-> FALSE,
     markers_on |-> FALSE, marker_ch |-> NoChannel, pump_on |-> TRUE]

DroneInit ==
    /\ drone = NewDrone(1)
    /\ dtodo = <<>>

retune(c) == <<[op |-> "retune", ch |-> c, after |-> NoFrame]>>
RetuneThenSend(c, m) == <<[op |-> "retune", ch |-> c, after |-> m]>>
StartDrain == <<[op |-> "drain", ch |-> NoChannel, after |-> NoFrame]>>
SampleNow  == <<[op |-> "sample", ch |-> NoChannel, after |-> NoFrame]>>

(***************************************************************************)
(* Messages.  The host stamps tx_tsf when it airs a frame, so a commit     *)
(* carries the time left until activation at that moment (offset).         *)
(***************************************************************************)
status_reject(d, gen, why) ==
    [type |-> "STATUS", role |-> 1, sender_epoch |-> d.epoch,
     generation |-> gen, state |-> "Stable", current |-> d.current,
     reason |-> why, peer_nonce_echo |-> NoNonce]

make_status(d) ==
    [type |-> "STATUS", role |-> 1, sender_epoch |-> d.epoch,
     generation |-> d.gen, state |-> d.st, current |-> d.current,
     reason |-> "None", peer_nonce_echo |-> NoNonce]

abort_msg(d, effective) ==
    [type |-> "ABORT", sender_epoch |-> d.epoch, generation |-> d.gen,
     effective |-> effective]

make_commit(d) ==
    [type |-> "COMMIT", drone_epoch |-> d.epoch, ground_epoch |-> d.ground_epoch,
     generation |-> d.gen, target |-> d.commit_target,
     rescue |-> d.commit_rescue, ground_nonce_echo |-> d.ground_nonce,
     drone_nonce |-> d.drone_nonce, offset |-> d.activate]

fallback_channel(d) ==
    IF d.fallback_mode = 1 THEN d.commit_rescue ELSE d.commit_source

(***************************************************************************)
(* drone_do: the host airs the messages msgs of a handler and is left with *)
(* the host operations ops.                                                *)
(***************************************************************************)
drone_do(d, msgs, ops) ==
    /\ drone' = d
    /\ dtodo' = dtodo \o ops
    /\ gq' = Heard(gq, msgs)
    /\ UNCHANGED <<gradio, dradio>>

DroneIgnores == UNCHANGED <<drone, dtodo, gq, gradio, dradio>>

------------------------------------------------------------------------------
(***************************************************************************)
(* enter_committed: fix the activation instant and send the first commit;  *)
(* nothing is armed until the ground echoes the drone's nonce.             *)
(***************************************************************************)
enter_committed(d) ==
    [d EXCEPT !.drone_nonce = DroneNonce(d.epoch, d.gen),
              !.activate = Countdown,
              !.rollback_deadline = Countdown + RollbackTime,
              !.armed = FALSE, !.ack_deadline = AckTimeout,
              !.next_commit = CommitInterval, !.next_status = StatusInterval,
              !.st = "Committed"]

enter_probe(d) ==
    [d EXCEPT !.st = "Validating", !.pp = "Drain", !.probe_veto = FALSE,
              !.pump_on = FALSE]

\* The members an accepted proposal sets.
StashProposal(d, m) ==
    [d EXCEPT !.gen = m.generation, !.ground_epoch = m.ground_epoch,
              !.ground_nonce = m.ground_nonce, !.commit_target = m.target,
              !.commit_source = m.source, !.commit_rescue = m.rescue,
              !.fallback_mode = m.fallback_mode]

validate_target(t) == IF t \in Allowed THEN "None" ELSE "IllegalTarget"

\* Why a fresh proposal is refused, in the order the code asks.
RefusalOf(d, m) ==
    IF d.st # "Stable" \/ d.hold_down # 0 THEN "Busy"
    ELSE IF m.source # d.current THEN "SourceMismatch"
    ELSE validate_target(m.target)

FreshProposal(d, m) ==
    LET taken == [d EXCEPT !.rw = take_generation(@, m.generation)]
        why   == RefusalOf(d, m)
        s     == StashProposal(taken, m)
    IN  \/ /\ why # "None"
           /\ drone_do([taken EXCEPT !.rw = clear_in_flight(@)],
                       {status_reject(taken, m.generation, why)}, <<>>)
        \/ /\ why = "None" /\ Probe
           /\ drone_do(enter_probe(s), {}, StartDrain)
        \/ /\ why = "None" /\ ~ Probe
           /\ drone_do(enter_committed(s), {make_commit(enter_committed(s))}, <<>>)

\* A ground restart seen in mid-migration.
EpochChange(m) ==
    /\ drone.rw.have_peer
    /\ m.ground_epoch # drone.rw.peer_epoch
    /\ drone.st # "Stable"

Moved(d) == d.gen # 0 /\ d.current # d.commit_source

(***************************************************************************)
(* What the drone goes on with: its migration orphaned if the epoch        *)
(* changed and it has not left the source, the epoch accepted.             *)
(***************************************************************************)
Reconsidered(m) ==
    LET d == IF EpochChange(m)
             THEN [drone EXCEPT !.phase = "None", !.st = "Stable"] ELSE drone
    IN  [d EXCEPT !.rw = accept_epoch(@, m.ground_epoch)]

Drone_on_proposal(m) ==
    LET d   == Reconsidered(m)
        cls == classify_proposal(d.rw, m.generation)
        strays == EpochChange(m) /\ Moved(drone)
    IN  \/ /\ strays
           /\ drone_do([drone EXCEPT !.phase = "None", !.st = "Rollback",
                            !.rw = clear_in_flight(accept_epoch(@, m.ground_epoch))],
                       {},
                       RetuneThenSend(drone.commit_source,
                           status_reject(drone, m.generation, "Busy")))
        \/ /\ ~ strays /\ cls = "replay"
           /\ drone_do(d, {}, <<>>)
        \/ /\ ~ strays /\ cls = "idempotent"
           /\ drone_do(d, IF d.st = "Committed" THEN {make_commit(d)} ELSE {}, <<>>)
        \/ /\ ~ strays /\ cls = "fresh"
           /\ FreshProposal(d, m)

------------------------------------------------------------------------------
\* Mutant: any acknowledgement of the generation arms.
AckMatches_AnyNonce(m) == drone.st = "Committed" /\ m.generation = drone.gen

\* The acknowledgement: a status that echoes the drone's own nonce.
AckMatches(m) ==
    /\ drone.st = "Committed"
    /\ m.peer_nonce_echo = drone.drone_nonce
    /\ m.generation = drone.gen

Drone_on_status(m) ==
    \/ AckMatches(m) /\ drone_do([drone EXCEPT !.armed = TRUE], {}, <<>>)
    \/ ~ AckMatches(m) /\ DroneIgnores

ConfirmMatches(m) ==
    /\ drone.st = "Verifying"
    /\ m.generation = drone.gen
    /\ m.drone_nonce_echo = drone.drone_nonce

\* Mutant: the drone waits in a state nothing leads out of.
Drone_on_confirm_Confirmed(m) ==
    \/ /\ ConfirmMatches(m)
       /\ drone_do([drone EXCEPT !.st = "Confirmed", !.current = drone.commit_target,
                                 !.settle_status = SettleStatus,
                                 !.next_status = 0, !.markers_on = FALSE],
                   {}, <<>>)
    \/ /\ ~ ConfirmMatches(m)
       /\ DroneIgnores

Drone_on_confirm(m) ==
    \/ /\ ConfirmMatches(m)
       /\ drone_do([drone EXCEPT !.st = "Stable", !.current = drone.commit_target,
                                 !.settle_status = SettleStatus,
                                 !.next_status = 0, !.markers_on = FALSE],
                   {}, <<>>)
    \/ /\ ~ ConfirmMatches(m)
       /\ DroneIgnores

Drone_on_message(m) ==
    \/ m.type = "PROPOSAL" /\ Drone_on_proposal(m)
    \/ m.type = "STATUS"   /\ Drone_on_status(m)
    \/ m.type = "CONFIRM"  /\ Drone_on_confirm(m)

------------------------------------------------------------------------------
(***************************************************************************)
(* on_tick: the periodic status, then the state's own deadline work.       *)
(***************************************************************************)
StatusDue ==
    /\ drone.next_status = 0
    /\ drone.st # "Stable" \/ drone.settle_status # 0
    /\ drone.gen # 0

\* Mutants: activation without an acknowledgement; no drain backstop.
SwitchDue_Unarmed == drone.st = "Committed" /\ drone.activate <= DrainDeadline
StallDue_Missed == drone.st = "Switching" /\ drone.phase = "Draining"
                     /\ drone.drain_deadline < 0

NoAckDue   == drone.st = "Committed" /\ ~ drone.armed /\ drone.ack_deadline = 0
RepeatDue  == drone.st = "Committed" /\ ~ NoAckDue /\ drone.next_commit = 0
SwitchDue  == drone.st = "Committed" /\ drone.armed
                /\ drone.activate <= DrainDeadline
StallDue   == drone.st = "Switching" /\ drone.phase = "Draining"
                /\ drone.drain_deadline = 0
ExpiryDue  == drone.st = "Verifying" /\ drone.rollback_deadline = 0

DroneDue == StatusDue \/ NoAckDue \/ RepeatDue \/ SwitchDue \/ StallDue \/ ExpiryDue

\* The members the periodic status changes, and its message.
AfterStatus == IF StatusDue THEN [drone EXCEPT !.next_status = StatusInterval]
                            ELSE drone
StatusMsgs == IF StatusDue THEN {make_status(drone)} ELSE {}

\* Never heard the ground: give up without ever activating.
GiveUpUnheard ==
    /\ NoAckDue
    /\ drone_do([AfterStatus EXCEPT !.st = "Stable",
                     !.settle_status = SettleStatus, !.next_status = 0,
                     !.rw = clear_in_flight(@)],
                StatusMsgs \cup {abort_msg(drone, 0)}, <<>>)

\* Repeat the commit and, once armed and in reach of the instant, start draining.
RepeatOrSwitch ==
    LET repeated == IF RepeatDue
                    THEN [AfterStatus EXCEPT !.next_commit = CommitInterval]
                    ELSE AfterStatus
    IN  /\ RepeatDue \/ SwitchDue
        /\ drone_do(IF SwitchDue
                    THEN [repeated EXCEPT !.st = "Switching",
                              !.phase = "Draining", !.pump_on = FALSE,
                              !.drain_deadline = DrainDeadline]
                    ELSE repeated,
                    StatusMsgs \cup IF RepeatDue THEN {make_commit(drone)} ELSE {},
                    IF SwitchDue THEN StartDrain ELSE <<>>)

\* The drain callback never came: drop what is queued and tune anyway.
DrainStalled ==
    /\ StallDue
    /\ drone_do([AfterStatus EXCEPT !.phase = "Retuning"], StatusMsgs,
                retune(drone.commit_target))

\* tick_verifying: unconfirmed by the deadline, go back.
RollBack ==
    /\ ExpiryDue
    /\ drone_do([AfterStatus EXCEPT !.st = "Rollback", !.markers_on = FALSE],
                StatusMsgs, retune(fallback_channel(drone)))

StatusOnly ==
    /\ StatusDue
    /\ ~ (NoAckDue \/ RepeatDue \/ SwitchDue \/ StallDue \/ ExpiryDue)
    /\ drone_do(AfterStatus, StatusMsgs, <<>>)

Drone_on_tick ==
    \/ GiveUpUnheard
    \/ RepeatOrSwitch
    \/ DrainStalled
    \/ RollBack
    \/ StatusOnly

------------------------------------------------------------------------------
(***************************************************************************)
(* Host operations and their callbacks.  HostDoes performs Head(dtodo),    *)
(* leaves the radio on ch, the machine in state d, and airs msgs there.    *)
(***************************************************************************)
HostDoes(d, ch, msgs, ops) ==
    /\ drone' = d
    /\ dradio' = ch
    /\ dtodo' = Tail(dtodo) \o ops
    /\ gq' = IF gradio = ch /\ Cardinality(gq \cup msgs) <= MaxQueue
             THEN gq \cup msgs ELSE gq
    /\ UNCHANGED gradio

finish_rollback(d) ==
    [d EXCEPT !.st = "Stable", !.hold_down = HoldDown,
              !.settle_status = SettleStatus, !.next_status = 0,
              !.rw = clear_in_flight(@), !.markers_on = FALSE]

on_drain_done ==
    LET activating == drone.st = "Switching" /\ drone.phase = "Draining"
        probing    == drone.st = "Validating" /\ drone.pp = "Drain"
    IN  /\ dtodo # <<>> /\ Head(dtodo).op = "drain"
        /\ \/ /\ activating
              /\ HostDoes([drone EXCEPT !.phase = "Retuning"], dradio, {},
                          retune(drone.commit_target))
           \/ /\ probing
              /\ HostDoes([drone EXCEPT !.pp = "Retune"], dradio, {},
                          retune(drone.commit_target))
           \/ /\ ~ activating /\ ~ probing
              /\ HostDoes(drone, dradio, {}, <<>>)

on_probe_sample(busy) ==
    /\ dtodo # <<>> /\ Head(dtodo).op = "sample"
    /\ HostDoes(IF drone.st = "Validating" /\ drone.pp = "Sampling"
                THEN [drone EXCEPT !.probe_veto = busy, !.pp = "Return"]
                ELSE drone,
                dradio, {},
                IF drone.st = "Validating" /\ drone.pp = "Sampling"
                THEN retune(drone.commit_source) ELSE <<>>)

(***************************************************************************)
(* on_retune_done(ok).  A retune that throws leaves the radio where it     *)
(* was.  The message behind the retune, if any, is aired either way.       *)
(***************************************************************************)
Tuned(ok) == IF ok THEN Head(dtodo).ch ELSE dradio
Behind == IF Head(dtodo).after = NoFrame THEN {} ELSE {Head(dtodo).after}

ActivationRetuned(ok) ==
    /\ drone.st = "Switching" /\ drone.phase = "Retuning"
    /\ \/ /\ ok
          /\ HostDoes([drone EXCEPT !.current = drone.commit_target,
                           !.st = "Verifying", !.markers_on = TRUE,
                           !.marker_ch = drone.commit_target, !.pump_on = TRUE],
                      Tuned(ok), Behind, <<>>)
       \/ /\ ~ ok
          /\ HostDoes([drone EXCEPT !.phase = "RollbackRetune",
                                    !.current = fallback_channel(drone)],
                      Tuned(ok), Behind, retune(fallback_channel(drone)))

FallbackRetuned(ok) ==
    /\ drone.st = "Switching" /\ drone.phase = "RollbackRetune"
    /\ \/ /\ ok
          /\ HostDoes(finish_rollback([drone EXCEPT
                          !.current = fallback_channel(drone)]),
                      Tuned(ok), Behind, <<>>)
       \/ /\ ~ ok
          /\ HostDoes([drone EXCEPT !.current = drone.commit_rescue,
                           !.st = "Stable", !.hold_down = HoldDown],
                      Tuned(ok), Behind,
                      RetuneThenSend(drone.commit_rescue, abort_msg(drone, 1)))

\* Mutant: rolling back forgets to note the channel.
RollbackRetuned_Forgets(ok) ==
    /\ drone.st = "Rollback"
    /\ HostDoes(finish_rollback(drone), Tuned(ok), Behind, <<>>)

\* Whether the retune worked is not asked here.
RollbackRetuned(ok) ==
    /\ drone.st = "Rollback"
    /\ HostDoes(finish_rollback([drone EXCEPT !.current = fallback_channel(drone)]),
                Tuned(ok), Behind, <<>>)

ProbeReached(ok) ==
    /\ drone.st = "Validating" /\ drone.pp = "Retune"
    /\ \/ /\ ok
          /\ HostDoes([drone EXCEPT !.current = drone.commit_target,
                                    !.pp = "Sampling"],
                      Tuned(ok), Behind, SampleNow)
       \/ /\ ~ ok
          /\ HostDoes([drone EXCEPT !.probe_veto = TRUE, !.pp = "Return"],
                      Tuned(ok), Behind, retune(drone.commit_source))

ProbeReturned(ok) ==
    LET back == [drone EXCEPT !.pp = "None", !.pump_on = TRUE,
                     !.current = IF ok THEN drone.commit_source
                                       ELSE drone.commit_rescue]
        refused == [back EXCEPT !.st = "Stable", !.rw = clear_in_flight(@)]
    IN  /\ drone.st = "Validating" /\ drone.pp = "Return"
        /\ \/ /\ ~ ok
              /\ HostDoes(refused, Tuned(ok),
                          Behind \cup {status_reject(refused, drone.gen, "RetuneFail")},
                          <<>>)
           \/ /\ ok /\ drone.probe_veto
              /\ HostDoes(refused, Tuned(ok),
                          Behind \cup {status_reject(refused, drone.gen, "Veto")},
                          <<>>)
           \/ /\ ok /\ ~ drone.probe_veto
              /\ HostDoes(enter_committed(back), Tuned(ok),
                          Behind \cup {make_commit(enter_committed(back))}, <<>>)

RetuneUnasked(ok) ==
    /\ ~ (drone.st = "Switching" /\ drone.phase \in {"Retuning", "RollbackRetune"})
    /\ drone.st # "Rollback"
    /\ ~ (drone.st = "Validating" /\ drone.pp \in {"Retune", "Return"})
    /\ HostDoes(drone, Tuned(ok), Behind, <<>>)

Drone_on_retune_done(ok) ==
    /\ dtodo # <<>> /\ Head(dtodo).op = "retune"
    /\ \/ ActivationRetuned(ok)
       \/ FallbackRetuned(ok)
       \/ RollbackRetuned(ok)
       \/ ProbeReached(ok)
       \/ ProbeReturned(ok)
       \/ RetuneUnasked(ok)

------------------------------------------------------------------------------
\* The process dies and comes back on its configured channel.
Drone_restart ==
    /\ drone' = NewDrone(drone.epoch + 1)
    /\ dtodo' = <<>>
    /\ dradio' = Source
    /\ UNCHANGED <<gq, gradio>>

\* One unit of time passes; an activation instant in the past stays at -1.
DroneElapse(d) ==
    [d EXCEPT !.activate = IF @ < 0 THEN @ ELSE @ - 1,
              !.rollback_deadline = Elapse(@), !.ack_deadline = Elapse(@),
              !.next_commit = Elapse(@), !.hold_down = Elapse(@),
              !.next_status = Elapse(@), !.settle_status = Elapse(@),
              !.drain_deadline = Elapse(@)]
==============================================================================
