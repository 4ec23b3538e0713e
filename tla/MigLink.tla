------------------------------- MODULE MigLink -------------------------------
(***************************************************************************)
(* The two migration machines on one radio link: the ground (MigProposer), *)
(* the drone (MigResponder), the air between them, time, and the faults    *)
(* the protocol is meant to survive: lost, duplicated, delayed and         *)
(* reordered frames, frames captured before a retune and handled after it, *)
(* retunes that throw, drains that never finish, and restarts of either    *)
(* process.  Every kind of fault has a budget.                             *)
(***************************************************************************)
EXTENDS MigProposer, MigResponder

CONSTANTS
    HostLocked,         \* a handler's actions run under g_sm_mu (the demo)
    Prompt,             \* frames are handled in the time unit they are heard in
    MaxLost, MaxDup, MaxStale, MaxRetuneFails, MaxDrainStalls,
    MaxGroundRestarts, MaxDroneRestarts

Faults == {"lost", "dup", "stale", "retune", "drain", "ground", "drone"}

Limit == [f \in Faults |->
            CASE f = "lost"   -> MaxLost
              [] f = "dup"    -> MaxDup
              [] f = "stale"  -> MaxStale
              [] f = "retune" -> MaxRetuneFails
              [] f = "drain"  -> MaxDrainStalls
              [] f = "ground" -> MaxGroundRestarts
              [] f = "drone"  -> MaxDroneRestarts]

ASSUME LinkAssumption ==
    /\ HostLocked \in BOOLEAN /\ Prompt \in BOOLEAN
    /\ Limit \in [Faults -> Nat]

VARIABLES
    used,       \* how often each kind of fault has happened
    adopted,    \* history: the exchanges a ground process has adopted
    proved      \* history: the exchanges a ground has proved with both radios
                \*   on the target

history == <<adopted, proved>>
vars == <<ground, gtodo, drone, dtodo, gq, dq, gradio, dradio, used, adopted, proved>>

Exchange == [ground_epoch : Epochs, generation : Gens, drone_nonce : AnyNonce]

GroundExchange(g) == [ground_epoch |-> g.epoch, generation |-> g.gen,
                      drone_nonce |-> g.drone_nonce]
DroneExchange(d) == [ground_epoch |-> d.ground_epoch, generation |-> d.gen,
                     drone_nonce |-> d.drone_nonce]

TypeOK ==
    /\ ground \in GroundType
    /\ gtodo \in Seq(AnyChannel)
    /\ drone \in DroneType
    /\ dtodo \in Seq(HostOps)
    /\ gq \in SUBSET ToGround
    /\ dq \in SUBSET ToDrone
    /\ gradio \in AnyChannel /\ dradio \in AnyChannel
    /\ used \in [Faults -> Nat]
    /\ adopted \in SUBSET Exchange
    /\ proved \in SUBSET Exchange

Init ==
    /\ GroundInit
    /\ DroneInit
    /\ gq = {} /\ dq = {}
    /\ gradio = Source /\ dradio = Source
    /\ used = [f \in Faults |-> 0]
    /\ adopted = {} /\ proved = {}

Spend(f) ==
    /\ used[f] < Limit[f]
    /\ used' = [used EXCEPT ![f] = @ + 1]

\* The exchange becomes part of the histories as the ground adopts or proves it.
Record ==
    /\ adopted' = IF ground.st = "Proposed" /\ ground'.st \in {"Committed", "Switching"}
                  THEN adopted \cup {GroundExchange(ground')} ELSE adopted
    /\ proved' = IF /\ ~ ground.verified /\ ground'.verified
                    /\ gradio = dradio /\ gradio = ground.commit_target
                 THEN proved \cup {GroundExchange(ground')} ELSE proved

\* The lock each host holds while it works through a handler's actions.
GroundFree == HostLocked => gtodo = <<>>
DroneFree  == HostLocked => dtodo = <<>>

------------------------------------------------------------------------------
(***************************************************************************)
(* Steps of the ground process.                                            *)
(***************************************************************************)
GroundStart ==
    /\ GroundFree
    /\ \E tgt \in Proposable : Ground_start(tgt)
    /\ Record
    /\ UNCHANGED <<droneVars, gq, used>>

GroundReceive ==
    /\ GroundFree
    /\ \E m \in gq :
        /\ Ground_on_message(m)
        /\ \/ gq' = gq \ {m} /\ UNCHANGED used
           \/ gq' = gq /\ Spend("dup")
    /\ Record
    /\ UNCHANGED droneVars

GroundTick ==
    /\ GroundFree
    /\ Ground_on_tick
    /\ Record
    /\ UNCHANGED <<droneVars, gq, used>>

\* What the drone's periodic streams put on the air.
MarkerFrame == [type |-> "MARKER", drone_epoch |-> drone.epoch,
                generation |-> drone.gen, aired_on |-> drone.marker_ch]

Streams == (IF drone.pump_on THEN {[type |-> "VIDEO"]} ELSE {})
             \cup (IF drone.markers_on THEN {MarkerFrame} ELSE {})

\* The ground hears the video pump or a marker on the channel it is tuned to.
HearVideo ==
    /\ GroundFree
    /\ drone.pump_on /\ gradio = dradio
    /\ Ground_on_video
    /\ Record
    /\ UNCHANGED <<droneVars, gq, used>>

HearMarker ==
    /\ GroundFree
    /\ drone.markers_on /\ gradio = dradio
    /\ Ground_on_marker(MarkerFrame)
    /\ Record
    /\ UNCHANGED <<droneVars, gq, used>>

\* The radio moves; a frame of the channel it leaves may still be in the pipe.
GroundRetune ==
    /\ ground_retune
    /\ \/ UNCHANGED <<gq, used>>
       \/ /\ gradio = dradio
          /\ \E f \in Streams : gq' = gq \cup {f}
          /\ Spend("stale")
    /\ Record
    /\ UNCHANGED droneVars

GroundRestart ==
    /\ Ground_restart
    /\ Spend("ground")
    /\ gq' = {}
    /\ UNCHANGED <<droneVars, history>>

------------------------------------------------------------------------------
(***************************************************************************)
(* Steps of the drone process.                                             *)
(***************************************************************************)
DroneReceive ==
    /\ DroneFree
    /\ \E m \in dq :
        /\ Drone_on_message(m)
        /\ \/ dq' = dq \ {m} /\ UNCHANGED used
           \/ dq' = dq /\ Spend("dup")
    /\ UNCHANGED <<groundVars, history>>

DroneTick ==
    /\ DroneFree
    /\ Drone_on_tick
    /\ UNCHANGED <<groundVars, dq, used, history>>

DroneHost ==
    /\ \/ (on_drain_done \/ \E busy \in BOOLEAN : on_probe_sample(busy)) /\ UNCHANGED used
       \/ Drone_on_retune_done(TRUE) /\ UNCHANGED used
       \/ Drone_on_retune_done(FALSE) /\ Spend("retune")
    /\ UNCHANGED <<groundVars, dq, history>>

\* The drain callback is lost (the machine has a deadline for that).
DrainStall ==
    /\ dtodo # <<>> /\ Head(dtodo).op = "drain"
    /\ ~ HostLocked
    /\ dtodo' = Tail(dtodo)
    /\ Spend("drain")
    /\ UNCHANGED <<groundVars, drone, medium, history>>

DroneRestart ==
    /\ Drone_restart
    /\ Spend("drone")
    /\ dq' = {}
    /\ UNCHANGED <<groundVars, history>>

------------------------------------------------------------------------------
\* A frame on its way to a state machine is lost.
Lose ==
    /\ \/ \E m \in gq : gq' = gq \ {m} /\ UNCHANGED dq
       \/ \E m \in dq : dq' = dq \ {m} /\ UNCHANGED gq
    /\ Spend("lost")
    /\ UNCHANGED <<groundVars, droneVars, gradio, dradio, history>>

(***************************************************************************)
(* One unit of time.  The hosts poll on_tick every 10 ms and a host        *)
(* operation takes milliseconds, both short against the unit: time does    *)
(* not pass while a deadline is due or a host operation is outstanding.    *)
(***************************************************************************)
Tick ==
    /\ gtodo = <<>> /\ dtodo = <<>>
    /\ ~ GroundDue /\ ~ DroneDue
    /\ Prompt => gq = {} /\ dq = {}
    /\ ground' = GroundElapse(ground)
    /\ drone' = DroneElapse(drone)
    /\ UNCHANGED <<gtodo, dtodo, medium, used, history>>

Next ==
    \/ GroundStart \/ GroundReceive \/ GroundTick \/ GroundRetune
    \/ HearVideo \/ HearMarker \/ GroundRestart
    \/ DroneReceive \/ DroneTick \/ DroneHost \/ DrainStall \/ DroneRestart
    \/ Lose \/ Tick

Spec == Init /\ [][Next]_vars

(***************************************************************************)
(* Fairness.  Both hosts poll and run their threads for as long as they    *)
(* live.  Video and markers are streams (200 and 50 frames a second): a    *)
(* ground that keeps coming back to the drone's channel hears them.        *)
(***************************************************************************)
Fairness ==
    /\ WF_vars(Tick)
    /\ WF_vars(GroundTick) /\ WF_vars(GroundRetune) /\ WF_vars(GroundReceive)
    /\ WF_vars(DroneTick) /\ WF_vars(DroneHost) /\ WF_vars(DroneReceive)
    /\ SF_vars(HearVideo) /\ SF_vars(HearMarker)

FairSpec == Spec /\ Fairness

------------------------------------------------------------------------------
(***************************************************************************)
(* Properties.                                                             *)
(***************************************************************************)

\* The drone is acting on its commit: it has begun to leave the source channel.
Activated == drone.st \in {"Switching", "Verifying"}

(***************************************************************************)
(* "A commit the current ground never heard is never activated"            *)
(* (MigResponder.h): when the drone acts on an exchange, the ground        *)
(* process that proposed that exchange has adopted its commit.             *)
(***************************************************************************)
NeverActivatedUnheard == Activated => DroneExchange(drone) \in adopted

(***************************************************************************)
(* Whatever restarts, an activation rests on an adopted commit: some       *)
(* ground process has adopted a commit that carried the nonce and the      *)
(* generation the drone acts on.                                           *)
(***************************************************************************)
ActivationNeedsNonce ==
    Activated => \E x \in adopted : /\ x.drone_nonce = drone.drone_nonce
                                    /\ x.generation = drone.gen

(***************************************************************************)
(* The drone settles on the target only if, in that exchange, the ground   *)
(* has verified the target while both radios really were on it: frames     *)
(* left over from another channel never prove one (on_marker, on_video,    *)
(* on_confirm).                                                            *)
(***************************************************************************)
SettlesOnlyIfProved ==
    [][ (/\ drone.st = "Verifying" /\ drone'.st = "Stable"
         /\ drone'.epoch = drone.epoch)
          => DroneExchange(drone) \in proved ]_vars

(***************************************************************************)
(* The proposer's I1, "never retune before adopting a nonce+generation-    *)
(* matched commit": a retune of the ground's radio is outstanding only in  *)
(* an exchange whose commit this ground process has adopted.               *)
(***************************************************************************)
NoRetuneUnadopted ==
    gtodo # <<>> => \E x \in adopted : /\ x.ground_epoch = ground.epoch
                                       /\ x.generation = ground.gen

(***************************************************************************)
(* A drone process runs an exchange of a ground process at most once, and  *)
(* in the order of the generations, however often its proposals arrive     *)
(* (ReplayWindow::classify_proposal, MigResponder::on_proposal).           *)
(***************************************************************************)
NoExchangeTwice ==
    [][ (/\ drone.st = "Stable" /\ drone'.st \in {"Validating", "Committed"}
         /\ drone'.ground_epoch = drone.ground_epoch)
          => drone'.gen > drone.gen ]_vars

(***************************************************************************)
(* A drone that is settled knows where its radio is: current_ is what its  *)
(* statuses, and with them the ground, and its source check rely on.       *)
(***************************************************************************)
DroneKnowsItsChannel ==
    drone.st = "Stable" /\ dtodo = <<>> => drone.current = dradio

\* The ground takes a pre-activation ABORT after its radio has left the source.
CancelledAway ==
    /\ gradio # Source
    /\ \E m \in gq : m.type = "ABORT" /\ m.effective = 0 /\ Ground_on_abort(m)

(***************************************************************************)
(* "The ground never unilaterally commits to a channel the drone left"     *)
(* (MigProposer::on_status): when the ground ends an exchange it has       *)
(* adopted by settling, the drone has settled and the two radios are on    *)
(* one channel.  on_abort keeps this only for a ground that is still on    *)
(* the source; what becomes of one that is not is SplitHeals.              *)
(***************************************************************************)
GroundFollowsDrone ==
    [][ (/\ ground.st \in {"Committed", "Switching", "Verifying"}
         /\ ground'.st = "Stable" /\ ground'.epoch = ground.epoch
         /\ ~ CancelledAway)
          => drone.st = "Stable" /\ gradio' = dradio ]_vars

(***************************************************************************)
(* The inductive invariant behind ActivationNeedsNonce: the nonce of an    *)
(* acknowledgement on its way, of a ground that waits for the activation,  *)
(* and of an armed drone, is each the nonce of an adopted commit.          *)
(***************************************************************************)
NonceAdopted(nonce_, gen) ==
    \E x \in adopted : x.drone_nonce = nonce_ /\ x.generation = gen

AcksAdopted ==
    \A m \in dq : m.type = "STATUS" => NonceAdopted(m.peer_nonce_echo, m.generation)
GroundAdopted ==
    ground.st = "Committed" => NonceAdopted(ground.drone_nonce, ground.gen)
ArmedAdopted ==
    drone.st = "Committed" /\ drone.armed => NonceAdopted(drone.drone_nonce, drone.gen)

AckInv == AcksAdopted /\ GroundAdopted /\ ArmedAdopted /\ ActivationNeedsNonce

(***************************************************************************)
(* What a link whose ground process never restarts has on top of AckInv:   *)
(* everything the drone knows of an exchange names that one process.       *)
(***************************************************************************)
Engaged == drone.st \in {"Validating", "Committed", "Switching", "Verifying"}

OneGround ==
    /\ ground.epoch = 1
    /\ \A m \in dq : m.type = "PROPOSAL" => m.ground_epoch = 1
    /\ \A x \in adopted : x.ground_epoch = 1
    /\ Engaged => drone.ground_epoch = 1

\* Both ends settled, and on the same channel.
Converged == ground.st = "Stable" /\ drone.st = "Stable" /\ gradio = dradio

(***************************************************************************)
(* No lasting split-brain: in the end the two ends are settled together.   *)
(***************************************************************************)
Reunion == <>[]Converged

\* Both ends settled, their radios apart.
SettledApart == ground.st = "Stable" /\ drone.st = "Stable" /\ gradio # dradio

(***************************************************************************)
(* "None produces a lasting split-brain": two ends that have settled with  *)
(* their radios on different channels come together again.  on_abort says  *)
(* "nothing moved" of an ABORT that cancels before the activation, and     *)
(* settles the ground without a retune.                                    *)
(***************************************************************************)
SplitHeals == SettledApart ~> gradio = dradio

\* A migration never hangs on the drone.
DroneSettles == drone.st # "Stable" ~> drone.st = "Stable"
==============================================================================
