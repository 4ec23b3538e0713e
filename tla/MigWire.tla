------------------------------- MODULE MigWire -------------------------------
(***************************************************************************)
(* The control messages of the channel-migration protocol, the anti-replay *)
(* window, and the radio medium that carries the messages.                 *)
(*                                                                         *)
(* A frame is heard only by a radio tuned to the channel it is aired on.   *)
(* What a radio has heard waits in gq (ground) or dq (drone) until the     *)
(* receive thread hands it to the state machine.  The queues are sets: the *)
(* medium may reorder, and an identical frame that is still waiting is not *)
(* queued twice.  MAC checking is abstracted: every frame is authentic.    *)
(***************************************************************************)
EXTENDS MigConfig, FiniteSets, Sequences

CONSTANTS
    Channels,       \* the channels the protocol can name
    NoChannel,      \* a default-constructed ChannelDef
    Source,         \* the channel both processes are configured with
    Rescue,         \* the rescue channel of the ground's configuration
    Proposable,     \* the targets the operator may propose
    Allowed,        \* the targets that pass validate_target
    MaxGen,         \* bound: migrations one ground process starts
    MaxQueue        \* bound: frames waiting at one receiver

ASSUME ChannelsAssumption ==
    /\ NoChannel \notin Channels
    /\ {Source, Rescue} \subseteq Channels
    /\ Proposable \subseteq Channels
    /\ MaxGen \in Nat /\ MaxQueue \in Nat

VARIABLES
    gq, dq,         \* frames heard by the ground / drone, not yet handled
    gradio, dradio  \* the channel each radio is tuned to

medium == <<gq, dq, gradio, dradio>>

MigState == {"Stable", "Proposed", "Validating", "Committed", "Switching",
             "Verifying", "Rollback", "Recovery"}

Reasons == {"None", "SourceMismatch", "IllegalTarget", "Busy", "RetuneFail", "Veto"}

(***************************************************************************)
(* A nonce is a hash of the sender's epoch and the generation; the salt    *)
(* separates the two directions.  The hash is taken to be injective.       *)
(***************************************************************************)
mig_mix_nonce(epoch, gen, salt) == <<epoch, gen, salt>>
GroundNonce(epoch, gen) == mig_mix_nonce(epoch, gen, "A1")
DroneNonce(epoch, gen)  == mig_mix_nonce(epoch, gen, "D2")
NoNonce == <<0, 0, "none">>

Epochs == Nat
Gens   == Nat
AnyNonce == {NoNonce} \cup (Epochs \X Gens \X {"A1", "D2"})
AnyChannel == Channels \cup {NoChannel}

Proposals == [type : {"PROPOSAL"}, ground_epoch : Epochs, generation : Gens,
              source : AnyChannel, target : AnyChannel, rescue : AnyChannel,
              fallback_mode : {0, 1}, ground_nonce : AnyNonce]
Commits == [type : {"COMMIT"}, drone_epoch : Epochs, ground_epoch : Epochs,
            generation : Gens, target : AnyChannel, rescue : AnyChannel,
            ground_nonce_echo : AnyNonce, drone_nonce : AnyNonce,
            offset : Int]
Statuses == [type : {"STATUS"}, role : {0, 1}, sender_epoch : Epochs,
             generation : Gens, state : MigState, current : AnyChannel,
             reason : Reasons, peer_nonce_echo : AnyNonce]
Confirms == [type : {"CONFIRM"}, ground_epoch : Epochs, generation : Gens,
             drone_nonce_echo : AnyNonce]
Aborts == [type : {"ABORT"}, sender_epoch : Epochs, generation : Gens,
           effective : {0, 1}]
Markers == [type : {"MARKER"}, drone_epoch : Epochs, generation : Gens,
            aired_on : AnyChannel]
Videos == [type : {"VIDEO"}]

ToDrone  == Proposals \cup Statuses \cup Confirms
ToGround == Commits \cup Statuses \cup Aborts \cup Markers \cup Videos

(***************************************************************************)
(* The queue q of a receiver after the peer airs the frames ms.            *)
(***************************************************************************)
Heard(q, ms) ==
    IF gradio = dradio /\ Cardinality(q \cup ms) <= MaxQueue THEN q \cup ms ELSE q

------------------------------------------------------------------------------
(***************************************************************************)
(* struct ReplayWindow: what the drone remembers of the ground.            *)
(***************************************************************************)
ReplayWindow == [have_peer : BOOLEAN, peer_epoch : Epochs, max_gen : Gens,
                 in_flight_gen : Gens]

NewWindow == [have_peer |-> FALSE, peer_epoch |-> 0, max_gen |-> 0,
              in_flight_gen |-> 0]

\* Only proposals reach it, and they may introduce an epoch: it never refuses.
accept_epoch(rw, epoch) ==
    IF rw.have_peer /\ epoch = rw.peer_epoch
    THEN rw
    ELSE [have_peer |-> TRUE, peer_epoch |-> epoch, max_gen |-> 0,
          in_flight_gen |-> 0]

\* Mutant: the last generation taken may be taken again.
classify_proposal_Loose(rw, gen) ==
    IF rw.in_flight_gen # 0 /\ gen = rw.in_flight_gen THEN "idempotent"
    ELSE IF gen < rw.max_gen THEN "replay" ELSE "fresh"

classify_proposal(rw, gen) ==
    IF rw.in_flight_gen # 0 /\ gen = rw.in_flight_gen THEN "idempotent"
    ELSE IF gen <= rw.max_gen THEN "replay" ELSE "fresh"

\* The fresh case of classify_proposal records the generation.
take_generation(rw, gen) == [rw EXCEPT !.max_gen = gen, !.in_flight_gen = gen]

clear_in_flight(rw) == [rw EXCEPT !.in_flight_gen = 0]
==============================================================================
