---------------------------- MODULE MigWire_proofs ----------------------------
(***************************************************************************)
(* Facts about the parameters, the clock arithmetic, the nonces and the    *)
(* replay window that the proofs about both machines use.                  *)
(***************************************************************************)
EXTENDS MigWire, TLAPS

\* Every interval of MigParams is a value a deadline can be set to.
LEMMA TimerParams ==
    /\ ProposalInterval \in Timers /\ CommitInterval \in Timers
    /\ StatusInterval \in Timers /\ AckTimeout \in Timers
    /\ BlankWindow \in Timers /\ RecoveryDwell \in Timers
    /\ HoldDown \in Timers /\ SettleStatus \in Timers
    /\ DrainDeadline \in Timers /\ 0 \in Timers /\ Never \in Timers
BY ParamsAssumption DEF ParamsAssumption, Timers

\* The configured and the proposable channels are channels.
LEMMA ChannelType ==
    /\ Source \in AnyChannel /\ Rescue \in AnyChannel /\ NoChannel \in AnyChannel
    /\ \A c \in Proposable : c \in AnyChannel
BY ChannelsAssumption DEF ChannelsAssumption, AnyChannel

\* A deadline stays a deadline as time passes and when it is moved back.
LEMMA TimerType ==
    /\ \A t \in Timers : Elapse(t) \in Timers
    /\ \A t \in Timers, d \in Nat : Later(t, d) \in Timers
BY DEF Timers, Never, Elapse, Later

\* The nonces either side mixes are nonces.
LEMMA NonceType ==
    ASSUME NEW e \in Epochs, NEW n \in Gens
    PROVE  GroundNonce(e, n) \in AnyNonce /\ DroneNonce(e, n) \in AnyNonce
           /\ NoNonce \in AnyNonce
BY DEF GroundNonce, DroneNonce, mig_mix_nonce, AnyNonce

\* The three operations of struct ReplayWindow yield a ReplayWindow.
LEMMA WindowType ==
    ASSUME NEW rw \in ReplayWindow, NEW e \in Epochs, NEW n \in Gens
    PROVE  /\ accept_epoch(rw, e) \in ReplayWindow
           /\ take_generation(rw, n) \in ReplayWindow
           /\ clear_in_flight(rw) \in ReplayWindow
<1>1. 0 \in Gens BY DEF Gens
<1> QED BY <1>1, Zenon DEF ReplayWindow, accept_epoch, take_generation, clear_in_flight

\* The members a process starts with at 0 are in their types.
LEMMA ZeroType == 0 \in Epochs /\ 0 \in Gens /\ 0 \in Nat
BY DEF Epochs, Gens

==============================================================================
