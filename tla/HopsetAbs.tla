------------------------------ MODULE HopsetAbs ------------------------------
(***************************************************************************)
(* What the adaptive hopset promises, with no messages, clocks or timers:  *)
(* the transmitter makes states official one generation after the other,   *)
(* and the receiver runs only official states.                             *)
(***************************************************************************)
EXTENDS Integers

CONSTANT FirstState     \* the state a receiver starts from

VARIABLES
    official,   \* every state some boot of the transmitter has made official
    held        \* the state the receiver runs

Init ==
    /\ \E boot \in official : official = {FirstState, boot}
    /\ held = FirstState

\* A new state is the first of a new boot or the successor of the newest one.
Announce ==
    /\ \E s \in official' :
        /\ official' = official \cup {s}
        /\ \/ \A t \in official : t.epoch < s.epoch
           \/ /\ \E t \in official :
                    t.epoch = s.epoch /\ t.generation = s.generation - 1
              /\ \A t \in official : t.epoch = s.epoch => t.generation < s.generation
    /\ UNCHANGED held

\* Somebody else than boot e has spoken.
OtherBoot(e) == \E t \in official : t.epoch # e /\ t.epoch # FirstState.epoch

\* The receiver adopts a state.  It goes forward, as long as there has been
\* only one boot: frames of several boots it cannot put in order.
Adopt ==
    /\ held' \in official
    /\ held'.epoch = held.epoch
         => held'.generation > held.generation \/ OtherBoot(held.epoch)
    /\ UNCHANGED official

\* A receiver that starts again knows nothing.
Forget == held' = FirstState /\ UNCHANGED official

Next == Announce \/ Adopt \/ Forget

Spec == Init /\ [][Next]_<<official, held>>
==============================================================================
