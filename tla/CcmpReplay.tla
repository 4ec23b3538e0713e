------------------------------ MODULE CcmpReplay -----------------------------
(***************************************************************************)
(* CcmpReplay (Ccmp.h): for every TID the highest packet number accepted   *)
(* and, as the set of distances behind it, the packet numbers of the last  *)
(* Window that have been accepted.                                         *)
(***************************************************************************)
EXTENDS Integers

CONSTANTS
    Tids,       \* kSlots
    Window      \* kWindow

ASSUME CcmpAssumption == Tids # {} /\ Window \in Nat \ {0}

Slots == [seen : BOOLEAN, last : Nat, mask : SUBSET (0..Window - 1)]
Windows == [Tids -> Slots]

reset == [t \in Tids |-> [seen |-> FALSE, last |-> 0, mask |-> {}]]

\* Every window starts at a known head; a seed of 0 is a reset.
seed(pn) ==
    [t \in Tids |-> [seen |-> pn # 0, last |-> pn,
                     mask |-> IF pn # 0 THEN 0..Window - 1 ELSE {}]]

Acceptable(slot, pn) ==
    /\ pn # 0
    /\ \/ ~ slot.seen
       \/ pn > slot.last
       \/ slot.last - pn < Window /\ slot.last - pn \notin slot.mask

\* What the window remembers once pn has been accepted.
Accepted(slot, pn) ==
    IF ~ slot.seen THEN [seen |-> TRUE, last |-> pn, mask |-> {0}]
    ELSE IF pn > slot.last
    THEN [seen |-> TRUE, last |-> pn,
          mask |-> {0} \cup {b \in 0..Window - 1 :
                               b - (pn - slot.last) \in slot.mask}]
    ELSE [slot EXCEPT !.mask = @ \cup {slot.last - pn}]
==============================================================================
